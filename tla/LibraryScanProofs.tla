------------------------- MODULE LibraryScanProofs -------------------------
(***************************************************************************)
(* Proofs about LibraryScan: for any files, archives, scan directories,    *)
(* however they overlap, any game database, and any number of scans and    *)
(* changes.                                                                *)
(***************************************************************************)
EXTENDS LibraryScan, FiniteSetTheorems, TLAPS

(* A row of the present version of a file that has not changed *)
Current(r) == r.file \notin scan.changed /\ r.ver = disk[r.file]
Entered == UNION {scan.path[i] : i \in 1..scan.dir}
Reading == scan.reading # NoRow
Working == pc \in {"dir", "files", "others"}

(***************************************************************************)
(* Where the thread is: what it is to look at, and what it is about to     *)
(* purge, belongs to the directory it is in.                               *)
(***************************************************************************)
InPlace ==
    /\ scan.dir <= Len(scan.path)
    /\ pc = "others" => scan.dir = Len(scan.path)
    /\ pc = "files" => /\ scan.todo \subseteq Entered
                       /\ scan.left \subseteq tx
                       /\ \A r \in scan.left : r.file \in Entered
    /\ pc # "files" => tx = db.rows
    /\ Reading => /\ pc = "files" /\ scan.inserted
                  /\ scan.reading \in tx /\ scan.reading.file \in Entered
                  /\ \A r \in scan.left : r.file # scan.reading.file \/ r.ver # scan.reading.ver

(* What needs no change is not lost. *)
Kept ==
    Working =>
        /\ \A r \in db.rows : Current(r) => r \in tx /\ (Reading => r.file # scan.reading.file)
        /\ \A r \in scan.others : Current(r) => r \in tx /\ r.file \notin Entered
        /\ pc = "files" /\ ~stop => \A r \in scan.left : Current(r) => r.file \in scan.todo

(* What does is purged, and what is missing added. *)
Followed ==
    Working =>
        /\ \A r \in tx : r.file \notin Entered => r \in scan.others
        /\ ~stop =>
            /\ \A r \in tx : r.file \in Entered \ scan.changed =>
                    Current(r) \/ (pc = "files" /\ r \in scan.left)
            /\ ~held => \A f \in Entered \ scan.changed : disk[f] # Absent =>
                    \/ \E r \in tx : r.file = f /\ Current(r)
                    \/ pc = "files" /\ f \in scan.todo

(* A row has all contents, unless its reading was cut short. *)
Whole(r) ==
    \/ r.ver = Unsized
    \/ <<r.file, r.ver>> \in cut
    \/ r.items = Contents(r.file, r.ver)

OneEach(rows) == \A r, s \in rows : r.file = s.file /\ r.ver = s.ver => r = s

RowsSound ==
    /\ OneEach(db.rows) /\ OneEach(tx)
    /\ \A r \in db.rows : Whole(r)
    /\ \A r \in tx : Whole(r) \/ (Reading /\ r = scan.reading)
    /\ Reading => /\ <<scan.reading.file, scan.reading.ver>> \in scan.reading.items
                  /\ scan.reading.items \subseteq Contents(scan.reading.file, scan.reading.ver)

AccurateFor(rows, f) ==
    LET of == {r \in rows : r.file = f}
    IN  IF f \notin Scanned \/ disk[f] = Absent THEN of = {}
        ELSE \E r \in of : of = {r} /\ r.ver = disk[f] /\ Whole(r)

Accurate ==
    pc \in {"scanned", "configs", "games", "end"} /\ scan.files /\ ~stop /\ ~scan.failed /\ ~held =>
        \A f \in Files \ scan.changed : AccurateFor(db.rows, f)

(* A stamp tells whether contents were added since. *)
Stamps ==
    /\ db.ins <= scans /\ lib.ins <= db.ins /\ libTx.ins <= db.ins
    /\ Working => lib = libTx /\ lib.ins < scans
    /\ pc \in {"scanned", "configs", "games"} => libTx.del = lib.del
    /\ \A l \in {lib, libTx} : l.ins = db.ins =>
            \A v \in l.known \ l.have : ~(Needs[v] \subseteq Items(db.rows))
    /\ pc = "files" => scan.inserted \/ tx \subseteq db.rows

Lists ==
    /\ pc = "games" /\ ~stop => libTx.configs = {r.file : r \in db.rows} \cap Configs
    /\ LibraryFollows

IInv == TypeOK /\ InPlace /\ Kept /\ Followed /\ RowsSound /\ Accurate /\ Stamps /\ Lists

-----------------------------------------------------------------------------
LEMMA PathShape ==
    ASSUME TypeOK
    PROVE  scan.path \in Seq(SUBSET Files) /\ Len(scan.path) \in Nat /\ scan.dir \in Nat
<1>1. <<>> \in Seq(SUBSET Files)
  OBVIOUS
<1>2. scan.path \in ScanPaths \cup {<<>>} /\ scan.dir \in Nat
  BY DEF TypeOK, ScanStates
<1>3. scan.path \in Seq(SUBSET Files)
  BY <1>1, <1>2, ScanAssumption
<1> QED
  BY <1>2, <1>3

LEMMA InitIInv == Init => IInv
<1> SUFFICES ASSUME Init PROVE IInv
  OBVIOUS
<1> USE DEF Init
<1>1. TypeOK
  <2>1. disk \in [Files -> Versions \cup {Absent}] /\ pc \in Steps
    BY DEF Steps
  <2>2. 0 \in 0..ScanLimit /\ 0 \in 0..ChangeLimit
    BY ScanAssumption
  <2>3. db \in [rows : SUBSET Rows, ins : 0..ScanLimit, del : 0..ScanLimit] /\ lib \in Libraries
    BY <2>2 DEF Never, Libraries
  <2>4. scan \in ScanStates
    BY DEF ScanStates, Idle
  <2> QED
    BY <2>1, <2>2, <2>3, <2>4 DEF TypeOK
<1>2. InPlace /\ Kept /\ Followed /\ Accurate
  BY DEF InPlace, Reading, Working, Kept, Followed, Accurate, Idle
<1>3. RowsSound /\ Lists
  BY DEF RowsSound, OneEach, Reading, Idle, Lists, LibraryFollows, Complete
<1>4. Stamps
  BY DEF Stamps, Working, Never
<1> QED
  BY <1>1, <1>2, <1>3, <1>4 DEF IInv

LEMMA ChangeFileStep == ASSUME IInv, NEW f \in Files, ChangeFile(f) PROVE IInv'
<1>1. /\ changes < ChangeLimit /\ changes' = changes + 1
      /\ disk' \in [Files -> Versions \cup {Absent}]
      /\ \A g \in Files : g # f => disk'[g] = disk[g]
      /\ UNCHANGED <<db, tx, lib, libTx, held, stop, pc, scans, cut>>
  BY DEF ChangeFile, IInv, TypeOK
<1>2. scan' = IF pc = "idle" THEN scan ELSE [scan EXCEPT !.changed = @ \cup {f}]
  BY DEF ChangeFile
<1>3. /\ scan'.path = scan.path /\ scan'.dir = scan.dir /\ scan'.todo = scan.todo
      /\ scan'.left = scan.left /\ scan'.others = scan.others /\ scan'.reading = scan.reading
      /\ scan'.inserted = scan.inserted /\ scan'.files = scan.files /\ scan'.failed = scan.failed
      /\ pc # "idle" => scan'.changed = scan.changed \cup {f}
      /\ scan'.changed \subseteq Files
  BY <1>2 DEF IInv, TypeOK, ScanStates
<1>4. TypeOK'
  <2>1. changes' \in 0..ChangeLimit
    BY <1>1, ScanAssumption DEF IInv, TypeOK
  <2>2. scan' \in ScanStates
    BY <1>2 DEF IInv, TypeOK, ScanStates
  <2> QED
    BY <1>1, <2>1, <2>2 DEF IInv, TypeOK
<1>5. \A r : r.file \in Files /\ pc # "idle" /\ Current(r)' => Current(r)
  BY <1>1, <1>3 DEF Current
<1>6. \A r \in db.rows \cup tx \cup scan.others \cup scan.left : r.file \in Files
  BY DEF IInv, TypeOK, ScanStates, Rows
<1>7. Entered' = Entered /\ Reading' = Reading /\ Working' = Working /\ Scanned' = Scanned
  BY <1>1, <1>3 DEF Entered, Reading, Working, Scanned
<1>8. InPlace'
  BY <1>1, <1>3, <1>7 DEF IInv, InPlace
<1>9. Working => pc # "idle"
  BY DEF Working
<1>10. Kept'
  BY <1>1, <1>3, <1>5, <1>6, <1>7, <1>9 DEF IInv, Kept
<1>11. Followed'
  <2>1. \A r : r.file \in Files \ scan'.changed /\ pc # "idle" /\ Current(r) => Current(r)'
    BY <1>1, <1>3 DEF Current
  <2>2. \A g \in Files \ scan'.changed : pc # "idle" => g \notin scan.changed /\ disk'[g] = disk[g]
    BY <1>1, <1>3
  <2>3. Entered \subseteq Files
    BY PathShape DEF Entered, IInv, InPlace
  <2> QED
    BY <1>1, <1>3, <1>6, <1>7, <1>9, <2>1, <2>2, <2>3 DEF IInv, Followed
<1>12. RowsSound'
  BY <1>1, <1>3, <1>7 DEF IInv, RowsSound, OneEach, Whole
<1>13. Accurate'
  <2>1. \A g \in Files \ scan'.changed : pc # "idle" => g \notin scan.changed /\ disk'[g] = disk[g]
    BY <1>1, <1>3
  <2> QED
    BY <1>1, <1>3, <1>7, <2>1 DEF IInv, Accurate, AccurateFor, Whole
<1>14. Stamps'
  BY <1>1, <1>3, <1>7 DEF IInv, Stamps
<1>15. Lists'
  BY <1>1, <1>3 DEF IInv, Lists, LibraryFollows, Complete
<1> QED
  BY <1>4, <1>8, <1>10, <1>11, <1>12, <1>13, <1>14, <1>15 DEF IInv

(* What was read is what was committed. *)
LEMMA StartScanStep ==
    ASSUME IInv, NEW path \in ScanPaths, NEW files \in BOOLEAN, StartScan(path, files)
    PROVE  IInv'
<1>1. /\ pc = "idle" /\ scans < ScanLimit /\ scans' = scans + 1 /\ stop' = FALSE
      /\ pc' = (IF files THEN "dir" ELSE "configs")
      /\ tx' = db.rows /\ libTx' = lib
      /\ UNCHANGED <<disk, db, lib, held, changes, cut>>
      /\ scan' = [Idle EXCEPT !.files = files, !.path = IF files THEN path ELSE <<>>,
                              !.others = IF files THEN db.rows ELSE {}]
  BY DEF StartScan
<1>2. /\ scan'.path = (IF files THEN path ELSE <<>>) /\ scan'.dir = 0 /\ scan'.todo = {}
      /\ scan'.left = {} /\ scan'.others = (IF files THEN db.rows ELSE {})
      /\ scan'.reading = NoRow /\ scan'.inserted = FALSE /\ scan'.files = files
      /\ scan'.failed = FALSE /\ scan'.changed = {}
  BY <1>1 DEF Idle
<1>3. TypeOK'
  <2>1. scan' \in ScanStates
    <3>1. Idle \in ScanStates
      BY DEF Idle, ScanStates
    <3> DEFINE chosen == IF files THEN path ELSE <<>>
               before == IF files THEN db.rows ELSE {}
    <3>2. chosen \in ScanPaths \cup {<<>>} /\ before \subseteq Rows
      BY DEF IInv, TypeOK
    <3>3. scan' = [Idle EXCEPT !.files = files, !.path = chosen, !.others = before]
      BY <1>1
    <3> HIDE DEF Idle, chosen, before
    <3>4. CASE files = TRUE
      <4>1. scan' = [Idle EXCEPT !.files = TRUE, !.path = chosen, !.others = before]
        BY <3>3, <3>4
      <4> QED
        BY <3>1, <3>2, <4>1 DEF ScanStates
    <3>5. CASE files = FALSE
      <4>1. scan' = [Idle EXCEPT !.files = FALSE, !.path = chosen, !.others = before]
        BY <3>3, <3>5
      <4> QED
        BY <3>1, <3>2, <4>1 DEF ScanStates
    <3> QED
      BY <3>4, <3>5
  <2> QED
    <3>1. scans' \in 0..ScanLimit
      BY <1>1, ScanAssumption DEF IInv, TypeOK
    <3>2. pc' \in Steps
      BY <1>1 DEF Steps
    <3>3. tx' \subseteq Rows /\ libTx' \in Libraries /\ stop' \in BOOLEAN
      BY <1>1 DEF IInv, TypeOK
    <3> QED
      BY <1>1, <2>1, <3>1, <3>2, <3>3 DEF IInv, TypeOK
<1>4. Entered' = {} /\ ~Reading'
  BY <1>2 DEF Entered, Reading
<1>5. InPlace'
  <2>1. Len(scan'.path) \in Nat
    BY <1>3, PathShape
  <2> QED
    BY <1>1, <1>2, <1>4, <2>1 DEF InPlace
<1>6. Kept' /\ Followed'
  BY <1>1, <1>2, <1>4 DEF Kept, Followed, Working
<1>7. RowsSound'
  BY <1>1, <1>4 DEF IInv, RowsSound, OneEach, Whole
<1>8. Accurate'
  BY <1>1, <1>2 DEF Accurate
<1>9. Stamps'
  BY <1>1 DEF IInv, TypeOK, Libraries, Stamps, Working
<1>10. Lists'
  BY <1>1 DEF Lists, LibraryFollows, Complete
<1> QED
  BY <1>3, <1>5, <1>6, <1>7, <1>8, <1>9, <1>10 DEF IInv

LEMMA StopStep == ASSUME IInv, Stop PROVE IInv'
<1>1. stop' = TRUE /\ UNCHANGED <<disk, db, tx, lib, libTx, held, pc, scan, scans, changes, cut>>
  BY DEF Stop
<1>2. TypeOK' /\ InPlace'
  BY <1>1 DEF IInv, TypeOK, InPlace, Reading, Entered
<1>3. Kept' /\ Followed'
  BY <1>1 DEF IInv, Kept, Followed, Working, Reading, Entered, Current
<1>4. RowsSound' /\ Accurate' /\ Stamps' /\ Lists'
  BY <1>1 DEF IInv, RowsSound, OneEach, Whole, Reading, Accurate, Stamps, Working, Lists,
              LibraryFollows, Complete
<1> QED
  BY <1>2, <1>3, <1>4 DEF IInv

(* The launcher starts again; what is added for the configurations has no *)
(* contents a variant needs.                                              *)
LEMMA RestartStep == ASSUME IInv, Restart PROVE IInv'
<1> DEFINE there == {c \in Configs : disk[c] # Absent}
           stale == (there \ lib.configs) \cup (lib.configs \ there)
           new == {Row(c, Unsized, {<<c, disk[c]>>}) : c \in there \ lib.configs}
           rows == {r \in db.rows : r.file \notin stale} \cup new
<1>1. /\ pc' = "idle" /\ scan' = Idle /\ stop' = FALSE
      /\ tx' = db'.rows /\ libTx' = lib'
      /\ UNCHANGED <<disk, scans, changes, cut>>
      /\ held' \in BOOLEAN
      /\ lib' = lib \/ lib' = [lib EXCEPT !.configs = there]
      /\ db' = db \/ db' = [db EXCEPT !.rows = rows]
  BY DEF Restart, IInv, TypeOK
<1>2. \A r \in new : /\ r.file \in there \ lib.configs /\ r.ver = Unsized /\ r.items = {<<r.file, disk[r.file]>>}
                     /\ r = Row(r.file, Unsized, {<<r.file, disk[r.file]>>})
  BY DEF Row
<1>3. new \subseteq Rows
  <2> SUFFICES ASSUME NEW c \in there PROVE Row(c, Unsized, {<<c, disk[c]>>}) \in Rows
    OBVIOUS
  <2>1. c \in Files /\ disk[c] \in Versions
    BY ScanAssumption DEF IInv, TypeOK
  <2> QED
    BY <2>1 DEF Row, Rows
<1> HIDE DEF new
<1>4. there \subseteq Configs
  OBVIOUS
<1> HIDE DEF there
<1>5. rows \subseteq Rows
  BY <1>3 DEF IInv, TypeOK
<1>6. OneEach(rows)
  BY <1>2 DEF IInv, RowsSound, OneEach
<1>7. \A r \in rows : Whole(r)
  BY <1>2 DEF IInv, RowsSound, Whole
<1>8. \A v \in Variants : Needs[v] \subseteq Items(rows) => Needs[v] \subseteq Items(db.rows)
  <2> SUFFICES ASSUME NEW v \in Variants, Needs[v] \subseteq Items(rows), NEW item \in Needs[v]
               PROVE  item \in Items(db.rows)
    OBVIOUS
  <2>1. PICK r \in rows : item \in r.items
    BY DEF Items
  <2>2. CASE r \in new
    <3>1. item = <<r.file, disk[r.file]>> /\ r.file \in Configs /\ disk[r.file] # Absent
      BY <1>2, <2>1, <2>2, <1>4 DEF there
    <3>2. disk[r.file] \in Versions
      BY <3>1, ScanAssumption DEF IInv, TypeOK
    <3> QED
      BY <3>1, <3>2, ScanAssumption
  <2>3. CASE r \in db.rows
    BY <2>1, <2>3 DEF Items
  <2> QED
    BY <2>2, <2>3
<1> HIDE DEF rows
<1>9. /\ db'.ins = db.ins /\ db'.rows \in {db.rows, rows} /\ lib'.ins = lib.ins
      /\ lib'.known = lib.known /\ lib'.have = lib.have
      /\ db' \in [rows : SUBSET Rows, ins : 0..ScanLimit, del : 0..ScanLimit] /\ lib' \in Libraries
  BY <1>1, <1>4, <1>5 DEF IInv, TypeOK, Libraries
<1>10. TypeOK'
  <2>1. Idle \in ScanStates
    BY DEF Idle, ScanStates
  <2> QED
    BY <1>1, <1>9, <2>1 DEF IInv, TypeOK, Steps
<1>11. InPlace' /\ Kept' /\ Followed' /\ Accurate'
  <2>1. scan'.dir = 0 /\ scan'.path = <<>> /\ ~Reading'
    BY <1>1 DEF Idle, Reading
  <2> QED
    BY <1>1, <2>1 DEF InPlace, Kept, Followed, Accurate, Working
<1>12. RowsSound'
  <2>1. ~Reading'
    BY <1>1 DEF Idle, Reading
  <2>2. OneEach(db'.rows) /\ \A r \in db'.rows : Whole(r)
    BY <1>6, <1>7, <1>9 DEF IInv, RowsSound
  <2> QED
    BY <1>1, <2>1, <2>2 DEF RowsSound, OneEach, Whole
<1>13. Stamps'
  <2>1. \A v \in Variants : Needs[v] \subseteq Items(db'.rows) => Needs[v] \subseteq Items(db.rows)
    BY <1>8, <1>9
  <2>2. lib.known \subseteq Variants
    BY DEF IInv, TypeOK, Libraries
  <2> QED
    BY <1>1, <1>9, <2>1, <2>2 DEF IInv, Stamps, Working, Items
<1>14. Lists'
  BY <1>1 DEF Lists, LibraryFollows, Complete
<1> QED
  BY <1>10, <1>11, <1>12, <1>13, <1>14 DEF IInv

LEMMA EnterDirStep == ASSUME IInv, EnterDir PROVE IInv'
<1>1. /\ pc = "dir" /\ UNCHANGED <<disk, db, tx, lib, libTx, held, stop, scans, changes, cut>>
      /\ tx = db.rows /\ ~Reading
  BY DEF EnterDir, IInv, InPlace
<1>2. CASE scan.dir = Len(scan.path)
  <2>1. pc' = "others" /\ UNCHANGED scan
    BY <1>2 DEF EnterDir
  <2>2. TypeOK' /\ InPlace'
    BY <1>1, <1>2, <2>1 DEF IInv, TypeOK, Steps, InPlace, Reading, Entered
  <2>3. Kept' /\ Followed'
    BY <1>1, <2>1 DEF IInv, Kept, Followed, Working, Reading, Entered, Current
  <2>4. RowsSound' /\ Accurate' /\ Stamps' /\ Lists'
    BY <1>1, <2>1 DEF IInv, RowsSound, OneEach, Whole, Reading, Accurate, Stamps, Working, Lists,
                LibraryFollows, Complete
  <2> QED
    BY <2>2, <2>3, <2>4 DEF IInv
<1>3. CASE scan.dir # Len(scan.path)
  <2> DEFINE n == scan.dir + 1
             paths == scan.path[n]
             rows == {r \in tx : r.file \in paths}
             todo == {f \in paths : disk[f] # Absent}
             others == OtherRows(rows)
  <2>1. /\ pc' = "files"
        /\ scan' = [scan EXCEPT !.dir = n, !.todo = todo, !.left = rows, !.others = others]
    BY <1>3 DEF EnterDir
  <2>2. /\ n \in Nat /\ n <= Len(scan.path) /\ paths \subseteq Files
        /\ 1..n = (1..scan.dir) \cup {n}
    BY <1>3, PathShape DEF IInv, InPlace
  <2>3. rows \subseteq Rows /\ todo \subseteq Files /\ others \subseteq Rows
    BY <2>2 DEF IInv, TypeOK, ScanStates, OtherRows
  <2> HIDE DEF n, todo, rows, others
  <2>4. /\ scan' \in ScanStates
        /\ scan'.path = scan.path /\ scan'.dir = n /\ scan'.todo = todo /\ scan'.left = rows
        /\ scan'.others = others /\ scan'.reading = scan.reading
        /\ scan'.inserted = scan.inserted /\ scan'.changed = scan.changed
    BY <2>1, <2>2, <2>3 DEF IInv, TypeOK, ScanStates
  <2>5. Entered' = Entered \cup paths /\ Reading' = FALSE
    BY <1>1, <2>2, <2>4 DEF Entered, Reading
  <2>6. \A r : Current(r)' = Current(r)
    BY <1>1, <2>4 DEF Current
  <2>7. TypeOK'
    BY <1>1, <2>1, <2>4 DEF IInv, TypeOK, Steps
  <2>8. InPlace'
    BY <1>1, <2>1, <2>2, <2>4, <2>5 DEF InPlace, rows, todo
  <2>9. Kept'
    <3>1. \A r \in others : Current(r) => r \in tx /\ r.file \notin Entered \cup paths
      BY <1>1 DEF IInv, Kept, Working, others, rows, OtherRows
    <3>2. \A r \in rows : Current(r) => r.file \in todo
      <4> SUFFICES ASSUME NEW r \in rows, Current(r) PROVE disk[r.file] # Absent
        BY DEF rows, todo
      <4>1. r.ver \in Versions \cup {Unsized}
        BY <2>3 DEF Rows
      <4> QED
        BY <4>1, ScanAssumption DEF Current, Absent, Unsized
    <3> QED
      BY <1>1, <2>1, <2>4, <2>5, <2>6, <3>1, <3>2 DEF Kept
  <2>10. Followed'
    <3>1. \A r \in tx : r.file \notin Entered \cup paths => r \in others
      BY <1>1 DEF IInv, Followed, Working, others, OtherRows, rows
    <3>2. \A r \in tx : r.file \in paths => r \in rows
      BY DEF rows
    <3>3. \A f \in paths : disk[f] # Absent => f \in todo
      BY DEF todo
    <3>4. ~stop => \A r \in tx : r.file \in Entered \ scan.changed => Current(r)
      BY <1>1 DEF IInv, Followed, Working
    <3>5. ~stop /\ ~held => \A f \in Entered \ scan.changed : disk[f] # Absent =>
                               \E r \in tx : r.file = f /\ Current(r)
      BY <1>1 DEF IInv, Followed, Working
    <3> QED
      BY <1>1, <2>1, <2>4, <2>5, <2>6, <3>1, <3>2, <3>3, <3>4, <3>5 DEF Followed
  <2>11. RowsSound' /\ Accurate' /\ Stamps' /\ Lists'
    BY <1>1, <2>1, <2>4, <2>5 DEF IInv, RowsSound, OneEach, Whole, Reading, Accurate, Stamps,
       Working, Lists, LibraryFollows, Complete
  <2> QED
    BY <2>7, <2>8, <2>9, <2>10, <2>11 DEF IInv
<1> QED
  BY <1>2, <1>3

-----------------------------------------------------------------------------
(* The files of a directory *)

LEMMA ScanFileStep == ASSUME IInv, ScanFile PROVE IInv'
<1>1. PICK f \in scan.todo :
        LET known == KnownRows(f)
            row == Row(f, disk[f], {<<f, disk[f]>>})
            next == [scan EXCEPT !.todo = @ \ {f}]
        IN  \/ /\ known # {}
               /\ scan' = [next EXCEPT !.left = @ \ known]
               /\ UNCHANGED tx
            \/ /\ known = {} /\ disk[f] # Absent /\ ~held
               /\ tx' = tx \cup {row}
               /\ scan' = [next EXCEPT !.inserted = TRUE, !.reading = row]
            \/ /\ known = {} /\ (disk[f] = Absent \/ held)
               /\ scan' = next
               /\ UNCHANGED tx
  BY DEF ScanFile
<1>2. /\ pc = "files" /\ ~Reading /\ ~stop
      /\ UNCHANGED <<disk, db, lib, libTx, held, stop, pc, scans, changes, cut>>
  BY DEF ScanFile, Reading
<1>3. f \in Files /\ f \in Entered /\ scan \in ScanStates /\ scan.left \subseteq tx
  BY <1>2 DEF IInv, TypeOK, ScanStates, InPlace
<1> DEFINE known == KnownRows(f)
           row == Row(f, disk[f], {<<f, disk[f]>>})
           rest == scan.todo \ {f}
<1>4. \A r \in tx : r.file = f /\ Current(r) => r \in known
  BY DEF Current, KnownRows
<1>5. \A r \in known : r \in tx /\ r.file = f /\ (f \notin scan.changed => Current(r))
  BY DEF Current, KnownRows
<1>a. known \subseteq tx
  BY DEF KnownRows
<1>6. Entered' = UNION {scan'.path[i] : i \in 1..scan'.dir}
  BY DEF Entered
<1>7. CASE known # {} /\ scan' = [scan EXCEPT !.todo = rest, !.left = scan.left \ known] /\ UNCHANGED tx
  <2> HIDE DEF known, rest
  <2>1. /\ scan' \in ScanStates
        /\ scan'.path = scan.path /\ scan'.dir = scan.dir /\ scan'.todo = scan.todo \ {f}
        /\ scan'.left = scan.left \ known /\ scan'.others = scan.others
        /\ scan'.reading = scan.reading /\ scan'.inserted = scan.inserted
        /\ scan'.changed = scan.changed
    BY <1>3, <1>7 DEF ScanStates, rest
  <2>2. TypeOK'
    BY <1>2, <1>7, <2>1 DEF IInv, TypeOK
  <2>3. Entered' = Entered /\ Reading' = FALSE /\ \A r : Current(r)' = Current(r)
    BY <1>2, <2>1 DEF Entered, Reading, Current
  <2>4. InPlace'
    BY <1>2, <1>7, <2>1, <2>3 DEF IInv, InPlace
  <2>5. Kept'
    BY <1>2, <1>3, <1>4, <1>7, <2>1, <2>3 DEF IInv, Kept, Working
  <2>6. Followed'
    <3>1. \A r \in tx : r.file \in Entered \ scan.changed => Current(r) \/ r \in scan.left \ known
      BY <1>2, <1>5 DEF IInv, Followed, Working
    <3>2. ~held => \A g \in Entered \ scan.changed : disk[g] # Absent =>
                      \/ \E r \in tx : r.file = g /\ Current(r)
                      \/ g \in scan.todo \ {f}
      BY <1>2, <1>5, <1>7 DEF IInv, Followed, Working
    <3>3. \A r \in tx : r.file \notin Entered => r \in scan.others
      BY <1>2 DEF IInv, Followed, Working
    <3> QED
      BY <1>2, <1>7, <2>1, <2>3, <3>1, <3>2, <3>3 DEF Followed
  <2>7. RowsSound' /\ Accurate' /\ Stamps' /\ Lists'
    BY <1>2, <1>7, <2>1, <2>3 DEF IInv, RowsSound, OneEach, Whole, Reading, Accurate, Stamps,
       Working, Lists, LibraryFollows, Complete
  <2> QED
    BY <2>2, <2>4, <2>5, <2>6, <2>7 DEF IInv
<1>8. CASE /\ known = {} /\ disk[f] # Absent /\ tx' = tx \cup {row}
           /\ scan' = [scan EXCEPT !.todo = rest, !.inserted = TRUE, !.reading = row]
  <2>1. /\ row \in Rows /\ row.file = f /\ row.ver = disk[f] /\ row.items = {<<f, disk[f]>>}
        /\ row # NoRow
    <3>1. disk[f] \in Versions
      BY <1>3, <1>8 DEF IInv, TypeOK
    <3>2. row.file # NoRow.file
      BY <1>3, ScanAssumption DEF Row, NoRow
    <3> QED
      BY <1>3, <3>1, <3>2 DEF Row, Rows
  <2> HIDE DEF known, rest, row
  <2>2. /\ scan' \in ScanStates
        /\ scan'.path = scan.path /\ scan'.dir = scan.dir /\ scan'.todo = scan.todo \ {f}
        /\ scan'.left = scan.left /\ scan'.others = scan.others
        /\ scan'.reading = row /\ scan'.inserted = TRUE
        /\ scan'.changed = scan.changed
    BY <1>3, <1>8, <2>1 DEF ScanStates, rest
  <2>3. TypeOK'
    BY <1>2, <1>8, <2>1, <2>2 DEF IInv, TypeOK
  <2>4. Entered' = Entered /\ Reading' /\ \A r : Current(r)' = Current(r)
    BY <1>2, <2>1, <2>2 DEF Entered, Reading, Current
  <2>5. \A r \in tx : ~(r.file = f /\ r.ver = disk[f])
    BY <1>8 DEF known, KnownRows
  <2>6. InPlace'
    BY <1>2, <1>3, <1>8, <2>1, <2>2, <2>4, <2>5 DEF IInv, InPlace
  <2>7. Kept'
    BY <1>2, <1>3, <1>4, <1>8, <2>1, <2>2, <2>4 DEF IInv, Kept, Working
  <2>8. Followed'
    <3>1. f \notin scan.changed => Current(row)
      BY <2>1 DEF Current
    <3> QED
      BY <1>2, <1>3, <1>8, <2>1, <2>2, <2>4, <3>1 DEF IInv, Followed, Working
  <2>9. RowsSound'
    <3>1. OneEach(tx)'
      BY <1>8, <2>1, <2>5 DEF IInv, RowsSound, OneEach
    <3>2. <<f, disk[f]>> \in row.items /\ row.items \subseteq Contents(f, disk[f])
      BY <2>1 DEF Contents
    <3> QED
      BY <1>2, <1>8, <2>1, <2>2, <2>4, <3>1, <3>2 DEF IInv, RowsSound, OneEach, Whole
  <2>10. Accurate' /\ Stamps' /\ Lists'
    BY <1>2, <1>8, <2>2 DEF IInv, Accurate, Stamps, Working, Lists, LibraryFollows, Complete
  <2> QED
    BY <2>3, <2>6, <2>7, <2>8, <2>9, <2>10 DEF IInv
<1>9. CASE /\ known = {} /\ (disk[f] = Absent \/ held) /\ UNCHANGED tx
           /\ scan' = [scan EXCEPT !.todo = rest]
  <2> HIDE DEF known, rest
  <2>1. /\ scan' \in ScanStates
        /\ scan'.path = scan.path /\ scan'.dir = scan.dir /\ scan'.todo = scan.todo \ {f}
        /\ scan'.left = scan.left /\ scan'.others = scan.others
        /\ scan'.reading = scan.reading /\ scan'.inserted = scan.inserted
        /\ scan'.changed = scan.changed
    BY <1>3, <1>9 DEF ScanStates, rest
  <2>2. TypeOK'
    BY <1>2, <1>9, <2>1 DEF IInv, TypeOK
  <2>3. Entered' = Entered /\ Reading' = FALSE /\ \A r : Current(r)' = Current(r)
    BY <1>2, <2>1 DEF Entered, Reading, Current
  <2>4. InPlace'
    BY <1>2, <1>9, <2>1, <2>3 DEF IInv, InPlace
  <2>5. Kept'
    BY <1>2, <1>3, <1>4, <1>9, <2>1, <2>3 DEF IInv, Kept, Working
  <2>6. Followed'
    BY <1>2, <1>9, <2>1, <2>3 DEF IInv, Followed, Working
  <2>7. RowsSound' /\ Accurate' /\ Stamps' /\ Lists'
    BY <1>2, <1>9, <2>1, <2>3 DEF IInv, RowsSound, OneEach, Whole, Reading, Accurate, Stamps,
       Working, Lists, LibraryFollows, Complete
  <2> QED
    BY <2>2, <2>4, <2>5, <2>6, <2>7 DEF IInv
<1>10. [scan EXCEPT !.todo = @ \ {f}] = [scan EXCEPT !.todo = rest]
  OBVIOUS
<1>11. /\ [[scan EXCEPT !.todo = rest] EXCEPT !.left = @ \ known]
            = [scan EXCEPT !.todo = rest, !.left = scan.left \ known]
       /\ [[scan EXCEPT !.todo = rest] EXCEPT !.inserted = TRUE, !.reading = row]
            = [scan EXCEPT !.todo = rest, !.inserted = TRUE, !.reading = row]
  <2> HIDE DEF known, row, rest
  <2> QED
    BY <1>3 DEF ScanStates
<1> QED
  BY <1>1, <1>7, <1>8, <1>9, <1>10, <1>11

(* The reading of an archive ends: its row is whole, or its version is noted. *)
LEMMA ReadInv ==
    ASSUME IInv, pc = "files", Reading, scan' = [scan EXCEPT !.reading = NoRow],
           cut \subseteq cut', cut' \subseteq Files \X Versions,
           \/ <<scan.reading.file, scan.reading.ver>> \in cut'
           \/ scan.reading.items = Contents(scan.reading.file, scan.reading.ver),
           UNCHANGED <<disk, db, tx, lib, libTx, held, stop, pc, scans, changes>>
    PROVE  IInv'
<1>1. /\ scan' \in ScanStates
      /\ scan'.path = scan.path /\ scan'.dir = scan.dir /\ scan'.todo = scan.todo
      /\ scan'.left = scan.left /\ scan'.others = scan.others
      /\ scan'.reading = NoRow /\ scan'.inserted = scan.inserted
      /\ scan'.changed = scan.changed
  BY DEF IInv, TypeOK, ScanStates
<1>2. Entered' = Entered /\ Reading' = FALSE /\ \A s : Current(s)' = Current(s)
  BY <1>1 DEF Entered, Reading, Current
<1>3. TypeOK' /\ InPlace'
  BY <1>1, <1>2 DEF IInv, TypeOK, InPlace
<1>4. Kept' /\ Followed'
  BY <1>1, <1>2 DEF IInv, Kept, Followed, Working
<1>5. RowsSound'
  BY <1>1, <1>2 DEF IInv, RowsSound, OneEach, Whole
<1>6. Accurate' /\ Stamps' /\ Lists'
  BY <1>1 DEF IInv, Accurate, Stamps, Working, Lists, LibraryFollows, Complete
<1> QED
  BY <1>3, <1>4, <1>5, <1>6 DEF IInv

(* Reading another member makes the row grow, whose version stays. *)
LEMMA ScanMemberStep == ASSUME IInv, ScanMember PROVE IInv'
<1> DEFINE r == scan.reading
           all == Contents(r.file, r.ver)
<1>1. /\ pc = "files" /\ Reading /\ ~stop /\ Unread(r) # {}
      /\ UNCHANGED <<disk, db, lib, libTx, held, stop, pc, scans, changes>>
  BY DEF ScanMember, Reading
<1>2. /\ scan \in ScanStates /\ r \in Rows /\ r.file \in Files /\ r \in tx /\ r.file \in Entered
      /\ scan.inserted /\ <<r.file, r.ver>> \in r.items /\ r.items \subseteq all
  BY <1>1 DEF IInv, TypeOK, ScanStates, Rows, InPlace, RowsSound, Reading
<1>3. r.ver \in Versions
  BY <1>2 DEF Rows
<1>4. PICK m \in Unread(r) :
        LET grown == [r EXCEPT !.items = @ \cup {<<m, r.ver>>}]
        IN  \/ /\ tx' = (tx \ {r}) \cup {grown}
               /\ scan' = [scan EXCEPT !.reading = grown]
               /\ UNCHANGED cut
            \/ /\ scan' = [scan EXCEPT !.reading = NoRow]
               /\ cut' = cut \cup {<<r.file, r.ver>>}
               /\ UNCHANGED tx
  BY <1>1 DEF ScanMember
<1>5. m \in Members[r.file]
  BY DEF Unread
<1> DEFINE items == r.items \cup {<<m, r.ver>>}
           grown == [r EXCEPT !.items = items]
<1>6. CASE tx' = (tx \ {r}) \cup {grown} /\ scan' = [scan EXCEPT !.reading = grown] /\ UNCHANGED cut
  <2>1. items \in SUBSET ((Files \cup UNION {Members[f] : f \in Files}) \X Versions)
    BY <1>2, <1>3, <1>5 DEF Rows
  <2>2. items \subseteq all /\ <<r.file, r.ver>> \in items
    BY <1>2, <1>5 DEF Contents
  <2> HIDE DEF items
  <2>3. grown \in Rows /\ grown.file = r.file /\ grown.ver = r.ver /\ grown.items = items
    BY <1>2, <2>1 DEF Rows
  <2>4. grown # NoRow
    BY <1>2, <2>3, ScanAssumption DEF NoRow
  <2> HIDE DEF grown, all
  <2>5. /\ scan' \in ScanStates
        /\ scan'.path = scan.path /\ scan'.dir = scan.dir /\ scan'.todo = scan.todo
        /\ scan'.left = scan.left /\ scan'.others = scan.others
        /\ scan'.reading = grown /\ scan'.inserted = scan.inserted
        /\ scan'.changed = scan.changed
    BY <1>2, <1>6, <2>3 DEF ScanStates
  <2> HIDE DEF r
  <2>6. Entered' = Entered /\ Reading' /\ \A s : Current(s)' = Current(s)
    BY <1>1, <2>4, <2>5 DEF Entered, Reading, Current
  <2>7. Current(grown) = Current(r)
    BY <2>3 DEF Current
  <2>8. TypeOK'
    BY <1>1, <1>6, <2>3, <2>5 DEF IInv, TypeOK
  <2>9. InPlace'
    BY <1>1, <1>2, <1>6, <2>3, <2>5, <2>6 DEF IInv, InPlace, r
  <2>10. Kept'
    BY <1>1, <1>2, <1>6, <2>3, <2>5, <2>6 DEF IInv, Kept, Working, r
  <2>11. Followed'
    <3>1. r \notin scan.left
      BY <1>1 DEF IInv, InPlace, r
    <3>2. \A s \in tx' : s.file \notin Entered => s \in scan.others
      BY <1>1, <1>2, <1>6, <2>3 DEF IInv, Followed, Working
    <3>3. r.file \notin scan.changed => Current(grown)
      BY <1>1, <1>2, <2>7, <3>1 DEF IInv, Followed, Working
    <3>4. \A s \in tx' : s.file \in Entered \ scan.changed => Current(s) \/ s \in scan.left
      BY <1>1, <1>6, <2>3, <3>3 DEF IInv, Followed, Working
    <3>5. \A f : (\E s \in tx : s.file = f /\ Current(s)) => \E s \in tx' : s.file = f /\ Current(s)
      BY <1>6, <2>3, <2>7
    <3>6. ~held => \A f \in Entered \ scan.changed : disk[f] # Absent =>
                      \/ \E s \in tx' : s.file = f /\ Current(s)
                      \/ f \in scan.todo
      BY <1>1, <3>5 DEF IInv, Followed, Working
    <3> QED
      BY <1>1, <2>5, <2>6, <3>2, <3>4, <3>6 DEF Followed
  <2>12. RowsSound'
    <3>1. OneEach(tx)'
      BY <1>2, <1>6, <2>3 DEF IInv, RowsSound, OneEach
    <3>2. \A s \in tx' : Whole(s) \/ s = grown
      BY <1>6 DEF IInv, RowsSound, r
    <3>3. grown.items \subseteq Contents(grown.file, grown.ver) /\ <<grown.file, grown.ver>> \in grown.items
      BY <2>2, <2>3 DEF all
    <3> QED
      BY <1>1, <1>6, <2>5, <2>6, <3>1, <3>2, <3>3 DEF IInv, RowsSound, OneEach, Whole
  <2>13. Accurate' /\ Stamps' /\ Lists'
    BY <1>1, <1>2, <1>6, <2>5 DEF IInv, Accurate, Stamps, Working, Lists, LibraryFollows, Complete
  <2> QED
    BY <2>8, <2>9, <2>10, <2>11, <2>12, <2>13 DEF IInv
<1>7. CASE /\ scan' = [scan EXCEPT !.reading = NoRow]
           /\ cut' = cut \cup {<<r.file, r.ver>>} /\ UNCHANGED tx
  <2>1. cut' \subseteq Files \X Versions
    BY <1>2, <1>3, <1>7 DEF IInv, TypeOK
  <2>2. /\ pc = "files" /\ Reading /\ scan' = [scan EXCEPT !.reading = NoRow]
        /\ cut \subseteq cut' /\ <<scan.reading.file, scan.reading.ver>> \in cut'
        /\ UNCHANGED <<disk, db, tx, lib, libTx, held, stop, pc, scans, changes>>
    BY <1>1, <1>7
  <2> HIDE DEF r
  <2> QED
    BY <2>1, <2>2, ReadInv
<1> QED
  BY <1>4, <1>6, <1>7

LEMMA EndFileStep == ASSUME IInv, EndFile PROVE IInv'
<1> DEFINE r == scan.reading
<1>1. /\ pc = "files" /\ Reading /\ scan' = [scan EXCEPT !.reading = NoRow]
      /\ cut' = (IF Unread(r) = {} THEN cut ELSE cut \cup {<<r.file, r.ver>>})
      /\ UNCHANGED <<disk, db, tx, lib, libTx, held, stop, pc, scans, changes>>
  BY DEF EndFile, Reading
<1>2. r \in Rows /\ <<r.file, r.ver>> \in r.items /\ r.items \subseteq Contents(r.file, r.ver)
  BY <1>1 DEF IInv, TypeOK, ScanStates, InPlace, RowsSound
<1>3. r.file \in Files /\ r.ver \in Versions
  BY <1>2 DEF Rows
<1>4. cut' \subseteq Files \X Versions /\ cut \subseteq cut'
  BY <1>1, <1>3 DEF IInv, TypeOK
<1>5. <<r.file, r.ver>> \in cut' \/ r.items = Contents(r.file, r.ver)
  BY <1>1, <1>2 DEF Unread, Contents
<1>6. UNCHANGED <<disk, db, tx, lib, libTx, held, stop, pc, scans, changes>>
  BY <1>1
<1> QED
  BY <1>1, <1>4, <1>5, <1>6, ReadInv

(* What the thread has not committed is gone with it. *)
LEMMA RaiseStep == ASSUME IInv, Raise PROVE IInv'
<1>1. /\ pc' = "end" /\ tx' = db.rows /\ libTx' = lib
      /\ scan' = [scan EXCEPT !.failed = TRUE, !.reading = NoRow, !.todo = {}, !.left = {}, !.others = {}]
      /\ UNCHANGED <<disk, db, lib, held, stop, scans, changes, cut>>
  BY DEF Raise
<1>2. /\ scan' \in ScanStates /\ scan'.path = scan.path /\ scan'.dir = scan.dir
      /\ scan'.reading = NoRow /\ scan'.failed = TRUE
  BY <1>1 DEF IInv, TypeOK, ScanStates
<1>3. TypeOK'
  BY <1>1, <1>2 DEF IInv, TypeOK, Steps
<1>4. InPlace' /\ Kept' /\ Followed'
  BY <1>1, <1>2 DEF IInv, InPlace, Kept, Followed, Working, Reading
<1>5. RowsSound'
  BY <1>1, <1>2 DEF IInv, RowsSound, OneEach, Whole, Reading
<1>6. Accurate' /\ Lists'
  BY <1>1, <1>2 DEF Accurate, Lists, LibraryFollows, Complete
<1>7. Stamps'
  BY <1>1 DEF IInv, Stamps, Working
<1> QED
  BY <1>3, <1>4, <1>5, <1>6, <1>7 DEF IInv

-----------------------------------------------------------------------------
(* What is left over is purged *)

LEMMA FinishDirStep == ASSUME IInv, FinishDir PROVE IInv'
<1>1. /\ pc = "files" /\ ~Reading /\ (scan.todo = {} \/ stop)
      /\ db' = [Stamped(db) EXCEPT !.rows = tx \ scan.left] /\ tx' = db'.rows
      /\ scan' = [scan EXCEPT !.inserted = FALSE, !.left = {}, !.todo = {}]
      /\ pc' = "dir"
      /\ UNCHANGED <<disk, lib, libTx, held, stop, scans, changes, cut>>
  BY DEF FinishDir, DirIsDone, Reading
<1>2. /\ scan' \in ScanStates /\ scan'.path = scan.path /\ scan'.dir = scan.dir
      /\ scan'.others = scan.others /\ scan'.reading = scan.reading /\ scan'.changed = scan.changed
      /\ scan'.left = {} /\ scan'.todo = {}
  BY <1>1 DEF IInv, TypeOK, ScanStates
<1>3. /\ db' \in [rows : SUBSET Rows, ins : 0..ScanLimit, del : 0..ScanLimit]
      /\ db'.rows = tx \ scan.left
      /\ db'.ins = IF scan.inserted THEN scans ELSE db.ins
  BY <1>1 DEF IInv, TypeOK, Stamped
<1>4. tx' = tx \ scan.left
  BY <1>1, <1>3
<1>5. TypeOK'
  BY <1>1, <1>2, <1>3, <1>4 DEF IInv, TypeOK, Steps
<1>6. Entered' = Entered /\ Reading' = FALSE /\ \A r : Current(r)' = Current(r)
  BY <1>1, <1>2 DEF Entered, Reading, Current
<1>7. InPlace'
  BY <1>1, <1>2, <1>6 DEF IInv, InPlace
<1>8. \A r \in scan.left : r.file \in Entered
  BY <1>1 DEF IInv, InPlace
<1>9. Kept'
  BY <1>1, <1>2, <1>3, <1>4, <1>6, <1>8 DEF IInv, Kept, Working
<1>10. Followed'
  <2>1. \A r \in tx' : r.file \notin Entered => r \in scan.others
    BY <1>1, <1>4 DEF IInv, Followed, Working
  <2>2. ~stop => \A r \in tx' : r.file \in Entered \ scan.changed => Current(r)
    BY <1>1, <1>4 DEF IInv, Followed, Working
  <2>3. ~stop => \A r \in tx : Current(r) => r \in tx'
    BY <1>1, <1>4 DEF IInv, Kept, Working
  <2>4. ~stop /\ ~held => \A f \in Entered \ scan.changed : disk[f] # Absent =>
                            \E r \in tx' : r.file = f /\ Current(r)
    BY <1>1, <2>3 DEF IInv, Followed, Working
  <2> QED
    BY <1>1, <1>2, <1>6, <2>1, <2>2, <2>4 DEF Followed
<1>11. RowsSound'
  BY <1>1, <1>3, <1>4, <1>6 DEF IInv, RowsSound, OneEach, Whole
<1>12. Accurate' /\ Lists'
  BY <1>1 DEF Accurate, Lists, LibraryFollows, Complete
<1>13. Stamps'
  <2>1. ~scan.inserted => Items(db'.rows) \subseteq Items(db.rows)
    BY <1>1, <1>3 DEF IInv, Stamps, Items
  <2>2. lib = libTx /\ lib.ins < scans /\ db.ins <= scans /\ lib.ins <= db.ins
    BY <1>1 DEF IInv, Stamps, Working
  <2>3. lib.ins \in Nat /\ db.ins \in Nat /\ scans \in Nat
    BY DEF IInv, TypeOK, Libraries
  <2>4. ~scan.inserted => \A v \in Variants : Needs[v] \subseteq Items(db'.rows) => Needs[v] \subseteq Items(db.rows)
    BY <2>1
  <2>5. lib.known \subseteq Variants
    BY DEF IInv, TypeOK, Libraries
  <2>6. lib.ins = db'.ins => \A v \in lib.known \ lib.have : ~(Needs[v] \subseteq Items(db'.rows))
    BY <1>3, <2>2, <2>3, <2>4, <2>5 DEF IInv, Stamps
  <2>7. lib'.ins = lib.ins /\ lib'.known = lib.known /\ lib'.have = lib.have
    BY <1>1
  <2>8. db'.ins <= scans' /\ lib'.ins <= db'.ins /\ lib'.ins < scans'
    BY <1>1, <1>3, <2>2, <2>3
  <2> QED
    BY <1>1, <2>2, <2>6, <2>7, <2>8 DEF Stamps, Working, Items
<1> QED
  BY <1>5, <1>7, <1>9, <1>10, <1>11, <1>12, <1>13 DEF IInv

(* Here the file database becomes accurate. *)
LEMMA PurgeOthersStep == ASSUME IInv, PurgeOthers PROVE IInv'
<1>1. /\ pc = "others" /\ pc' = "scanned" /\ tx = db.rows /\ tx' = db'.rows
      /\ db' = (IF stop THEN db ELSE [db EXCEPT !.rows = tx \ scan.others])
      /\ UNCHANGED <<disk, lib, libTx, held, stop, scan, scans, changes, cut>>
      /\ ~Reading
  BY DEF PurgeOthers, IInv, InPlace
<1>2. /\ db' \in [rows : SUBSET Rows, ins : 0..ScanLimit, del : 0..ScanLimit]
      /\ db'.rows = (IF stop THEN db.rows ELSE db.rows \ scan.others)
      /\ db'.ins = db.ins
  BY <1>1 DEF IInv, TypeOK
<1>3. TypeOK'
  BY <1>1, <1>2 DEF IInv, TypeOK, Steps
<1>4. InPlace' /\ Kept' /\ Followed'
  BY <1>1 DEF IInv, InPlace, Kept, Followed, Working, Reading, Entered
<1>5. RowsSound'
  BY <1>1, <1>2 DEF IInv, RowsSound, OneEach, Whole, Reading
<1>6. Accurate'
  <2>1. SUFFICES ASSUME ~stop, ~held, NEW f \in Files \ scan.changed
                 PROVE  AccurateFor(db'.rows, f)
    BY <1>1 DEF Accurate, AccurateFor, Whole, Scanned
  <2>2. db'.rows = db.rows \ scan.others
    BY <1>2, <2>1
  <2>3. Entered = Scanned
    <3>1. DOMAIN scan.path = 1..scan.dir
      BY <1>1, PathShape DEF IInv, InPlace
    <3> QED
      BY <3>1 DEF Entered, Scanned
  <2>4. CASE f \notin Scanned
    BY <1>1, <2>2, <2>3, <2>4 DEF IInv, Followed, Working, AccurateFor
  <2>5. CASE f \in Scanned
    <3>1. \A r \in db.rows : r.file = f => Current(r)
      BY <1>1, <2>1, <2>3, <2>5 DEF IInv, Followed, Working
    <3>2. CASE disk[f] = Absent
      <4>1. \A r \in db.rows : r.ver # Absent
        BY ScanAssumption DEF IInv, TypeOK, Rows, Absent, Unsized
      <4> QED
        BY <2>2, <3>1, <3>2, <4>1 DEF Current, AccurateFor
    <3>3. CASE disk[f] # Absent
      <4>1. PICK r \in db.rows : r.file = f /\ Current(r)
        BY <1>1, <2>1, <2>3, <2>5, <3>3 DEF IInv, Followed, Working
      <4>2. r \in db'.rows
        BY <1>1, <2>2, <2>3, <2>5, <4>1 DEF IInv, Kept, Working
      <4>3. \A s \in db.rows : s.file = f => s = r
        BY <3>1, <4>1 DEF Current, IInv, RowsSound, OneEach
      <4>4. {s \in db'.rows : s.file = f} = {r}
        BY <2>2, <4>1, <4>2, <4>3
      <4>5. r.ver = disk[f] /\ Whole(r)
        BY <4>1 DEF Current, IInv, RowsSound
      <4> QED
        BY <2>5, <3>3, <4>4, <4>5 DEF AccurateFor
    <3> QED
      BY <3>2, <3>3
  <2> QED
    BY <2>4, <2>5
<1>7. Stamps'
  <2>1. Items(db'.rows) \subseteq Items(db.rows)
    BY <1>2 DEF Items
  <2>2. \A v \in Variants : Needs[v] \subseteq Items(db'.rows) => Needs[v] \subseteq Items(db.rows)
    BY <2>1
  <2>3. lib.known \subseteq Variants /\ libTx.known \subseteq Variants
    BY DEF IInv, TypeOK, Libraries
  <2> QED
    BY <1>1, <1>2, <2>2, <2>3 DEF IInv, Stamps, Working, Items
<1>8. Lists'
  BY <1>1 DEF Lists, LibraryFollows, Complete
<1> QED
  BY <1>3, <1>4, <1>5, <1>6, <1>7, <1>8 DEF IInv

-----------------------------------------------------------------------------
(* The library *)

(* Steps after the file database is done that change the library, if anything *)
LEMMA AfterInv ==
    ASSUME IInv, pc \in {"scanned", "configs", "games"}, pc' \in {"configs", "games", "end"},
           libTx' \in Libraries, Stamps', Lists',
           UNCHANGED <<disk, db, tx, lib, held, stop, scan, scans, changes, cut>>
    PROVE  IInv'
<1>1. TypeOK'
  BY DEF IInv, TypeOK, Steps
<1>2. InPlace' /\ Kept' /\ Followed'
  BY DEF IInv, InPlace, Kept, Followed, Working, Reading, Entered
<1>3. RowsSound'
  BY DEF IInv, RowsSound, OneEach, Whole, Reading
<1>4. Accurate'
  BY DEF IInv, Accurate, AccurateFor, Whole, Scanned
<1> QED
  BY <1>1, <1>2, <1>3, <1>4 DEF IInv

LEMMA AfterFilesStep == ASSUME IInv, AfterFiles PROVE IInv'
<1>1. /\ pc = "scanned" /\ pc' = (IF stop THEN "end" ELSE "configs")
      /\ UNCHANGED <<disk, db, tx, lib, libTx, held, stop, scan, scans, changes, cut>>
  BY DEF AfterFiles
<1>2. Stamps' /\ Lists'
  BY <1>1 DEF IInv, Stamps, Working, Lists, LibraryFollows, Complete
<1>3. libTx' \in Libraries
  BY <1>1 DEF IInv, TypeOK
<1> QED
  BY <1>1, <1>2, <1>3, AfterInv

LEMMA ScanConfigsStep == ASSUME IInv, ScanConfigs PROVE IInv'
<1> DEFINE found == {r.file : r \in tx} \cap Configs
<1>1. PICK seen \in SUBSET found :
        (stop \/ seen = found) /\ libTx' = [libTx EXCEPT !.configs = seen]
  BY DEF ScanConfigs
<1>2. /\ pc = "configs" /\ pc' = "games" /\ tx = db.rows
      /\ UNCHANGED <<disk, db, tx, lib, held, stop, scan, scans, changes, cut>>
  BY DEF ScanConfigs, IInv, InPlace
<1>3. found = {r.file : r \in db.rows} \cap Configs
  BY <1>2
<1>4. found \subseteq Configs
  OBVIOUS
<1> HIDE DEF found
<1>5. /\ libTx' \in Libraries /\ libTx'.configs = seen /\ libTx'.known = libTx.known
      /\ libTx'.have = libTx.have /\ libTx'.ins = libTx.ins
  BY <1>1, <1>4 DEF IInv, TypeOK, Libraries
<1>6. Stamps' /\ Lists'
  BY <1>1, <1>2, <1>3, <1>5 DEF IInv, Stamps, Working, Lists, LibraryFollows, Complete
<1> QED
  BY <1>2, <1>5, <1>6, AfterInv

(* A variant that is skipped was looked at when nothing had been added that *)
(* is not there now, or is listed already.                                  *)
LEMMA ScanGamesStep == ASSUME IInv, ScanGames PROVE IInv'
<1> DEFINE found == {v \in Variants : Available(v)}
<1>1. PICK checked \in SUBSET Variants :
        LET seen == [libTx EXCEPT !.known = @ \cup checked,
                                  !.have = (@ \ checked) \cup {v \in checked : Available(v)}]
        IN  /\ stop \/ {v \in Variants : ~Skipped(v)} \subseteq checked
            /\ libTx' = IF stop THEN seen
                        ELSE [seen EXCEPT !.ins = EventStamps.ins, !.del = EventStamps.del]
  BY DEF ScanGames
<1>2. /\ pc = "games" /\ pc' = "end" /\ tx = db.rows
      /\ UNCHANGED <<disk, db, tx, lib, held, stop, scan, scans, changes, cut>>
  BY DEF ScanGames, IInv, InPlace
<1>3. \A v \in Variants : v \in found <=> Needs[v] \subseteq Items(db.rows)
  BY <1>2 DEF Available
<1> DEFINE known == libTx.known \cup checked
           have == (libTx.have \ checked) \cup {v \in checked : Available(v)}
           seen == [libTx EXCEPT !.known = known, !.have = have]
<1>4. /\ known \subseteq Variants /\ have \subseteq Variants
      /\ \A v \in Variants : v \in known <=> v \in libTx.known \/ v \in checked
      /\ \A v \in Variants : v \in have <=> IF v \in checked THEN v \in found ELSE v \in libTx.have
  BY DEF IInv, TypeOK, Libraries
<1>5. EventStamps.ins = db.ins /\ EventStamps.del = db.ins
  BY DEF EventStamps
<1>6. libTx' = IF stop THEN seen ELSE [seen EXCEPT !.ins = db.ins, !.del = db.ins]
  BY <1>1, <1>5
<1>7. stop \/ \A v \in Variants \ checked :
                /\ v \in libTx.known
                /\ IF v \in libTx.have THEN db.ins = libTx.del ELSE db.ins = libTx.ins
  BY <1>1, <1>5 DEF Skipped
<1> HIDE DEF found, known, have
<1>8. /\ seen \in Libraries /\ seen.known = known /\ seen.have = have
      /\ seen.ins = libTx.ins /\ seen.configs = libTx.configs
  BY <1>4 DEF IInv, TypeOK, Libraries
<1> HIDE DEF seen
<1>9. /\ libTx' \in Libraries /\ libTx'.known = known /\ libTx'.have = have
      /\ libTx'.ins = (IF stop THEN libTx.ins ELSE db.ins) /\ libTx'.configs = libTx.configs
  BY <1>6, <1>8 DEF IInv, TypeOK, Libraries
<1>10. libTx.ins = db.ins => \A v \in libTx.known \ libTx.have : ~(Needs[v] \subseteq Items(db.rows))
  BY DEF IInv, Stamps
<1>11. libTx'.ins = db.ins => \A v \in known \ have : ~(Needs[v] \subseteq Items(db.rows))
  <2> SUFFICES ASSUME libTx'.ins = db.ins, NEW v \in known, v \notin have
               PROVE  ~(Needs[v] \subseteq Items(db.rows))
    OBVIOUS
  <2>1. CASE v \in checked
    BY <1>3, <1>4, <2>1
  <2>2. CASE v \notin checked
    <3>1. v \in libTx.known \ libTx.have /\ libTx.ins = db.ins
      BY <1>4, <1>7, <1>9, <2>2
    <3> QED
      BY <1>10, <3>1
  <2> QED
    BY <2>1, <2>2
<1>12. Stamps'
  <2>1. db.ins \in Nat
    BY DEF IInv, TypeOK
  <2>2. libTx'.ins <= db.ins
    BY <1>9, <2>1 DEF IInv, Stamps
  <2> QED
    BY <1>2, <1>9, <1>11, <2>2 DEF IInv, Stamps, Working
<1>13. Lists'
  <2> SUFFICES ASSUME ~stop
               PROVE  /\ libTx'.configs = {r.file : r \in db.rows} \cap Configs
                      /\ \A v \in Variants : Needs[v] \subseteq Items(db.rows) => v \in libTx'.have
                      /\ db.ins # lib.del => \A v \in libTx'.have : Needs[v] \subseteq Items(db.rows)
    BY <1>2 DEF Lists, LibraryFollows, Complete, Items
  <2>1. libTx'.configs = {r.file : r \in db.rows} \cap Configs
    BY <1>2, <1>9 DEF IInv, Lists
  <2>2. \A v \in Variants : v \in known
    BY <1>4, <1>7
  <2>3. db.ins # lib.del => \A v \in libTx'.have : Needs[v] \subseteq Items(db.rows)
    <3> SUFFICES ASSUME db.ins # lib.del, NEW v \in have PROVE Needs[v] \subseteq Items(db.rows)
      BY <1>9
    <3>1. db.ins # libTx.del
      BY <1>2 DEF IInv, Stamps
    <3>2. v \in checked
      BY <1>4, <1>7, <3>1
    <3> QED
      BY <1>3, <1>4, <3>2
  <2> QED
    BY <1>9, <1>11, <2>1, <2>2, <2>3
<1> QED
  BY <1>2, <1>9, <1>12, <1>13, AfterInv

LEMMA EndScanStep == ASSUME IInv, EndScan PROVE IInv'
<1>1. /\ pc = "end" /\ lib' = libTx /\ pc' = "idle" /\ scan' = Idle
      /\ UNCHANGED <<disk, db, tx, libTx, held, stop, scans, changes, cut>>
  BY DEF EndScan
<1>2. scan' \in ScanStates /\ scan'.path = <<>> /\ scan'.dir = 0 /\ ~Reading'
  BY <1>1 DEF Idle, ScanStates, Reading
<1>3. TypeOK'
  BY <1>1, <1>2 DEF IInv, TypeOK, Steps
<1>4. InPlace' /\ Kept' /\ Followed' /\ Accurate'
  BY <1>1, <1>2 DEF IInv, InPlace, Kept, Followed, Accurate, Working
<1>5. RowsSound'
  <2>1. ~Reading
    BY <1>1 DEF IInv, InPlace
  <2> QED
    BY <1>1, <1>2, <2>1 DEF IInv, RowsSound, OneEach, Whole
<1>6. Stamps' /\ Lists'
  BY <1>1 DEF IInv, Stamps, Working, Lists, LibraryFollows, Complete
<1> QED
  BY <1>3, <1>4, <1>5, <1>6 DEF IInv

-----------------------------------------------------------------------------
(* The invariant *)

LEMMA NextIInv == IInv /\ [Next]_vars => IInv'
<1> SUFFICES ASSUME IInv, [Next]_vars PROVE IInv'
  OBVIOUS
<1>1. ASSUME NEW f \in Files, ChangeFile(f) PROVE IInv'
  BY <1>1, ChangeFileStep
<1>2. ASSUME NEW path \in ScanPaths, NEW files \in BOOLEAN, StartScan(path, files) PROVE IInv'
  BY <1>2, StartScanStep
<1>3. CASE Stop
  BY <1>3, StopStep
<1>4. CASE Restart
  BY <1>4, RestartStep
<1>5. CASE EnterDir \/ ScanFile \/ ScanMember \/ EndFile
  BY <1>5, EnterDirStep, ScanFileStep, ScanMemberStep, EndFileStep
<1>6. CASE FinishDir \/ PurgeOthers
  BY <1>6, FinishDirStep, PurgeOthersStep
<1>7. CASE AfterFiles \/ ScanConfigs \/ ScanGames \/ EndScan
  BY <1>7, AfterFilesStep, ScanConfigsStep, ScanGamesStep, EndScanStep
<1>8. CASE LockRaises \/ ScanRaises
  BY <1>8, RaiseStep DEF LockRaises, ScanRaises
<1>9. CASE UNCHANGED vars
  <2>1. UNCHANGED <<disk, db, tx, lib, libTx, held, stop, pc, scan, scans, changes, cut>>
    BY <1>9 DEF vars
  <2>2. TypeOK' /\ InPlace'
    BY <2>1 DEF IInv, TypeOK, InPlace, Reading, Entered
  <2>3. Kept' /\ Followed'
    BY <2>1 DEF IInv, Kept, Followed, Working, Reading, Entered, Current
  <2>4. RowsSound' /\ Stamps' /\ Lists'
    BY <2>1 DEF IInv, RowsSound, OneEach, Whole, Reading, Stamps, Working, Lists,
                LibraryFollows, Complete
  <2>5. Accurate'
    BY <2>1 DEF IInv, Accurate, AccurateFor, Whole, Scanned
  <2> QED
    BY <2>2, <2>3, <2>4, <2>5 DEF IInv
<1> QED
  BY <1>1, <1>2, <1>3, <1>4, <1>5, <1>6, <1>7, <1>8, <1>9 DEF Next, ScannerThread

LEMMA IInvAlways == Spec => []IInv
<1>1. Init => IInv
  BY InitIInv
<1>2. IInv /\ [Next]_vars => IInv'
  BY NextIInv
<1> QED
  BY <1>1, <1>2, PTL DEF Spec

-----------------------------------------------------------------------------
(***************************************************************************)
(* Both databases, as committed and as the scanner thread sees them, and   *)
(* the thread's own state stay well formed (scanner.py, filescanner.py,    *)
(* filedatabase.py, gamescanner.py).                                       *)
(***************************************************************************)
THEOREM ScanTypeCorrect == Spec => []TypeOK
<1>1. IInv => TypeOK
  BY DEF IInv
<1> QED
  BY <1>1, IInvAlways, PTL

(***************************************************************************)
(* A complete scan leaves the file database accurate for what did not      *)
(* change meanwhile, whatever the scan directories are and however they    *)
(* overlap (FileScanner.scan, scan_dir, scan_file).                        *)
(***************************************************************************)
THEOREM ScansAreAccurate == Spec => []ScanIsAccurate
<1>1. IInv => ScanIsAccurate
  <2> SUFFICES ASSUME IInv, Complete, scan.files, ~held, NEW f \in Files \ scan.changed
               PROVE  LET rows == {r \in db.rows : r.file = f}
                      IN  IF f \notin Scanned \/ disk[f] = Absent THEN rows = {}
                          ELSE /\ Cardinality(rows) = 1
                               /\ \A r \in rows : /\ r.ver = disk[f]
                                                  /\ \/ <<f, r.ver>> \in cut
                                                     \/ r.items = Contents(f, r.ver)
    BY DEF ScanIsAccurate
  <2> DEFINE rows == {r \in db.rows : r.file = f}
  <2>1. AccurateFor(db.rows, f)
    BY DEF IInv, Accurate, Complete
  <2>2. CASE f \notin Scanned \/ disk[f] = Absent
    BY <2>1, <2>2 DEF AccurateFor
  <2>3. CASE ~(f \notin Scanned \/ disk[f] = Absent)
    <3>1. PICK r \in rows : rows = {r} /\ r.ver = disk[f] /\ Whole(r)
      BY <2>1, <2>3 DEF AccurateFor
    <3>2. Cardinality({r}) = 1
      BY FS_Singleton
    <3>3. r.ver # Unsized
      BY <2>3, <3>1, ScanAssumption DEF IInv, TypeOK, Unsized
    <3>4. r.file = f
      OBVIOUS
    <3> QED
      BY <2>3, <3>1, <3>2, <3>3, <3>4 DEF Whole
  <2> QED
    BY <2>2, <2>3
<1> QED
  BY <1>1, IInvAlways, PTL

(***************************************************************************)
(* After a complete scan no variant is missed whose files are there: a     *)
(* stamp that is the same means that nothing was added since; with another *)
(* stamp none is listed whose files have gone (ScanHelper,                 *)
(* update_last_event_stamps).                                              *)
(***************************************************************************)
THEOREM LibraryIsFollowing == Spec => []LibraryFollows
<1>1. IInv => LibraryFollows
  BY DEF IInv, Lists
<1> QED
  BY <1>1, IInvAlways, PTL

(***************************************************************************)
(* A scan that is not stopped never takes back what it need not, between   *)
(* any two of its commits (scan_dir, FileScanner.scan).                    *)
(***************************************************************************)
THEOREM IndexStaysStable == Spec => IndexIsStable
<1>1. IInv /\ [Next]_vars =>
        [pc # "idle" /\ pc' # "idle" /\ ~stop =>
            \A r \in db.rows :
                r.file \in Scanned \ scan.changed /\ r.ver = disk[r.file] => r \in db'.rows]_vars
  <2> SUFFICES ASSUME IInv, Next, pc # "idle", pc' # "idle", ~stop, NEW r \in db.rows,
                      r.file \in Scanned \ scan.changed, r.ver = disk[r.file]
               PROVE  r \in db'.rows
    OBVIOUS
  <2>1. Current(r)
    BY DEF Current
  <2>2. CASE UNCHANGED db
    BY <2>2
  <2>3. CASE FinishDir
    <3>1. db' = [Stamped(db) EXCEPT !.rows = tx \ scan.left] /\ pc = "files" /\ scan.todo = {}
      BY <2>3 DEF FinishDir, DirIsDone
    <3>2. db'.rows = tx \ scan.left
      BY <3>1 DEF IInv, TypeOK, Stamped
    <3> QED
      BY <2>1, <3>1, <3>2 DEF IInv, Kept, Working
  <2>4. CASE PurgeOthers
    <3>1. db' = [db EXCEPT !.rows = tx \ scan.others] /\ pc = "others"
      BY <2>4 DEF PurgeOthers
    <3>2. db'.rows = tx \ scan.others
      BY <3>1 DEF IInv, TypeOK
    <3>3. DOMAIN scan.path = 1..scan.dir
      BY <3>1, PathShape DEF IInv, InPlace
    <3>4. Entered = Scanned
      BY <3>3 DEF Entered, Scanned
    <3> QED
      BY <2>1, <3>1, <3>2, <3>4 DEF IInv, Kept, Working
  <2>5. ~Restart
    BY DEF Restart
  <2> QED
    BY <2>2, <2>3, <2>4, <2>5 DEF Next, ChangeFile, StartScan, Stop, ScannerThread, EnterDir,
       ScanFile, ScanMember, EndFile, AfterFiles, ScanConfigs, ScanGames, EndScan, LockRaises,
       ScanRaises, Raise
<1> QED
  BY <1>1, IInvAlways, PTL DEF Spec, IndexIsStable
=============================================================================
