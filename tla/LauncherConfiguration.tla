----------------------- MODULE LauncherConfiguration -----------------------
(***************************************************************************)
(* The launcher's configuration and those that listen to it: Config.set,   *)
(* LauncherConfig, and the widgets that change the configuration while it  *)
(* is being announced.                                                     *)
(*                                                                         *)
(* All of it runs on the UI thread, a call inside a call: setting a value  *)
(* announces it to every listener before the caller goes on, a listener    *)
(* that updates a choice on the screen triggers the same handler as a      *)
(* click, and that sets values again.  todo is this stack of calls, what   *)
(* is left to do in each, innermost first.  The player and the other       *)
(* threads have their turn when it is empty.                               *)
(*                                                                         *)
(* Files are named by their paths, a checksum by the file it is of.  Of    *)
(* the configuration it has the keys with a checksum beside them and       *)
(* amiga_model, which decides the default ROM.  Of the hard drives, which  *)
(* are set like floppies, and the extended ROM, which is set like the      *)
(* Kickstart, there is none.  What is on disk does not change.             *)
(***************************************************************************)
EXTENDS Naturals, Sequences, FiniteSets

CONSTANTS
    SubModels,     \* [main models -> their sub-models in the order of Amiga.models]
    FirstMain,     \* the first one in the choice
    DefaultMain,   \* the one an unset model stands for
    UnknownMain,   \* a name no model has
    CDBased,       \* the main models that boot from CD-ROM
    DefaultRoms,   \* [models -> the ROMs to look for, best first]
    Roms,          \* all of these
    OwnRoms,       \* ROM files of the player
    Disks,         \* floppy images
    CDs,           \* CD-ROM images
    Summed,        \* the files that get a checksum when a configuration is loaded
    FloppyDrives, FloppyList, CDDrives, CDList,  \* sequences of keys
    ConfigFiles,   \* contents of .fs-uae files
    EditLimit      \* bound of the model: turns of the player and of the scanner

None == ""
Plain == ""
Internal == "internal"
Unset == <<>>

(* "__changed": the configuration is saved, or the save button is on. *)
No == "0"
Yes == "1"

RangeOf(seq) == {seq[i] : i \in DOMAIN seq}

Mains == DOMAIN SubModels
Models == UNION {{<<main, sub>> : sub \in RangeOf(SubModels[main])} : main \in Mains}
Unknown == <<UnknownMain, Plain>>
ModelValues == Models \cup {Unset, Unknown}

FloppyKeys == RangeOf(FloppyDrives) \cup RangeOf(FloppyList)
CDKeys == RangeOf(CDDrives) \cup RangeOf(CDList)
Media == FloppyKeys \cup CDKeys
Keys == {"amiga_model", "kickstart_file", "x_kickstart_file"} \cup Media
SumKeys == {"x_kickstart_file"} \cup Media    \* of x_kickstart_file_sha1 and so on
Saved == Keys \ {"x_kickstart_file"}

Files == Disks \cup CDs
RomValues == Roms \cup OwnRoms \cup {None, Internal}
FilesFor(key) == IF key \in FloppyKeys THEN Disks ELSE CDs

ASSUME ConfigurationAssumption ==
    /\ FirstMain \in Mains /\ DefaultMain \in Mains /\ UnknownMain \notin Mains
    /\ \A main \in Mains : SubModels[main] \in Seq(STRING) /\ Plain \in RangeOf(SubModels[main])
    /\ {FloppyDrives, FloppyList, CDDrives, CDList} \subseteq Seq(STRING) /\ CDDrives # <<>>
    /\ DefaultRoms \in [Models -> Seq(Roms)]
    /\ {None, Internal} \cap (Roms \cup OwnRoms \cup Files) = {}
    /\ Media \cap {"amiga_model", "kickstart_file", "x_kickstart_file"} = {}
    /\ FloppyKeys \cap CDKeys = {}
    /\ \A file \in ConfigFiles :
          /\ DOMAIN file = Saved
          /\ file["amiga_model"] \in ModelValues
          /\ file["kickstart_file"] \in OwnRoms \cup {None, Internal}
          /\ \A key \in Media : file[key] \in Files \cup {None}

VARIABLES
    conf,      \* Config.values, without the checksums
    sums,      \* the x_<key>_sha1 values
    changed,   \* "__changed", which may be empty as well
    stored,    \* history: what the file last loaded or saved has
    screen,    \* the choices of ModelGroup and KickstartGroup, and sub_model_updating
    todo,      \* the stack of calls
    indexed,   \* the ROMs the file database knows
    scanned,   \* on_done of a scan is queued
    dirty,     \* ImplicitConfigHandler.dirty, with do_update queued
    derived,   \* the model the __implicit_ values were computed from
    typed,     \* history: a Kickstart was typed as an option and not looked at since
    edits      \* history: turns taken

vars == <<conf, sums, changed, stored, screen, todo, indexed, scanned, dirty, derived, typed, edits>>
confVars == <<conf, sums, changed, stored, dirty, todo>>

Idle == todo = <<>>
-----------------------------------------------------------------------------
(* What values mean *)

(* The model a value stands for in Amiga.get_model_config. *)
Model(value) == IF value = Unset THEN <<DefaultMain, Plain>> ELSE value

(* The value a main model is set to, and the choices shown for a value. *)
ValueOf(main) == IF main = DefaultMain THEN Unset ELSE <<main, Plain>>
Shown(value) ==
    IF Model(value) \in Models THEN Model(value)
    ELSE <<FirstMain, SubModels[FirstMain][1]>>

RomType(file) ==
    IF file = Internal THEN "internal" ELSE IF file = None THEN "default" ELSE "custom"

(***************************************************************************)
(* The Kickstart of a configuration (update_kickstart_in_config_dict): the *)
(* one it names, whose checksum stays what it was, or the first default    *)
(* ROM the file database has, or else the internal one's checksum.         *)
(***************************************************************************)
Known(model) ==
    IF model \in Models THEN {i \in DOMAIN DefaultRoms[model] : DefaultRoms[model][i] \in indexed}
    ELSE {}
BestRom(model) == DefaultRoms[model][CHOOSE i \in Known(model) : \A j \in Known(model) : i <= j]

KickstartOf(model, named, sum) ==
    CASE named = Internal -> [file |-> Internal, sum |-> Internal]
      [] named \notin {None, Internal} -> [file |-> named, sum |-> sum]
      [] named = None /\ Known(Model(model)) # {} ->
             [file |-> BestRom(Model(model)), sum |-> BestRom(Model(model))]
      [] OTHER -> [file |-> None, sum |-> Internal]

-----------------------------------------------------------------------------
(* Setting values *)

Only(key, value) == [k \in {key} |-> value]

(* Mutant: the Kickstart in use keeps its checksum when another is named. *)
SumOfMedia(key) == {key} \cap Media

(* Config.set: the checksum beside a key is lost unless it is set with it. *)
SumOf(key) == IF key = "kickstart_file" THEN {"x_kickstart_file"} ELSE {key} \cap Media

Lost(keys) == UNION {SumOf(key) : key \in keys}

Overlaid(f, new) == [k \in DOMAIN f |-> IF k \in DOMAIN new THEN new[k] ELSE f[k]]

(* The listeners that go on to set values hear of two keys, in this order. *)
Notice(key, new) ==
    IF key \in DOMAIN new /\ new[key] # conf[key] THEN <<[do |-> "notify", key |-> key]>> ELSE <<>>
Notices(new) == Notice("amiga_model", new) \o Notice("kickstart_file", new)

(* values and their sums are set, announced, and then the caller goes on. *)
SetValues(values, given, caller) ==
    /\ conf' = Overlaid(conf, values)
    /\ sums' = Overlaid([k \in SumKeys |-> IF k \in Lost(DOMAIN values) THEN None ELSE sums[k]],
                        given)
    /\ todo' = Notices(values) \o caller

(* Another value is a change, and makes the implicit values dirty. *)
Assign(values, given, caller) ==
    /\ SetValues(values, given, caller)
    /\ IF conf' # conf \/ sums' # sums THEN changed' = Yes /\ dirty' = TRUE
       ELSE UNCHANGED <<changed, dirty>>

(* What "__changed" is after Config.set was given a value for it: another    *)
(* value is a change, which sets it to "1", unless it was "1" before.        *)
Marked(mark) == IF changed \in {Yes, mark} THEN mark ELSE Yes

SetOne(key, value, caller) == Assign(Only(key, value), <<>>, caller)
SetFile(key, file, sum, caller) == Assign(Only(key, file), Only(key, sum), caller)

(* The same as a call that waits for its turn. *)
Put(keys, file, sum) == [do |-> "put", keys |-> keys, file |-> file, sum |-> sum]
Empty(keys) == Put(keys, None, None)
EmptyEach(keys) == [i \in DOMAIN keys |-> Empty({keys[i]})]

Call(what) == [do |-> what]
ChooseMain(main) == [do |-> "choose main", main |-> main]
ChooseSub(sub) == [do |-> "choose sub", sub |-> sub]
ChooseRom(type) == [do |-> "choose ROM", type |-> type]

-----------------------------------------------------------------------------
(* The innermost call *)

Calling(what) == ~Idle /\ Head(todo).do = what
Rest == Tail(todo)

(* The value is read here, and is old when a listener before changed it. *)
Notify ==
    /\ Calling("notify")
    /\ todo' =
         (IF Head(todo).key = "amiga_model"
          THEN <<[do |-> "show model", model |-> conf["amiga_model"]], Call("update kickstart")>>
          ELSE <<ChooseRom(RomType(conf["kickstart_file"]))>>) \o Rest
    /\ UNCHANGED <<conf, sums, changed, stored, screen, indexed, scanned, dirty, derived, typed, edits>>

(* LauncherConfig.update_kickstart *)
UpdateKickstart ==
    /\ Calling("update kickstart")
    /\ LET k == KickstartOf(conf["amiga_model"], conf["kickstart_file"], sums["x_kickstart_file"])
       IN  SetFile("x_kickstart_file", k.file, k.sum, Rest)
    /\ typed' = FALSE
    /\ UNCHANGED <<stored, screen, indexed, scanned, derived, edits>>

(* ModelGroup.on_amiga_model_config, up to the choices. The list of         *)
(* sub-models is filled anew, which selects its first; for an unknown model *)
(* it is left alone, and the first entries are chosen.                      *)
ShowModel ==
    /\ Calling("show model")
    /\ LET shown == Shown(Head(todo).model)
       IN  /\ screen' = [screen EXCEPT
                           !.updating = TRUE,
                           !.sub = IF Model(Head(todo).model) \in Models
                                   THEN SubModels[shown[1]][1] ELSE @]
           /\ todo' = <<ChooseMain(shown[1]), ChooseSub(shown[2]), Call("updated")>> \o Rest
    /\ UNCHANGED <<conf, sums, changed, stored, indexed, scanned, dirty, derived, typed, edits>>

(* Mutant: the flag stays set when the handler has returned. *)
StaysUpdating ==
    /\ Calling("updated")
    /\ todo' = Rest
    /\ UNCHANGED <<conf, sums, changed, stored, screen, indexed, scanned, dirty, derived, typed, edits>>

Updated ==
    /\ Calling("updated")
    /\ screen' = [screen EXCEPT !.updating = FALSE]
    /\ todo' = Rest
    /\ UNCHANGED <<conf, sums, changed, stored, indexed, scanned, dirty, derived, typed, edits>>

(* A choice that is shown already triggers nothing. *)
AlreadyShown ==
    /\ \/ Calling("choose main") /\ Head(todo).main = screen.main
       \/ Calling("choose sub") /\ Head(todo).sub = screen.sub
       \/ Calling("choose ROM") /\ Head(todo).type = screen.rom
    /\ todo' = Rest
    /\ UNCHANGED <<conf, sums, changed, stored, screen, indexed, scanned, dirty, derived, typed, edits>>

(* ModelGroup.on_model_changed *)
OnModelChanged ==
    /\ Calling("choose main") /\ Head(todo).main # screen.main
    /\ screen' = [screen EXCEPT !.main = Head(todo).main]
    /\ SetOne("amiga_model", ValueOf(Head(todo).main), Rest)
    /\ UNCHANGED <<stored, indexed, scanned, derived, typed, edits>>

(* ModelGroup.on_sub_model_changed *)
OnSubModelChanged ==
    /\ Calling("choose sub") /\ Head(todo).sub # screen.sub
    /\ screen' = [screen EXCEPT !.sub = Head(todo).sub]
    /\ IF screen.updating
       THEN todo' = Rest /\ UNCHANGED <<conf, sums, changed, dirty>>
       ELSE SetOne("amiga_model", <<screen.main, Head(todo).sub>>, <<Call("clear media")>> \o Rest)
    /\ UNCHANGED <<stored, indexed, scanned, derived, typed, edits>>

(* FloppyManager.clear_all, or CDManager.clear_all, which knows one drive. *)
ClearMedia ==
    /\ Calling("clear media")
    /\ todo' =
         (IF Model(conf["amiga_model"]) \in Models /\ Model(conf["amiga_model"])[1] \in CDBased
          THEN Append(EmptyEach(FloppyDrives), Empty(RangeOf(FloppyList)))
          ELSE <<Empty({CDDrives[1]}), Empty(RangeOf(CDList))>>) \o Rest
    /\ UNCHANGED <<conf, sums, changed, stored, screen, indexed, scanned, dirty, derived, typed, edits>>

DoPut ==
    /\ Calling("put")
    /\ LET c == Head(todo)
       IN  Assign([k \in c.keys |-> c.file], [k \in c.keys |-> c.sum], Rest)
    /\ UNCHANGED <<stored, screen, indexed, scanned, derived, typed, edits>>

(* KickstartGroup.on_kickstart_type_changed *)
OnKickstartTypeChanged ==
    /\ Calling("choose ROM") /\ Head(todo).type # screen.rom
    /\ screen' = [screen EXCEPT !.rom = Head(todo).type]
    /\ LET update == <<Call("update kickstart")>> \o Rest
           type == Head(todo).type
       IN  IF type # "custom" /\ type = RomType(conf["kickstart_file"])
           THEN todo' = Rest /\ UNCHANGED <<conf, sums, changed, dirty>>
           ELSE SetOne("kickstart_file",
                       CASE type = "default" -> None
                         [] type = "internal" -> Internal
                         [] OTHER -> conf["x_kickstart_file"], update)
    /\ UNCHANGED <<stored, indexed, scanned, derived, typed, edits>>

(* The end of load; setting its name makes the implicit values dirty too. *)
MarkLoaded ==
    /\ Calling("loaded")
    /\ changed' = Marked(No)
    /\ dirty' = TRUE
    /\ todo' = Rest
    /\ UNCHANGED <<conf, sums, stored, screen, indexed, scanned, derived, typed, edits>>

Step ==
    \/ Notify \/ UpdateKickstart \/ ShowModel \/ Updated \/ AlreadyShown \/ OnModelChanged
    \/ OnSubModelChanged \/ ClearMedia \/ DoPut \/ OnKickstartTypeChanged \/ MarkLoaded

-----------------------------------------------------------------------------
(* Turns of the player and of other threads *)

Turn == Idle /\ edits < EditLimit /\ edits' = edits + 1
Others == <<stored, screen, indexed, scanned, derived, typed>>
Start(calls) == todo' = calls /\ UNCHANGED <<conf, sums, changed, dirty>>

(* A click on one of the three choices. *)
PickChoice ==
    /\ Turn
    /\ \/ \E main \in Mains : Start(<<ChooseMain(main)>>)
       \/ \E sub \in RangeOf(SubModels[screen.main]) : Start(<<ChooseSub(sub)>>)
       \/ \E type \in {"default", "custom", "internal"} : Start(<<ChooseRom(type)>>)
    /\ UNCHANGED Others

(* KickstartGroup.on_browse_button *)
BrowseKickstart(rom) ==
    /\ Turn
    /\ Assign([k \in {"kickstart_file", "x_kickstart_file"} |-> rom], Only("x_kickstart_file", rom), <<>>)
    /\ UNCHANGED Others

(* FloppySelector: insert_floppy, insert_cd and eject. *)
ChangeDrive(drive, file) ==
    /\ Turn
    /\ SetFile(drive, file, IF drive \in FloppyKeys THEN file ELSE None, <<>>)
    /\ UNCHANGED Others

(* MediaListGroup.create_list: how many items there are, and the nth. *)
Used(list) == {i \in DOMAIN list : conf[list[i]] # None}
NthUsed(list, n) == {i \in Used(list) : Cardinality({j \in Used(list) : j <= i}) = n}
Item(file, sum) == [file |-> file, sum |-> sum]
Nth(list, n) ==
    IF NthUsed(list, n) = {} THEN Item(None, None)
    ELSE LET key == list[CHOOSE i \in NthUsed(list, n) : TRUE] IN Item(conf[key], sums[key])

(* MediaListGroup.on_activate_item and insert_floppy_in_free_drive: the nth  *)
(* item shown stands for the nth key, which may be another's, or empty.      *)
Free == {i \in DOMAIN FloppyDrives : conf[FloppyDrives[i]] = None}
InsertFromList(n) ==
    /\ Turn
    /\ n <= Cardinality(Used(FloppyList))
    /\ \E i \in Free :
          /\ \A j \in Free : i <= j
          /\ SetFile(FloppyDrives[i], conf[FloppyList[n]], sums[FloppyList[n]], <<>>)
    /\ UNCHANGED Others

(* MediaListGroup.set_new_config; what has no room is left out. *)
SetNewConfig(list, items) ==
    LET item(key) == items[CHOOSE i \in DOMAIN list : list[i] = key]
    IN  Assign([key \in RangeOf(list) |-> item(key).file],
               [key \in RangeOf(list) |-> item(key).sum], <<>>)

AddToList(list, file) ==
    /\ Turn
    /\ SetNewConfig(list, [n \in DOMAIN list |->
           IF n = Cardinality(Used(list)) + 1 THEN Item(file, file) ELSE Nth(list, n)])
    /\ UNCHANGED Others

RemoveFromList(list, i) ==
    /\ Turn
    /\ NthUsed(list, i) # {}
    /\ SetNewConfig(list, [n \in DOMAIN list |-> Nth(list, IF n < i THEN n ELSE n + 1)])
    /\ UNCHANGED Others

ClearList(list) ==
    /\ Turn
    /\ Start(<<Empty(RangeOf(list))>>)
    /\ UNCHANGED Others

(* FloppyManager.multi_select and CDManager.multi_select: each file goes into *)
(* its drive, if there is one, and into the list, and the rest is emptied.     *)
MultiSelect(drives, list, files) ==
    LET n == Len(files)
        slot(j) == IF j % 2 = 0 THEN {list[j \div 2]}
                   ELSE IF (j + 1) \div 2 \in DOMAIN drives THEN {drives[(j + 1) \div 2]} ELSE {}
        sum(file) == IF list = FloppyList THEN file ELSE None
    IN  /\ Turn
        /\ Start([j \in 1..2 * n |-> Put(slot(j), files[(j + 1) \div 2], sum(files[(j + 1) \div 2]))]
                  \o EmptyEach(SubSeq(drives, n + 1, Len(drives)))
                  \o EmptyEach(SubSeq(list, n + 1, Len(list))))
        /\ UNCHANGED Others

(* CustomOptionsPage.update_config, with one line typed.  What is not an     *)
(* option is emptied with it, "__changed" and the implicit values too.       *)
WriteOption(key, value) ==
    /\ Turn /\ ~dirty
    /\ SetValues(Only(key, value), <<>>, <<>>)
    /\ changed' = IF changed = Yes THEN None ELSE Yes
    /\ dirty' = TRUE
    /\ derived' = Unset
    /\ typed' = (typed \/ key = "kickstart_file")
    /\ UNCHANGED <<stored, screen, indexed, scanned>>

(* LauncherConfig.load: everything is set at once, files without a checksum *)
(* get one if they are found, and then the configuration counts as saved.   *)
LoadFile(file) ==
    LET k == KickstartOf(file["amiga_model"], file["kickstart_file"], None)
        fixed(f, sum) == IF sum = None /\ f \in Summed THEN f ELSE sum
        values == [key \in Keys |-> IF key = "x_kickstart_file" THEN k.file ELSE file[key]]
    IN  /\ Turn
        /\ Assign(values,
                  [key \in SumKeys |-> fixed(values[key], IF key \in Media THEN None ELSE k.sum)],
                  <<Call("loaded")>>)
        /\ typed' = FALSE
        /\ stored' = file
        /\ UNCHANGED <<screen, indexed, scanned, derived>>

(* SaveButton.save_config *)
Save ==
    /\ Turn
    /\ changed = Yes
    /\ changed' = Marked(No)
    /\ stored' = [key \in Saved |-> conf[key]]
    /\ dirty' = TRUE
    /\ UNCHANGED <<conf, sums, todo, screen, indexed, scanned, derived, typed>>

(* A scan finds other ROMs; its on_done runs later (Scanner.scan_thread). *)
RomsScanned ==
    /\ edits < EditLimit /\ edits' = edits + 1
    /\ indexed' \in SUBSET Roms
    /\ scanned' = TRUE
    /\ UNCHANGED <<confVars, screen, derived, typed>>

OnDone ==
    /\ Idle /\ scanned
    /\ scanned' = FALSE
    /\ todo' = <<Call("update kickstart")>>
    /\ UNCHANGED <<conf, sums, changed, stored, screen, indexed, dirty, derived, typed, edits>>

(* ImplicitConfigHandler.do_update; nobody but it is told. *)
DoUpdate ==
    /\ Idle /\ dirty
    /\ dirty' = FALSE
    /\ derived' = Model(conf["amiga_model"])
    /\ UNCHANGED <<conf, sums, changed, stored, screen, todo, indexed, scanned, typed, edits>>

Edit ==
    \/ PickChoice \/ Save
    \/ \E rom \in OwnRoms : BrowseKickstart(rom)
    \/ \E drive \in RangeOf(FloppyDrives) \cup RangeOf(CDDrives) :
          \E file \in FilesFor(drive) \cup {None} : ChangeDrive(drive, file)
    \/ \E n \in DOMAIN FloppyList : InsertFromList(n)
    \/ \E list \in {FloppyList, CDList} :
          \/ \E file \in FilesFor(list[1]) : AddToList(list, file)
          \/ \E i \in DOMAIN list : RemoveFromList(list, i)
          \/ ClearList(list)
    \/ \E n \in DOMAIN FloppyList : \E files \in [1..n -> Disks] :
          MultiSelect(FloppyDrives, FloppyList, files)
    \/ \E n \in DOMAIN CDList : \E files \in [1..n -> CDs] : MultiSelect(CDDrives, CDList, files)
    \/ \E model \in ModelValues : WriteOption("amiga_model", model)
    \/ \E rom \in OwnRoms \cup {None, Internal} : WriteOption("kickstart_file", rom)
    \/ \E key \in Media : \E file \in FilesFor(key) \cup {None} : WriteOption(key, file)
    \/ \E file \in ConfigFiles : LoadFile(file)

Init ==
    /\ conf = [key \in Keys |-> IF key = "amiga_model" THEN Unset ELSE None]
    /\ sums = [key \in SumKeys |-> IF key = "x_kickstart_file" THEN Internal ELSE None]
    /\ changed = No
    /\ stored = [key \in Saved |-> conf[key]]
    /\ screen = [main |-> DefaultMain, sub |-> Plain, rom |-> "default", updating |-> FALSE]
    /\ todo = <<>>
    /\ indexed = {}
    /\ scanned = FALSE
    /\ dirty = FALSE
    /\ derived = <<DefaultMain, Plain>>
    /\ typed = FALSE
    /\ edits = 0

Next == Step \/ Edit \/ RomsScanned \/ OnDone \/ DoUpdate
Spec == Init /\ [][Next]_vars
-----------------------------------------------------------------------------
(* Properties *)

Paths == {None} \cup Files
RomTypes == {"default", "custom", "internal"}
ModelNames == (Mains \cup {UnknownMain}) \X STRING

Calls ==
    [do : {"notify"}, key : {"amiga_model", "kickstart_file"}]
      \cup [do : {"update kickstart", "updated", "clear media", "loaded"}]
      \cup [do : {"show model"}, model : ModelNames \cup {Unset}]
      \cup [do : {"choose main"}, main : Mains]
      \cup [do : {"choose sub"}, sub : STRING]
      \cup [do : {"choose ROM"}, type : RomTypes]
      \cup {c \in [do : {"put"}, keys : SUBSET Media, file : Paths, sum : Paths] :
                c.sum \in {None, c.file}}

TypeOK ==
    /\ DOMAIN conf = Keys /\ DOMAIN sums = SumKeys
    /\ conf["amiga_model"] \in ModelNames \cup {Unset}
    /\ conf["kickstart_file"] \in RomValues /\ conf["x_kickstart_file"] \in RomValues
    /\ \A key \in Media : conf[key] \in Paths /\ sums[key] \in Paths
    /\ sums["x_kickstart_file"] \in RomValues
    /\ screen \in [main : Mains, sub : STRING, rom : RomTypes, updating : BOOLEAN]
    /\ todo \in Seq(Calls)
    /\ indexed \subseteq Roms /\ derived \in ModelNames \cup {Unset}
    /\ changed \in {None, No, Yes} /\ scanned \in BOOLEAN /\ dirty \in BOOLEAN /\ typed \in BOOLEAN
    /\ edits \in Nat

(***************************************************************************)
(* A checksum is that of the file beside it, or there is none, also while  *)
(* listeners change one of the two: it is what the players of a net game   *)
(* compare instead of their files (Config.set).                            *)
(***************************************************************************)
ChecksumTrue ==
    /\ \A key \in Media : sums[key] \in {None, conf[key]}
    /\ \/ sums["x_kickstart_file"] \in {None, conf["x_kickstart_file"]}
       \/ sums["x_kickstart_file"] = Internal /\ conf["x_kickstart_file"] = None

(***************************************************************************)
(* When the announcements have come to rest, everything that follows the   *)
(* configuration agrees with it, in whatever order the calls went: the     *)
(* choices show the model, and a Kickstart shown as default or internal is *)
(* so; the ROM in use is the one named or the best one known, unless a     *)
(* scan or a typed option has yet to be looked at; the implicit values are *)
(* the model's; and a configuration that counts as saved has the Kickstart *)
(* of its file, and the model, unless that is one the launcher does not    *)
(* know and has replaced with the first.                                   *)
(***************************************************************************)
AtRest ==
    Idle =>
        /\ <<screen.main, screen.sub>> = Shown(conf["amiga_model"])
        /\ screen.rom \in {"custom", RomType(conf["kickstart_file"])}
        /\ ~screen.updating
        /\ typed \/ scanned \/
             conf["x_kickstart_file"] =
                 KickstartOf(conf["amiga_model"], conf["kickstart_file"], None).file
        /\ dirty \/ derived = Model(conf["amiga_model"])
        /\ changed = No =>
              /\ Model(stored["amiga_model"]) \in Models =>
                    Model(conf["amiga_model"]) = Model(stored["amiga_model"])
              /\ conf["kickstart_file"] = stored["kickstart_file"]

(***************************************************************************)
(* A configuration that does not count as changed is as its file has it,   *)
(* so that the save button is on when there is something to save (the      *)
(* comment in load: unchanged means that it need not be saved).            *)
(***************************************************************************)
SavedAsStored == Idle /\ changed # Yes => \A key \in Saved : conf[key] = stored[key]
=============================================================================
