-------------------- MODULE LauncherConfigurationProofs --------------------
(***************************************************************************)
(* Proofs about LauncherConfiguration, for any models, keys, ROMs and      *)
(* files: what is in the configuration, and what is left to do, keeps its  *)
(* type, a checksum is never that of another file, and when no call is     *)
(* left to do, all that follows the configuration agrees with it.          *)
(***************************************************************************)
EXTENDS LauncherConfiguration, SequenceTheorems, WellFoundedInduction, TLAPS

(* What makes ChecksumTrue inductive: a Kickstart that is named and has a   *)
(* checksum is the one in use, so that update_kickstart may keep the sum.   *)
KickstartSum ==
    conf["kickstart_file"] \notin {None, Internal} /\ sums["x_kickstart_file"] # None
        => /\ sums["x_kickstart_file"] = conf["x_kickstart_file"]
           /\ conf["x_kickstart_file"] = conf["kickstart_file"]

IInv == TypeOK /\ ChecksumTrue /\ KickstartSum

(* The same in two parts: what Config.set changes, and the rest. *)
ConfOK ==
    /\ DOMAIN conf = Keys /\ DOMAIN sums = SumKeys
    /\ conf["amiga_model"] \in ModelNames \cup {Unset}
    /\ conf["kickstart_file"] \in RomValues /\ conf["x_kickstart_file"] \in RomValues
    /\ \A key \in Media : conf[key] \in Paths /\ sums[key] \in Paths
    /\ sums["x_kickstart_file"] \in RomValues
    /\ todo \in Seq(Calls)
    /\ changed \in {None, No, Yes} /\ dirty \in BOOLEAN
    /\ ChecksumTrue /\ KickstartSum

OthersOK ==
    /\ screen \in [main : Mains, sub : STRING, rom : RomTypes, updating : BOOLEAN]
    /\ indexed \subseteq Roms /\ derived \in ModelNames \cup {Unset}
    /\ scanned \in BOOLEAN /\ typed \in BOOLEAN /\ edits \in Nat

LEMMA Parts == IInv <=> ConfOK /\ OthersOK
  BY DEF IInv, TypeOK, ConfOK, OthersOK

LEMMA PartsNext == ConfOK' /\ OthersOK' => IInv'
  BY DEF IInv, TypeOK, ConfOK, OthersOK

-----------------------------------------------------------------------------
(* The calls by what they do. *)
LEMMA CallKinds ==
    ASSUME NEW c \in Calls
    PROVE  /\ c.do = "notify" => c.key \in {"amiga_model", "kickstart_file"}
           /\ c.do = "show model" => c.model \in ModelNames \cup {Unset}
           /\ c.do = "choose main" => c.main \in Mains
           /\ c.do = "choose sub" => c.sub \in STRING
           /\ c.do = "choose ROM" => c.type \in RomTypes
           /\ c.do = "put" => /\ c.keys \subseteq Media /\ c.file \in Paths
                              /\ c.sum \in Paths /\ c.sum \in {None, c.file}
  BY DEF Calls

LEMMA CallsMade ==
    /\ \A key \in {"amiga_model", "kickstart_file"} : [do |-> "notify", key |-> key] \in Calls
    /\ Call("update kickstart") \in Calls /\ Call("updated") \in Calls
    /\ Call("clear media") \in Calls /\ Call("loaded") \in Calls
    /\ \A model \in ModelNames \cup {Unset} : [do |-> "show model", model |-> model] \in Calls
    /\ \A main \in Mains : ChooseMain(main) \in Calls
    /\ \A sub \in STRING : ChooseSub(sub) \in Calls
    /\ \A type \in RomTypes : ChooseRom(type) \in Calls
    /\ \A keys \in SUBSET Media : \A file \in Paths :
          /\ Put(keys, file, file) \in Calls
          /\ Put(keys, file, None) \in Calls
          /\ Empty(keys) \in Calls
  BY DEF Calls, Call, ChooseMain, ChooseSub, ChooseRom, Put, Empty, Paths, None

LEMMA Single == \A a \in Calls : <<a>> \in Seq(Calls)
  OBVIOUS

LEMMA Before ==
    ASSUME NEW rest \in Seq(Calls), NEW a \in Calls
    PROVE  /\ <<a>> \o rest \in Seq(Calls)
           /\ \A b \in Calls : <<a, b>> \o rest \in Seq(Calls)
           /\ \A b, c \in Calls : <<a, b, c>> \o rest \in Seq(Calls)
<1>1. /\ <<a>> \in Seq(Calls)
      /\ \A b \in Calls : <<a, b>> \in Seq(Calls)
      /\ \A b, c \in Calls : <<a, b, c>> \in Seq(Calls)
  OBVIOUS
<1> QED BY <1>1, ConcatProperties

(* What is left to do when the innermost call is taken away. *)
LEMMA Caller ==
    ASSUME TypeOK, ~Idle
    PROVE  Head(todo) \in Calls /\ Rest \in Seq(Calls)
  BY HeadTailProperties DEF TypeOK, Idle, Rest

LEMMA KeyKinds ==
    /\ Media \subseteq Keys /\ Media \subseteq SumKeys
    /\ {"amiga_model", "kickstart_file", "x_kickstart_file"} \subseteq Keys
    /\ "x_kickstart_file" \in SumKeys
    /\ \A key \in Media : key \notin {"amiga_model", "kickstart_file", "x_kickstart_file"}
  BY ConfigurationAssumption DEF Keys, SumKeys

(***************************************************************************)
(* Config.set keeps the invariant, when each value has its type, each      *)
(* checksum given with a file is of that file or empty, and a Kickstart is *)
(* given with all that belongs to it or without any of it.                 *)
(***************************************************************************)
RomSum(file, sum) ==
    /\ file \in RomValues /\ sum \in RomValues
    /\ sum \in {None, file} \/ (sum = Internal /\ file = None)

Fits(values, given) ==
    /\ DOMAIN values \subseteq Keys
    /\ "amiga_model" \in DOMAIN values => values["amiga_model"] \in ModelNames \cup {Unset}
    /\ "kickstart_file" \in DOMAIN values => values["kickstart_file"] \in RomValues
    /\ \A key \in Media \cap DOMAIN values : values[key] \in Paths
    /\ \A key \in Media \cap DOMAIN given :
          key \in DOMAIN values /\ given[key] \in {None, values[key]} /\ given[key] \in Paths
    /\ "x_kickstart_file" \in DOMAIN values => "x_kickstart_file" \in DOMAIN given
    /\ "x_kickstart_file" \in DOMAIN given =>
          LET named == IF "kickstart_file" \in DOMAIN values
                       THEN values["kickstart_file"] ELSE conf["kickstart_file"]
              sum == given["x_kickstart_file"]
              file == values["x_kickstart_file"]
          IN  /\ "x_kickstart_file" \in DOMAIN values
              /\ RomSum(file, sum)
              /\ named \notin {None, Internal} /\ sum # None => sum = named /\ file = named

LEMMA SetKeeps ==
    ASSUME IInv, NEW values, NEW given, Fits(values, given),
           NEW caller \in Seq(Calls), SetValues(values, given, caller),
           changed' \in {None, No, Yes}, dirty' \in BOOLEAN
    PROVE  ConfOK'
<1> DEFINE lost == Lost(DOMAIN values)
<1>1. /\ DOMAIN conf' = Keys
      /\ \A key \in Keys : conf'[key] = IF key \in DOMAIN values THEN values[key] ELSE conf[key]
  BY DEF IInv, TypeOK, SetValues, Overlaid
<1>2. /\ DOMAIN sums' = SumKeys
      /\ \A key \in SumKeys :
            sums'[key] = IF key \in DOMAIN given THEN given[key]
                         ELSE IF key \in lost THEN None ELSE sums[key]
  BY DEF IInv, TypeOK, SetValues, Overlaid
<1>3. \A key \in Media : key \in DOMAIN values /\ key \notin DOMAIN given => key \in lost
  BY KeyKinds DEF Lost, SumOf
<1>4. "kickstart_file" \in DOMAIN values /\ "x_kickstart_file" \notin DOMAIN given
        => "x_kickstart_file" \in lost
  BY DEF Lost, SumOf
<1>5. None \in Paths /\ None \in RomValues
  BY DEF Paths, RomValues
<1>6. /\ conf'["amiga_model"] \in ModelNames \cup {Unset}
      /\ conf'["kickstart_file"] \in RomValues
  BY <1>1, KeyKinds DEF IInv, TypeOK, Fits
<1>7. \A key \in Media : /\ conf'[key] \in Paths /\ sums'[key] \in Paths
                          /\ sums'[key] \in {None, conf'[key]}
  <2> SUFFICES ASSUME NEW key \in Media
               PROVE  /\ conf'[key] \in Paths /\ sums'[key] \in Paths
                      /\ sums'[key] \in {None, conf'[key]}
    OBVIOUS
  <2>1. key \in Keys /\ key \in SumKeys
    BY KeyKinds
  <2>2. CASE key \in DOMAIN given
    BY <1>1, <1>2, <2>1, <2>2 DEF Fits
  <2>3. CASE key \notin DOMAIN given /\ key \in DOMAIN values
    BY <1>1, <1>2, <1>3, <1>5, <2>1, <2>3 DEF Fits
  <2>4. CASE key \notin DOMAIN given /\ key \notin DOMAIN values
    BY <1>1, <1>2, <1>5, <2>1, <2>4 DEF IInv, TypeOK, ChecksumTrue
  <2> QED BY <2>2, <2>3, <2>4
<1>8. /\ conf'["x_kickstart_file"] \in RomValues /\ sums'["x_kickstart_file"] \in RomValues
      /\ \/ sums'["x_kickstart_file"] \in {None, conf'["x_kickstart_file"]}
         \/ sums'["x_kickstart_file"] = Internal /\ conf'["x_kickstart_file"] = None
      /\ KickstartSum'
  <2>1. CASE "x_kickstart_file" \in DOMAIN given
    BY <1>1, <1>2, <2>1, KeyKinds DEF Fits, RomSum, KickstartSum
  <2>2. CASE "x_kickstart_file" \notin DOMAIN given /\ "kickstart_file" \in DOMAIN values
    <3>1. sums'["x_kickstart_file"] = None
      BY <1>2, <1>4, <2>2, KeyKinds
    <3>2. conf'["x_kickstart_file"] = conf["x_kickstart_file"]
      BY <1>1, <2>2, KeyKinds DEF Fits
    <3> QED BY <1>5, <3>1, <3>2 DEF IInv, TypeOK, KickstartSum
  <2>3. CASE "x_kickstart_file" \notin DOMAIN given /\ "kickstart_file" \notin DOMAIN values
    <3>1. /\ conf'["x_kickstart_file"] = conf["x_kickstart_file"]
          /\ conf'["kickstart_file"] = conf["kickstart_file"]
      BY <1>1, <2>3, KeyKinds DEF Fits
    <3>2. sums'["x_kickstart_file"] \in {None, sums["x_kickstart_file"]}
      BY <1>2, <2>3, KeyKinds
    <3> QED BY <1>5, <3>1, <3>2 DEF IInv, TypeOK, ChecksumTrue, KickstartSum
  <2> QED BY <2>1, <2>2, <2>3
<1>9. todo' \in Seq(Calls)
  <2>1. \A key \in {"amiga_model", "kickstart_file"} : Notice(key, values) \in Seq(Calls)
    <3> SUFFICES ASSUME NEW key \in {"amiga_model", "kickstart_file"}
                 PROVE  Notice(key, values) \in Seq(Calls)
      OBVIOUS
    <3>1. [do |-> "notify", key |-> key] \in Calls
      BY CallsMade
    <3>2. <<[do |-> "notify", key |-> key]>> \in Seq(Calls) /\ <<>> \in Seq(Calls)
      BY <3>1
    <3> QED BY <3>2 DEF Notice
  <2>2. Notices(values) \in Seq(Calls)
    BY <2>1, ConcatProperties DEF Notices
  <2> QED BY <2>2, ConcatProperties DEF SetValues
<1> QED BY <1>1, <1>2, <1>6, <1>7, <1>8, <1>9 DEF ConfOK, ChecksumTrue

LEMMA AssignKeeps ==
    ASSUME IInv, NEW values, NEW given, Fits(values, given),
           NEW caller \in Seq(Calls), Assign(values, given, caller)
    PROVE  ConfOK'
<1>1. SetValues(values, given, caller)
  BY DEF Assign
<1>2. changed' \in {None, No, Yes} /\ dirty' \in BOOLEAN
  BY DEF Assign, IInv, TypeOK
<1> QED BY <1>1, <1>2, SetKeeps

(* A step that sets no value keeps it, whatever it leaves to be done. *)
LEMMA CallKeeps ==
    ASSUME IInv, UNCHANGED <<conf, sums>>, todo' \in Seq(Calls),
           changed' \in {None, No, Yes}, dirty' \in BOOLEAN
    PROVE  ConfOK'
  BY DEF IInv, TypeOK, ChecksumTrue, KickstartSum, ConfOK

-----------------------------------------------------------------------------
(* The ways in which values are given. *)
LEMMA OneFits ==
    ASSUME NEW key \in Keys \ {"x_kickstart_file"}, NEW value,
           key = "amiga_model" => value \in ModelNames \cup {Unset},
           key = "kickstart_file" => value \in RomValues,
           key \in Media => value \in Paths
    PROVE  Fits(Only(key, value), <<>>)
<1>1. DOMAIN Only(key, value) = {key} /\ Only(key, value)[key] = value
  BY DEF Only
<1>2. DOMAIN <<>> = {}
  OBVIOUS
<1> QED BY <1>1, <1>2 DEF Fits

LEMMA FilesFit ==
    ASSUME NEW keys \in SUBSET Media, NEW values \in [keys -> Paths], NEW given \in [keys -> Paths],
           \A key \in keys : given[key] \in {None, values[key]}
    PROVE  Fits(values, given)
  BY KeyKinds DEF Fits

LEMMA FileFits ==
    ASSUME NEW key \in Media, NEW file \in Paths, NEW sum \in {None, file}
    PROVE  Fits(Only(key, file), Only(key, sum))
<1>1. sum \in Paths
  BY DEF Paths
<1> QED BY <1>1, FilesFit DEF Only

LEMMA MediaKeys ==
    /\ \A seq \in {FloppyDrives, FloppyList, CDDrives, CDList} :
          seq \in Seq(Media) /\ \A i \in DOMAIN seq : seq[i] \in Media
    /\ RangeOf(FloppyDrives) \subseteq Media /\ RangeOf(CDDrives) \subseteq Media
    /\ RangeOf(FloppyList) \subseteq Media /\ RangeOf(CDList) \subseteq Media
<1>1. \A seq \in {FloppyDrives, FloppyList, CDDrives, CDList} :
          seq \in Seq(STRING) /\ \A i \in DOMAIN seq : seq[i] \in Media
  BY ConfigurationAssumption DEF Media, FloppyKeys, CDKeys, RangeOf
<1>2. \A seq \in {FloppyDrives, FloppyList, CDDrives, CDList} : seq \in Seq(Media)
  <2> SUFFICES ASSUME NEW seq \in {FloppyDrives, FloppyList, CDDrives, CDList}
               PROVE  seq \in Seq(Media)
    OBVIOUS
  <2>1. Len(seq) \in Nat /\ seq \in [1..Len(seq) -> Media]
    BY <1>1
  <2> QED BY <2>1, IsASeq
<1> QED BY <1>1, <1>2 DEF RangeOf

LEMMA FilesForKey == \A key : FilesFor(key) \cup {None} \subseteq Paths
  BY DEF FilesFor, Paths, Files

-----------------------------------------------------------------------------
(* The models and the ROMs that belong to a value. *)
LEMMA ModelPairs ==
    \A model \in Models : \E main \in Mains : \E sub \in STRING : model = <<main, sub>>
<1> SUFFICES ASSUME NEW model \in Models
             PROVE  \E main \in Mains : \E sub \in STRING : model = <<main, sub>>
  OBVIOUS
<1>1. PICK main \in Mains : model \in {<<main, sub>> : sub \in RangeOf(SubModels[main])}
  BY DEF Models
<1>2. PICK sub \in RangeOf(SubModels[main]) : model = <<main, sub>>
  BY <1>1
<1>3. sub \in STRING
  BY ConfigurationAssumption DEF RangeOf
<1> QED BY <1>2, <1>3

LEMMA PlainKind == Plain \in STRING
  BY ConfigurationAssumption DEF RangeOf

LEMMA ModelValueKind == ModelValues \subseteq ModelNames \cup {Unset}
<1>1. Models \subseteq ModelNames
  <2> SUFFICES ASSUME NEW model \in Models PROVE model \in ModelNames
    OBVIOUS
  <2>1. PICK main \in Mains, sub \in STRING : model = <<main, sub>>
    BY ModelPairs
  <2> QED BY <2>1 DEF ModelNames
<1>2. Unknown \in ModelNames
  BY PlainKind DEF Unknown, ModelNames
<1> QED BY <1>1, <1>2 DEF ModelValues

LEMMA FirstSubModel == \A main \in Mains : SubModels[main][1] \in STRING
  BY ConfigurationAssumption DEF RangeOf

LEMMA ShownKinds ==
    ASSUME NEW value
    PROVE  Shown(value)[1] \in Mains /\ Shown(value)[2] \in STRING
<1>1. CASE Model(value) \in Models
  <2>1. PICK main \in Mains, sub \in STRING : Model(value) = <<main, sub>>
    BY <1>1, ModelPairs
  <2> QED BY <1>1, <2>1 DEF Shown
<1>2. CASE Model(value) \notin Models
  BY <1>2, FirstSubModel, ConfigurationAssumption DEF Shown
<1> QED BY <1>1, <1>2

LEMMA ModelKind == \A value \in ModelNames \cup {Unset} : Model(value) \in ModelNames
<1>1. <<DefaultMain, Plain>> \in ModelNames
  <2>1. DefaultMain \in Mains
    BY ConfigurationAssumption
  <2> QED BY <2>1, PlainKind DEF ModelNames
<1> QED BY <1>1 DEF Model

LEMMA BestRomKind ==
    ASSUME OthersOK, NEW model, Known(model) # {}
    PROVE  BestRom(model) \in Roms
<1>1. model \in Models /\ DefaultRoms[model] \in Seq(Roms)
  BY ConfigurationAssumption DEF Known
<1>2. Known(model) \subseteq DOMAIN DefaultRoms[model] /\ DOMAIN DefaultRoms[model] \subseteq Nat
  BY <1>1 DEF Known
<1>3. PICK i \in Known(model) : \A j \in Known(model) : ~(<<j, i>> \in OpToRel(<, Nat))
  BY <1>2, WFMin, NatLessThanWellFounded, Zenon
<1>4. \A j \in Known(model) : i <= j
  <2> SUFFICES ASSUME NEW j \in Known(model)
               PROVE  i <= j
    OBVIOUS
  <2>1. i \in Nat /\ j \in Nat
    BY <1>2
  <2>2. <<j, i>> \in Nat \X Nat /\ <<j, i>>[1] = j /\ <<j, i>>[2] = i
    BY <2>1
  <2>3. ~(j < i)
    BY <1>3, <2>2, Zenon DEF OpToRel
  <2> QED BY <2>1, <2>3
<1>5. (CHOOSE k \in Known(model) : \A j \in Known(model) : k <= j) \in Known(model)
  BY <1>4
<1> QED BY <1>1, <1>2, <1>5 DEF BestRom

(* update_kickstart keeps it as well: a ROM goes with its own checksum. *)
LEMMA KickstartFits ==
    ASSUME IInv,
           NEW k, k = KickstartOf(conf["amiga_model"], conf["kickstart_file"], sums["x_kickstart_file"])
    PROVE  Fits(Only("x_kickstart_file", k.file), Only("x_kickstart_file", k.sum))
<1> DEFINE named == conf["kickstart_file"]
           sum == sums["x_kickstart_file"]
<1>1. /\ RomSum(k.file, k.sum)
      /\ named \notin {None, Internal} /\ k.sum # None => k.sum = named /\ k.file = named
  <2>1. CASE named = Internal
    <3>1. k = [file |-> Internal, sum |-> Internal]
      BY <2>1 DEF KickstartOf, None, Internal
    <3> QED BY <2>1, <3>1 DEF RomSum, RomValues
  <2>2. CASE named \notin {None, Internal}
    <3>1. k = [file |-> named, sum |-> sum]
      BY <2>2 DEF KickstartOf
    <3> QED BY <2>2, <3>1 DEF RomSum, IInv, TypeOK, ChecksumTrue, KickstartSum
  <2>3. CASE named = None
    <3>1. None # Internal
      BY DEF None, Internal
    <3>2. CASE Known(Model(conf["amiga_model"])) # {}
      <4>1. BestRom(Model(conf["amiga_model"])) \in RomValues
        BY <3>2, BestRomKind, Parts DEF RomValues
      <4>2. k = [file |-> BestRom(Model(conf["amiga_model"])), sum |-> BestRom(Model(conf["amiga_model"]))]
        BY <2>3, <3>1, <3>2 DEF KickstartOf
      <4> QED BY <2>3, <4>1, <4>2 DEF RomSum
    <3>3. CASE Known(Model(conf["amiga_model"])) = {}
      <4>1. k = [file |-> None, sum |-> Internal]
        BY <2>3, <3>1, <3>3 DEF KickstartOf
      <4> QED BY <2>3, <4>1 DEF RomSum, RomValues
    <3> QED BY <3>2, <3>3
  <2> QED BY <2>1, <2>2, <2>3
<1>2. /\ DOMAIN Only("x_kickstart_file", k.file) = {"x_kickstart_file"}
      /\ DOMAIN Only("x_kickstart_file", k.sum) = {"x_kickstart_file"}
      /\ Only("x_kickstart_file", k.file)["x_kickstart_file"] = k.file
      /\ Only("x_kickstart_file", k.sum)["x_kickstart_file"] = k.sum
  BY DEF Only
<1> HIDE DEF sum
<1> QED BY <1>1, <1>2, KeyKinds DEF Fits

(* And so does LauncherConfig.load, with the checksums it computes. *)
LEMMA LoadKeeps ==
    ASSUME IInv, NEW file \in ConfigFiles, LoadFile(file)
    PROVE  ConfOK'
<1> DEFINE k == KickstartOf(file["amiga_model"], file["kickstart_file"], None)
           fixed(f, sum) == IF sum = None /\ f \in Summed THEN f ELSE sum
           values == [key \in Keys |-> IF key = "x_kickstart_file" THEN k.file ELSE file[key]]
           given == [key \in SumKeys |-> fixed(values[key], IF key \in Media THEN None ELSE k.sum)]
           named == file["kickstart_file"]
<1>1. /\ file["amiga_model"] \in ModelNames \cup {Unset}
      /\ named \in OwnRoms \cup {None, Internal}
      /\ \A key \in Media : file[key] \in Paths
  BY ModelValueKind, ConfigurationAssumption DEF Paths
<1>2. None # Internal
  BY DEF None, Internal
<1>3. /\ RomSum(k.file, k.sum)
      /\ IF named \in {None, Internal} THEN k.sum # None ELSE k.file = named /\ k.sum = None
  <2>1. CASE named = Internal
    BY <1>2, <2>1 DEF KickstartOf, RomSum, RomValues
  <2>2. CASE named \notin {None, Internal}
    <3>1. k = [file |-> named, sum |-> None]
      BY <2>2 DEF KickstartOf
    <3> QED BY <1>1, <2>2, <3>1 DEF RomSum, RomValues
  <2>3. CASE named = None /\ Known(Model(file["amiga_model"])) # {}
    <3>1. BestRom(Model(file["amiga_model"])) \in Roms
      BY <2>3, BestRomKind, Parts
    <3>2. k = [file |-> BestRom(Model(file["amiga_model"])), sum |-> BestRom(Model(file["amiga_model"]))]
      BY <1>2, <2>3 DEF KickstartOf
    <3>3. None \notin Roms
      BY ConfigurationAssumption
    <3> QED BY <2>3, <3>1, <3>2, <3>3 DEF RomSum, RomValues
  <2>4. CASE named = None /\ Known(Model(file["amiga_model"])) = {}
    <3>1. k = [file |-> None, sum |-> Internal]
      BY <1>2, <2>4 DEF KickstartOf
    <3> QED BY <1>2, <2>4, <3>1 DEF RomSum, RomValues
  <2> QED BY <2>1, <2>2, <2>3, <2>4
<1> HIDE DEF k
<1>4. /\ values["amiga_model"] = file["amiga_model"] /\ values["kickstart_file"] = named
      /\ values["x_kickstart_file"] = k.file
      /\ \A key \in Media : values[key] = file[key]
  BY KeyKinds
<1>5. \A key \in Media : given[key] = fixed(file[key], None)
  BY <1>4, KeyKinds
<1>6. given["x_kickstart_file"] = fixed(k.file, k.sum)
  BY <1>4, KeyKinds
<1>7. fixed(k.file, k.sum) \in {k.file, k.sum} /\ (k.sum # None => fixed(k.file, k.sum) = k.sum)
  OBVIOUS
<1>8. \A key \in Media : fixed(file[key], None) \in {None, file[key]}
  OBVIOUS
<1>9. DOMAIN values = Keys /\ DOMAIN given = SumKeys
  OBVIOUS
<1>10. None \in Paths
  BY DEF Paths
<1>11. <<Call("loaded")>> \in Seq(Calls)
  BY CallsMade, Single
<1>12. Assign(values, given, <<Call("loaded")>>)
  BY DEF LoadFile, k
<1> HIDE DEF values, given, fixed, named
<1>13. Fits(values, given)
  <2>1. /\ RomSum(values["x_kickstart_file"], given["x_kickstart_file"])
        /\ named \notin {None, Internal} /\ given["x_kickstart_file"] # None
              => given["x_kickstart_file"] = named /\ values["x_kickstart_file"] = named
    BY <1>3, <1>4, <1>6, <1>7 DEF RomSum
  <2>2. values["kickstart_file"] \in RomValues
    BY <1>1, <1>4 DEF RomValues
  <2>3. \A key \in Media : /\ values[key] \in Paths /\ given[key] \in Paths
                            /\ given[key] \in {None, values[key]}
    BY <1>1, <1>4, <1>5, <1>8, <1>10
  <2> QED BY <1>1, <1>4, <1>9, <2>1, <2>2, <2>3, KeyKinds DEF Fits
<1> QED BY <1>11, <1>12, <1>13, AssignKeeps

-----------------------------------------------------------------------------
(* The lists of media: an item is empty or what one of the keys holds. *)
ItemOK(item) == item.file \in Paths /\ item.sum \in Paths /\ item.sum \in {None, item.file}

LEMMA NthKind ==
    ASSUME IInv, NEW list \in {FloppyList, CDList}, NEW n
    PROVE  ItemOK(Nth(list, n))
<1>1. None \in Paths
  BY DEF Paths
<1>2. CASE NthUsed(list, n) = {}
  <2>1. Nth(list, n) = [file |-> None, sum |-> None]
    BY <1>2 DEF Nth, Item
  <2> QED BY <1>1, <2>1 DEF ItemOK
<1>3. CASE NthUsed(list, n) # {}
  <2> DEFINE key == list[CHOOSE i \in NthUsed(list, n) : TRUE]
  <2>1. (CHOOSE i \in NthUsed(list, n) : TRUE) \in DOMAIN list
    BY <1>3 DEF NthUsed, Used
  <2>2. key \in Media
    BY <2>1, MediaKeys
  <2>3. Nth(list, n) = [file |-> conf[key], sum |-> sums[key]]
    BY <1>3 DEF Nth, Item
  <2> HIDE DEF key
  <2> QED BY <2>2, <2>3 DEF ItemOK, IInv, TypeOK, ChecksumTrue
<1> QED BY <1>2, <1>3

LEMMA ListKeeps ==
    ASSUME IInv, NEW list \in {FloppyList, CDList}, NEW items,
           \A n \in DOMAIN list : ItemOK(items[n]),
           SetNewConfig(list, items)
    PROVE  ConfOK'
<1> DEFINE item(key) == items[CHOOSE i \in DOMAIN list : list[i] = key]
           values == [key \in RangeOf(list) |-> item(key).file]
           given == [key \in RangeOf(list) |-> item(key).sum]
<1>1. \A key \in RangeOf(list) : ItemOK(item(key))
  <2> SUFFICES ASSUME NEW key \in RangeOf(list)
               PROVE  ItemOK(item(key))
    OBVIOUS
  <2>1. (CHOOSE i \in DOMAIN list : list[i] = key) \in DOMAIN list
    BY DEF RangeOf
  <2> QED BY <2>1
<1>2. RangeOf(list) \subseteq Media
  BY MediaKeys
<1>3. Assign(values, given, <<>>)
  BY DEF SetNewConfig
<1>4. <<>> \in Seq(Calls)
  OBVIOUS
<1> HIDE DEF item
<1>5. /\ values \in [RangeOf(list) -> Paths] /\ given \in [RangeOf(list) -> Paths]
      /\ \A key \in RangeOf(list) : given[key] \in {None, values[key]}
  BY <1>1 DEF ItemOK
<1> HIDE DEF values, given
<1>6. Fits(values, given)
  BY <1>2, <1>5, FilesFit
<1> QED BY <1>3, <1>4, <1>6, AssignKeeps

LEMMA EmptyEachKind ==
    ASSUME NEW keys \in Seq(Media)
    PROVE  EmptyEach(keys) \in Seq(Calls)
<1>1. \A i \in 1..Len(keys) : Empty({keys[i]}) \in Calls
  <2> SUFFICES ASSUME NEW i \in 1..Len(keys)
               PROVE  Empty({keys[i]}) \in Calls
    OBVIOUS
  <2>1. {keys[i]} \in SUBSET Media
    OBVIOUS
  <2>2. None \in Paths
    BY DEF Paths
  <2> QED BY <2>1, <2>2, CallsMade
<1>2. EmptyEach(keys) = [i \in 1..Len(keys) |-> Empty({keys[i]})]
  BY DEF EmptyEach
<1> QED BY <1>1, <1>2

(* The calls that put the chosen files into the drives and the list. *)
Selected(drives, list, n, files, given) ==
    [j \in 1..2 * n |->
       Put(IF j % 2 = 0 THEN {list[j \div 2]}
           ELSE IF (j + 1) \div 2 \in DOMAIN drives THEN {drives[(j + 1) \div 2]} ELSE {},
           files[(j + 1) \div 2], given[(j + 1) \div 2])]

LEMMA SelectKind ==
    ASSUME NEW drives \in Seq(Media), NEW list \in Seq(Media), NEW n \in DOMAIN list,
           NEW files \in [1..n -> Files], NEW sums1 \in [1..n -> Paths],
           \A i \in 1..n : sums1[i] \in {None, files[i]}
    PROVE  Selected(drives, list, n, files, sums1) \in Seq(Calls)
<1> DEFINE slot(j) == IF j % 2 = 0 THEN {list[j \div 2]}
                      ELSE IF (j + 1) \div 2 \in DOMAIN drives THEN {drives[(j + 1) \div 2]} ELSE {}
<1>1. n \in Nat /\ n <= Len(list)
  OBVIOUS
<1>2. \A j \in 1..2 * n : slot(j) \in SUBSET Media /\ (j + 1) \div 2 \in 1..n
  <2> SUFFICES ASSUME NEW j \in 1..2 * n
               PROVE  slot(j) \in SUBSET Media /\ (j + 1) \div 2 \in 1..n
    OBVIOUS
  <2>1. (j + 1) \div 2 \in 1..n
    BY <1>1
  <2>2. CASE j % 2 = 0
    <3>1. j \div 2 \in 1..Len(list)
      BY <1>1, <2>2
    <3> QED BY <2>1, <2>2, <3>1
  <2>3. CASE j % 2 # 0
    BY <2>1, <2>3
  <2> QED BY <2>2, <2>3
<1> HIDE DEF slot
<1>3. \A j \in 1..2 * n : Put(slot(j), files[(j + 1) \div 2], sums1[(j + 1) \div 2]) \in Calls
  <2> SUFFICES ASSUME NEW j \in 1..2 * n
               PROVE  Put(slot(j), files[(j + 1) \div 2], sums1[(j + 1) \div 2]) \in Calls
    OBVIOUS
  <2>1. /\ files[(j + 1) \div 2] \in Paths
        /\ sums1[(j + 1) \div 2] \in {None, files[(j + 1) \div 2]}
    BY <1>2 DEF Paths
  <2> HIDE DEF Put
  <2> QED BY <1>2, <2>1, CallsMade
<1>4. 2 * n \in Nat
  BY <1>1
<1>5. [j \in 1..2 * n |-> Put(slot(j), files[(j + 1) \div 2], sums1[(j + 1) \div 2])] \in Seq(Calls)
  <2> DEFINE calls == [j \in 1..2 * n |->
                         Put(slot(j), files[(j + 1) \div 2], sums1[(j + 1) \div 2])]
  <2>1. calls \in [1..2 * n -> Calls]
    BY <1>3, Zenon
  <2> HIDE DEF calls
  <2>2. \A m \in Nat : \A f \in [1..m -> Calls] : f \in Seq(Calls)
    OBVIOUS
  <2>3. calls \in Seq(Calls)
    BY <1>4, <2>1, <2>2, Zenon
  <2> QED BY <2>3 DEF calls
<1> QED BY <1>5, Zenon DEF slot, Selected

-----------------------------------------------------------------------------
LEMMA StepKeeps ==
    ASSUME IInv, Step
    PROVE  IInv'
<1> USE DEF Calling
<1> DEFINE c == Head(todo)
<1>1. ConfOK /\ OthersOK /\ TypeOK
  BY Parts DEF IInv
<1>2. ~Idle => c \in Calls /\ Rest \in Seq(Calls)
  BY <1>1, Caller
<1>3. changed \in {None, No, Yes} /\ dirty \in BOOLEAN
  BY <1>1 DEF ConfOK
<1>4. CASE Notify
  <2>1. Rest \in Seq(Calls) /\ ~Idle /\ c.key \in {"amiga_model", "kickstart_file"}
    BY <1>2, <1>4, CallKinds DEF Notify
  <2>2. RomType(conf["kickstart_file"]) \in RomTypes
    BY DEF RomType, RomTypes
  <2>3. /\ [do |-> "show model", model |-> conf["amiga_model"]] \in Calls
        /\ Call("update kickstart") \in Calls
        /\ ChooseRom(RomType(conf["kickstart_file"])) \in Calls
    BY <1>1, <2>2, CallsMade DEF ConfOK
  <2>4. todo' \in Seq(Calls)
    <3>1. /\ <<[do |-> "show model", model |-> conf["amiga_model"]], Call("update kickstart")>> \o Rest
                \in Seq(Calls)
          /\ <<ChooseRom(RomType(conf["kickstart_file"]))>> \o Rest \in Seq(Calls)
      BY <2>1, <2>3, Before
    <3> QED BY <1>4, <3>1 DEF Notify
  <2> QED BY <1>1, <1>3, <1>4, <2>4, CallKeeps, PartsNext DEF Notify, OthersOK
<1>5. CASE UpdateKickstart
  <2> DEFINE k == KickstartOf(conf["amiga_model"], conf["kickstart_file"], sums["x_kickstart_file"])
  <2>1. Rest \in Seq(Calls)
    BY <1>2, <1>5 DEF UpdateKickstart
  <2>2. Assign(Only("x_kickstart_file", k.file), Only("x_kickstart_file", k.sum), Rest)
    BY <1>5 DEF UpdateKickstart, SetFile
  <2> HIDE DEF k
  <2>3. Fits(Only("x_kickstart_file", k.file), Only("x_kickstart_file", k.sum))
    BY KickstartFits DEF k
  <2>4. ConfOK'
    BY <2>1, <2>2, <2>3, AssignKeeps
  <2> QED BY <1>1, <1>5, <2>4, PartsNext DEF UpdateKickstart, OthersOK
<1>6. CASE ShowModel
  <2> DEFINE shown == Shown(c.model)
  <2>1. Rest \in Seq(Calls)
    BY <1>2, <1>6 DEF ShowModel
  <2>2. shown[1] \in Mains /\ shown[2] \in STRING /\ SubModels[shown[1]][1] \in STRING
    BY ShownKinds, FirstSubModel
  <2> HIDE DEF shown
  <2>3. todo' \in Seq(Calls)
    <3>1. /\ ChooseMain(shown[1]) \in Calls /\ ChooseSub(shown[2]) \in Calls
          /\ Call("updated") \in Calls
      BY <2>2, CallsMade
    <3>2. todo' = <<ChooseMain(shown[1]), ChooseSub(shown[2]), Call("updated")>> \o Rest
      BY <1>6 DEF ShowModel, shown
    <3> QED BY <2>1, <3>1, <3>2, Before
  <2>4. screen' \in [main : Mains, sub : STRING, rom : RomTypes, updating : BOOLEAN]
    <3>1. \E sub \in STRING : screen' = [screen EXCEPT !.updating = TRUE, !.sub = sub]
      BY <1>1, <1>6, <2>2 DEF ShowModel, shown, OthersOK
    <3> QED BY <1>1, <3>1 DEF OthersOK
  <2> QED BY <1>1, <1>3, <1>6, <2>3, <2>4, CallKeeps, PartsNext DEF ShowModel, OthersOK
<1>7. CASE Updated
  BY <1>1, <1>2, <1>3, <1>7, CallKeeps, PartsNext DEF Updated, OthersOK
<1>8. CASE AlreadyShown
  BY <1>1, <1>2, <1>3, <1>8, CallKeeps, PartsNext DEF AlreadyShown, OthersOK
<1>9. CASE OnModelChanged
  <2>1. Rest \in Seq(Calls) /\ c.main \in Mains
    BY <1>2, <1>9, CallKinds DEF OnModelChanged
  <2>2. ValueOf(c.main) \in ModelNames \cup {Unset}
    BY <2>1, PlainKind DEF ValueOf, ModelNames
  <2>3. Fits(Only("amiga_model", ValueOf(c.main)), <<>>)
    BY <2>2, KeyKinds, OneFits
  <2>4. ConfOK'
    BY <1>9, <2>1, <2>3, AssignKeeps DEF OnModelChanged, SetOne
  <2> QED BY <1>1, <1>9, <2>1, <2>4, PartsNext DEF OnModelChanged, OthersOK
<1>10. CASE OnSubModelChanged
  <2>1. Rest \in Seq(Calls) /\ c.sub \in STRING
    BY <1>2, <1>10, CallKinds DEF OnSubModelChanged
  <2>2. ConfOK'
    <3>1. CASE screen.updating
      BY <1>3, <1>10, <2>1, <3>1, CallKeeps DEF OnSubModelChanged
    <3>2. CASE ~screen.updating
      <4>1. <<screen.main, c.sub>> \in ModelNames
        BY <1>1, <2>1 DEF OthersOK, ModelNames
      <4>2. Fits(Only("amiga_model", <<screen.main, c.sub>>), <<>>)
        BY <4>1, KeyKinds, OneFits
      <4>3. <<Call("clear media")>> \o Rest \in Seq(Calls)
        BY <2>1, CallsMade, Before
      <4> QED BY <1>10, <3>2, <4>2, <4>3, AssignKeeps DEF OnSubModelChanged, SetOne
    <3> QED BY <3>1, <3>2
  <2> QED BY <1>1, <1>10, <2>1, <2>2, PartsNext DEF OnSubModelChanged, OthersOK
<1>11. CASE ClearMedia
  <2>1. Rest \in Seq(Calls)
    BY <1>2, <1>11 DEF ClearMedia
  <2>2. None \in Paths
    BY DEF Paths
  <2>3. /\ EmptyEach(FloppyDrives) \in Seq(Calls) /\ Empty(RangeOf(FloppyList)) \in Calls
        /\ Empty({CDDrives[1]}) \in Calls /\ Empty(RangeOf(CDList)) \in Calls
    <3>1. CDDrives[1] \in Media
      BY MediaKeys, ConfigurationAssumption
    <3> QED BY <2>2, <3>1, MediaKeys, EmptyEachKind, CallsMade
  <2>4. /\ Append(EmptyEach(FloppyDrives), Empty(RangeOf(FloppyList))) \in Seq(Calls)
        /\ <<Empty({CDDrives[1]}), Empty(RangeOf(CDList))>> \in Seq(Calls)
    BY <2>3, AppendProperties
  <2>5. todo' \in Seq(Calls)
    BY <1>11, <2>1, <2>4, ConcatProperties DEF ClearMedia
  <2> QED BY <1>1, <1>3, <1>11, <2>5, CallKeeps, PartsNext DEF ClearMedia, OthersOK
<1>12. CASE DoPut
  <2>1. /\ Rest \in Seq(Calls) /\ c.keys \in SUBSET Media /\ c.file \in Paths
        /\ c.sum \in Paths /\ c.sum \in {None, c.file}
    BY <1>2, <1>12, CallKinds DEF DoPut
  <2>2. Fits([k \in c.keys |-> c.file], [k \in c.keys |-> c.sum])
    BY <2>1, FilesFit
  <2>3. ConfOK'
    BY <1>12, <2>1, <2>2, AssignKeeps DEF DoPut
  <2> QED BY <1>1, <1>12, <2>3, PartsNext DEF DoPut, OthersOK
<1>13. CASE OnKickstartTypeChanged
  <2>1. Rest \in Seq(Calls) /\ c.type \in RomTypes
    BY <1>2, <1>13, CallKinds DEF OnKickstartTypeChanged
  <2>2. <<Call("update kickstart")>> \o Rest \in Seq(Calls)
    BY <2>1, CallsMade, Before
  <2>3. ConfOK'
    <3>1. CASE c.type # "custom" /\ c.type = RomType(conf["kickstart_file"])
      BY <1>3, <1>13, <2>1, <3>1, CallKeeps DEF OnKickstartTypeChanged
    <3>2. CASE ~(c.type # "custom" /\ c.type = RomType(conf["kickstart_file"]))
      <4> DEFINE value == CASE c.type = "default" -> None
                            [] c.type = "internal" -> Internal
                            [] OTHER -> conf["x_kickstart_file"]
      <4>1. value \in RomValues
        BY <1>1, <2>1 DEF ConfOK, RomTypes, RomValues
      <4>2. SetOne("kickstart_file", value, <<Call("update kickstart")>> \o Rest)
        BY <1>13, <3>2 DEF OnKickstartTypeChanged
      <4> HIDE DEF value
      <4>3. Fits(Only("kickstart_file", value), <<>>)
        BY <4>1, KeyKinds, OneFits
      <4> QED BY <2>2, <4>2, <4>3, AssignKeeps DEF SetOne
    <3> QED BY <3>1, <3>2
  <2> QED BY <1>1, <1>13, <2>1, <2>3, PartsNext DEF OnKickstartTypeChanged, OthersOK
<1>14. CASE MarkLoaded
  BY <1>1, <1>2, <1>3, <1>14, CallKeeps, PartsNext DEF MarkLoaded, Marked, OthersOK
<1> QED BY <1>4, <1>5, <1>6, <1>7, <1>8, <1>9, <1>10, <1>11, <1>12, <1>13, <1>14 DEF Step

LEMMA ClickKeeps ==
    ASSUME IInv, PickChoice
    PROVE  ConfOK'
<1>1. changed \in {None, No, Yes} /\ dirty \in BOOLEAN /\ screen.main \in Mains
  BY Parts DEF ConfOK, OthersOK
<1>2. \E a \in Calls : Start(<<a>>)
  <2>1. CASE \E main \in Mains : Start(<<ChooseMain(main)>>)
    BY <2>1, CallsMade
  <2>2. CASE \E sub \in RangeOf(SubModels[screen.main]) : Start(<<ChooseSub(sub)>>)
    <3>1. PICK sub \in RangeOf(SubModels[screen.main]) : Start(<<ChooseSub(sub)>>)
      BY <2>2
    <3>2. sub \in STRING
      BY <1>1, ConfigurationAssumption DEF RangeOf
    <3> QED BY <3>1, <3>2, CallsMade
  <2>3. CASE \E type \in {"default", "custom", "internal"} : Start(<<ChooseRom(type)>>)
    <3>1. PICK type \in RomTypes : Start(<<ChooseRom(type)>>)
      BY <2>3 DEF RomTypes
    <3> QED BY <3>1, CallsMade
  <2> QED BY <2>1, <2>2, <2>3 DEF PickChoice
<1>3. PICK a \in Calls : Start(<<a>>)
  BY <1>2
<1>4. <<a>> \in Seq(Calls)
  OBVIOUS
<1> QED BY <1>1, <1>3, <1>4, CallKeeps DEF Start

(* Calls that put files into drives and lists. *)
Puts(calls) == \A i \in DOMAIN calls : calls[i].do = "put"

LEMMA EmptyEachPuts == \A keys : Puts(EmptyEach(keys))
  BY DEF EmptyEach, Empty, Put, Puts

LEMMA SelectCalls ==
    ASSUME NEW drives \in {FloppyDrives, CDDrives}, NEW list \in {FloppyList, CDList},
           NEW n \in DOMAIN list, NEW files \in [1..n -> Files], MultiSelect(drives, list, files)
    PROVE  \E a, b, c \in Seq(Calls) : Puts(a) /\ Puts(b) /\ Puts(c) /\ Start(a \o b \o c)
<1> DEFINE sum(file) == IF list = FloppyList THEN file ELSE None
           slot(j) == IF j % 2 = 0 THEN {list[j \div 2]}
                      ELSE IF (j + 1) \div 2 \in DOMAIN drives THEN {drives[(j + 1) \div 2]} ELSE {}
           sums1 == [i \in 1..n |-> sum(files[i])]
           selected == Selected(drives, list, n, files, sums1)
           emptied(keys) == EmptyEach(SubSeq(keys, n + 1, Len(keys)))
<1>1. /\ drives \in Seq(Media) /\ list \in Seq(Media)
      /\ n \in Nat
  BY MediaKeys
<1>2. Len(files) = n
  BY <1>1
<1>3. sums1 \in [1..n -> Paths] /\ \A i \in 1..n : sums1[i] \in {None, files[i]}
  BY DEF Paths
<1>4. \A j \in 1..2 * n : sums1[(j + 1) \div 2] = sum(files[(j + 1) \div 2])
  <2> SUFFICES ASSUME NEW j \in 1..2 * n
               PROVE  sums1[(j + 1) \div 2] = sum(files[(j + 1) \div 2])
    OBVIOUS
  <2>1. (j + 1) \div 2 \in 1..n
    BY <1>1
  <2> QED BY <2>1
<1> HIDE DEF sums1
<1>5. selected \in Seq(Calls)
  BY <1>1, <1>3, SelectKind
<1>6. emptied(drives) \in Seq(Calls) /\ emptied(list) \in Seq(Calls)
  <2>1. \A keys \in Seq(Media) : SubSeq(keys, n + 1, Len(keys)) \in Seq(Media)
    BY <1>1, SubSeqProperties
  <2> QED BY <1>1, <2>1, EmptyEachKind
<1> HIDE DEF slot, emptied
<1>7. Start([j \in 1..2 * n |-> Put(slot(j), files[(j + 1) \div 2], sum(files[(j + 1) \div 2]))]
              \o emptied(drives) \o emptied(list))
  BY <1>2 DEF MultiSelect, slot, emptied
<1>8. selected = [j \in 1..2 * n |-> Put(slot(j), files[(j + 1) \div 2], sum(files[(j + 1) \div 2]))]
  BY <1>4, Zenon DEF Selected, slot
<1>9. Puts(selected)
  BY DEF selected, Selected, Put, Puts
<1>10. Puts(emptied(drives)) /\ Puts(emptied(list))
  BY EmptyEachPuts DEF emptied
<1> HIDE DEF selected, sum
<1>11. Start(selected \o emptied(drives) \o emptied(list))
  BY <1>7, <1>8
<1> QED BY <1>5, <1>6, <1>9, <1>10, <1>11

LEMMA SelectKeeps ==
    ASSUME IInv, NEW drives \in {FloppyDrives, CDDrives}, NEW list \in {FloppyList, CDList},
           NEW n \in DOMAIN list, NEW files \in [1..n -> Files], MultiSelect(drives, list, files)
    PROVE  ConfOK'
<1>1. PICK a, b, c \in Seq(Calls) : Start(a \o b \o c)
  BY SelectCalls
<1>2. todo' = a \o b \o c /\ UNCHANGED <<conf, sums, changed, dirty>>
  BY <1>1 DEF Start
<1>3. todo' \in Seq(Calls)
  BY <1>2, ConcatProperties
<1> QED BY <1>2, <1>3, CallKeeps, Parts DEF ConfOK

LEMMA EditKeeps ==
    ASSUME IInv, Edit
    PROVE  ConfOK'
<1> DEFINE drives == RangeOf(FloppyDrives) \cup RangeOf(CDDrives)
<1>1. changed \in {None, No, Yes} /\ dirty \in BOOLEAN
  BY Parts DEF ConfOK
<1>2. <<>> \in Seq(Calls) /\ None \in Paths
  BY DEF Paths
<1>3. CASE PickChoice
  BY <1>3, ClickKeeps
<1>4. CASE Save
  <2>1. changed' \in {None, No, Yes} /\ dirty' = TRUE /\ UNCHANGED <<conf, sums, todo>>
    BY <1>1, <1>4 DEF Save, Marked
  <2> QED BY <2>1, CallKeeps, Parts DEF ConfOK
<1>5. CASE \E rom \in OwnRoms : BrowseKickstart(rom)
  <2>1. PICK rom \in OwnRoms : BrowseKickstart(rom)
    BY <1>5
  <2> DEFINE values == [k \in {"kickstart_file", "x_kickstart_file"} |-> rom]
  <2>2. rom \in RomValues /\ rom \notin {None, Internal}
    BY ConfigurationAssumption DEF RomValues
  <2>3. /\ DOMAIN Only("x_kickstart_file", rom) = {"x_kickstart_file"}
        /\ Only("x_kickstart_file", rom)["x_kickstart_file"] = rom
    BY DEF Only
  <2>4. /\ DOMAIN values = {"kickstart_file", "x_kickstart_file"}
        /\ values["kickstart_file"] = rom /\ values["x_kickstart_file"] = rom
    OBVIOUS
  <2>5. Assign(values, Only("x_kickstart_file", rom), <<>>)
    BY <2>1 DEF BrowseKickstart
  <2> HIDE DEF values
  <2>6. Fits(values, Only("x_kickstart_file", rom))
    BY <2>2, <2>3, <2>4, KeyKinds DEF Fits, RomSum
  <2> QED BY <1>2, <2>5, <2>6, AssignKeeps
<1>6. CASE \E drive \in drives : \E file \in FilesFor(drive) \cup {None} : ChangeDrive(drive, file)
  <2>1. PICK drive \in drives : \E file \in FilesFor(drive) \cup {None} : ChangeDrive(drive, file)
    BY <1>6
  <2>2. PICK file \in FilesFor(drive) \cup {None} : ChangeDrive(drive, file)
    BY <2>1
  <2> DEFINE sum == IF drive \in FloppyKeys THEN file ELSE None
  <2>3. drive \in Media /\ file \in Paths /\ sum \in {None, file}
    BY <2>2, MediaKeys, FilesForKey
  <2>4. Assign(Only(drive, file), Only(drive, sum), <<>>)
    BY <2>2 DEF ChangeDrive, SetFile
  <2> HIDE DEF sum
  <2>5. Fits(Only(drive, file), Only(drive, sum))
    BY <2>3, FileFits
  <2> QED BY <1>2, <2>4, <2>5, AssignKeeps
<1>7. CASE \E n \in DOMAIN FloppyList : InsertFromList(n)
  <2>1. PICK n \in DOMAIN FloppyList : InsertFromList(n)
    BY <1>7
  <2> DEFINE key == FloppyList[n]
  <2>2. PICK i \in Free : SetFile(FloppyDrives[i], conf[key], sums[key], <<>>)
    BY <2>1 DEF InsertFromList
  <2>3. FloppyDrives[i] \in Media /\ key \in Media
    BY MediaKeys DEF Free
  <2>4. conf[key] \in Paths /\ sums[key] \in {None, conf[key]}
    BY <2>3, Parts DEF ConfOK, ChecksumTrue
  <2>5. Fits(Only(FloppyDrives[i], conf[key]), Only(FloppyDrives[i], sums[key]))
    BY <2>3, <2>4, FileFits
  <2> QED BY <1>2, <2>2, <2>5, AssignKeeps DEF SetFile
<1>8. CASE \E list \in {FloppyList, CDList} : \E file \in FilesFor(list[1]) : AddToList(list, file)
  <2>1. PICK list \in {FloppyList, CDList} : \E file \in FilesFor(list[1]) : AddToList(list, file)
    BY <1>8
  <2>2. PICK file \in FilesFor(list[1]) : AddToList(list, file)
    BY <2>1
  <2> DEFINE items == [n \in DOMAIN list |->
                         IF n = Cardinality(Used(list)) + 1 THEN Item(file, file) ELSE Nth(list, n)]
  <2>3. ItemOK(Item(file, file))
    BY FilesForKey DEF Item, ItemOK
  <2>4. \A n \in DOMAIN list : ItemOK(items[n])
    BY <2>3, NthKind
  <2>5. SetNewConfig(list, items)
    BY <2>2 DEF AddToList
  <2> QED BY <2>4, <2>5, ListKeeps
<1>9. CASE \E list \in {FloppyList, CDList} : \E i \in DOMAIN list : RemoveFromList(list, i)
  <2>0. PICK list \in {FloppyList, CDList} : \E i \in DOMAIN list : RemoveFromList(list, i)
    BY <1>9
  <2>1. PICK i \in DOMAIN list : RemoveFromList(list, i)
    BY <2>0
  <2> DEFINE items == [n \in DOMAIN list |-> Nth(list, IF n < i THEN n ELSE n + 1)]
  <2>2. \A n \in DOMAIN list : ItemOK(items[n])
    BY NthKind
  <2>3. SetNewConfig(list, items)
    BY <2>1 DEF RemoveFromList
  <2> QED BY <2>2, <2>3, ListKeeps
<1>10. CASE \E list \in {FloppyList, CDList} : ClearList(list)
  <2>1. PICK list \in {FloppyList, CDList} : ClearList(list)
    BY <1>10
  <2>2. <<Empty(RangeOf(list))>> \in Seq(Calls)
    <3>1. Empty(RangeOf(list)) \in Calls
      BY <1>2, MediaKeys, CallsMade
    <3> QED BY <3>1
  <2> QED BY <1>1, <2>1, <2>2, CallKeeps DEF ClearList, Start
<1>11. CASE \E n \in DOMAIN FloppyList : \E files \in [1..n -> Disks] :
               MultiSelect(FloppyDrives, FloppyList, files)
  <2>1. PICK n \in DOMAIN FloppyList : \E files \in [1..n -> Disks] :
               MultiSelect(FloppyDrives, FloppyList, files)
    BY <1>11
  <2>2. PICK files \in [1..n -> Disks] : MultiSelect(FloppyDrives, FloppyList, files)
    BY <2>1
  <2>3. files \in [1..n -> Files]
    BY DEF Files
  <2> QED BY <2>2, <2>3, SelectKeeps
<1>12. CASE \E n \in DOMAIN CDList : \E files \in [1..n -> CDs] :
               MultiSelect(CDDrives, CDList, files)
  <2>1. PICK n \in DOMAIN CDList : \E files \in [1..n -> CDs] : MultiSelect(CDDrives, CDList, files)
    BY <1>12
  <2>2. PICK files \in [1..n -> CDs] : MultiSelect(CDDrives, CDList, files)
    BY <2>1
  <2>3. files \in [1..n -> Files]
    BY DEF Files
  <2> QED BY <2>2, <2>3, SelectKeeps
<1>13. CASE \/ \E model \in ModelValues : WriteOption("amiga_model", model)
            \/ \E rom \in OwnRoms \cup {None, Internal} : WriteOption("kickstart_file", rom)
            \/ \E key \in Media : \E file \in FilesFor(key) \cup {None} : WriteOption(key, file)
  <2>1. \E key \in Keys \ {"x_kickstart_file"} : \E value :
           /\ key = "amiga_model" => value \in ModelNames \cup {Unset}
           /\ key = "kickstart_file" => value \in RomValues
           /\ key \in Media => value \in Paths
           /\ WriteOption(key, value)
    <3>1. CASE \E model \in ModelValues : WriteOption("amiga_model", model)
      BY <3>1, ModelValueKind, KeyKinds
    <3>2. CASE \E rom \in OwnRoms \cup {None, Internal} : WriteOption("kickstart_file", rom)
      BY <3>2, KeyKinds DEF RomValues
    <3>3. CASE \E key \in Media : \E file \in FilesFor(key) \cup {None} : WriteOption(key, file)
      <4>1. PICK key \in Media : \E file \in FilesFor(key) \cup {None} : WriteOption(key, file)
        BY <3>3
      <4>2. PICK file \in FilesFor(key) \cup {None} : WriteOption(key, file)
        BY <4>1
      <4>3. key \in Keys /\ key \notin {"amiga_model", "kickstart_file", "x_kickstart_file"}
        BY KeyKinds
      <4> QED BY <4>2, <4>3, FilesForKey
    <3> QED BY <1>13, <3>1, <3>2, <3>3
  <2>2. PICK key \in Keys \ {"x_kickstart_file"} : \E value :
           /\ key = "amiga_model" => value \in ModelNames \cup {Unset}
           /\ key = "kickstart_file" => value \in RomValues
           /\ key \in Media => value \in Paths
           /\ WriteOption(key, value)
    BY <2>1
  <2>3. PICK value :
           /\ key = "amiga_model" => value \in ModelNames \cup {Unset}
           /\ key = "kickstart_file" => value \in RomValues
           /\ key \in Media => value \in Paths
           /\ WriteOption(key, value)
    BY <2>2
  <2>4. Fits(Only(key, value), <<>>)
    BY <2>3, OneFits
  <2>5. changed' \in {None, No, Yes} /\ dirty' = TRUE
    BY <2>3 DEF WriteOption
  <2> QED BY <1>2, <2>3, <2>4, <2>5, SetKeeps DEF WriteOption
<1>14. CASE \E file \in ConfigFiles : LoadFile(file)
  BY <1>14, LoadKeeps
<1> QED
  BY <1>3, <1>4, <1>5, <1>6, <1>7, <1>8, <1>9, <1>10, <1>11, <1>12, <1>13, <1>14 DEF Edit

(* The player's turns leave the rest alone, but for what is counted. *)
LEMMA EditOthers ==
    ASSUME OthersOK, Edit
    PROVE  OthersOK'
<1>1. CASE PickChoice \/ Save
  BY <1>1 DEF PickChoice, Save, Turn, Others, OthersOK
<1>2. CASE \/ \E rom \in OwnRoms : BrowseKickstart(rom)
           \/ \E drive \in RangeOf(FloppyDrives) \cup RangeOf(CDDrives) :
                 \E file \in FilesFor(drive) \cup {None} : ChangeDrive(drive, file)
           \/ \E n \in DOMAIN FloppyList : InsertFromList(n)
  BY <1>2 DEF BrowseKickstart, ChangeDrive, InsertFromList, Turn, Others, OthersOK
<1>3. CASE \E list \in {FloppyList, CDList} :
              \/ \E file \in FilesFor(list[1]) : AddToList(list, file)
              \/ \E i \in DOMAIN list : RemoveFromList(list, i)
              \/ ClearList(list)
  <2>1. PICK list : \/ \E file \in FilesFor(list[1]) : AddToList(list, file)
                    \/ \E i \in DOMAIN list : RemoveFromList(list, i)
                    \/ ClearList(list)
    BY <1>3
  <2>2. Turn /\ UNCHANGED Others
    BY <2>1 DEF AddToList, RemoveFromList, ClearList
  <2> QED BY <2>2 DEF Turn, Others, OthersOK
<1>4. CASE \/ \E n \in DOMAIN FloppyList : \E files \in [1..n -> Disks] :
                 MultiSelect(FloppyDrives, FloppyList, files)
           \/ \E n \in DOMAIN CDList : \E files \in [1..n -> CDs] :
                 MultiSelect(CDDrives, CDList, files)
  <2>1. Turn /\ UNCHANGED Others
    BY <1>4 DEF MultiSelect
  <2> QED BY <2>1 DEF Turn, Others, OthersOK
<1>5. CASE \/ \E model \in ModelValues : WriteOption("amiga_model", model)
           \/ \E rom \in OwnRoms \cup {None, Internal} : WriteOption("kickstart_file", rom)
           \/ \E key \in Media : \E file \in FilesFor(key) \cup {None} : WriteOption(key, file)
  <2>1. \E key, value : WriteOption(key, value)
    BY <1>5
  <2> QED BY <2>1 DEF WriteOption, Turn, OthersOK
<1>6. CASE \E file \in ConfigFiles : LoadFile(file)
  <2>1. PICK file \in ConfigFiles : LoadFile(file)
    BY <1>6
  <2>2. Turn /\ typed' = FALSE /\ UNCHANGED <<screen, indexed, scanned, derived>>
    BY <2>1, Zenon DEF LoadFile
  <2>3. edits' \in Nat
    BY <2>2 DEF Turn, OthersOK
  <2>4. typed' \in BOOLEAN
    BY <2>2
  <2> QED BY <2>2, <2>3, <2>4, Zenon DEF OthersOK
<1> QED BY <1>1, <1>2, <1>3, <1>4, <1>5, <1>6 DEF Edit

LEMMA NextKeeps ==
    ASSUME IInv, [Next]_vars
    PROVE  IInv'
<1>1. ConfOK /\ OthersOK
  BY Parts
<1>2. CASE Step
  BY <1>2, StepKeeps
<1>3. CASE Edit
  BY <1>1, <1>3, EditKeeps, EditOthers, PartsNext
<1>4. CASE RomsScanned
  BY <1>1, <1>4, CallKeeps, PartsNext DEF RomsScanned, confVars, ConfOK, OthersOK
<1>5. CASE OnDone
  <2>1. <<Call("update kickstart")>> \in Seq(Calls)
    BY CallsMade, Single
  <2> QED BY <1>1, <1>5, <2>1, CallKeeps, PartsNext DEF OnDone, ConfOK, OthersOK
<1>6. CASE DoUpdate
  <2>1. derived' \in ModelNames
    BY <1>1, <1>6, ModelKind DEF DoUpdate, ConfOK
  <2> QED BY <1>1, <1>6, <2>1, CallKeeps, PartsNext DEF DoUpdate, ConfOK, OthersOK
<1>7. CASE UNCHANGED vars
  BY <1>1, <1>7, CallKeeps, PartsNext DEF vars, ConfOK, OthersOK
<1> QED BY <1>2, <1>3, <1>4, <1>5, <1>6, <1>7 DEF Next

LEMMA InitKeeps == Init => IInv
<1> SUFFICES ASSUME Init
             PROVE  ConfOK /\ OthersOK
  BY Parts
<1>1. /\ conf["amiga_model"] = Unset /\ conf["kickstart_file"] = None
      /\ conf["x_kickstart_file"] = None /\ sums["x_kickstart_file"] = Internal
      /\ \A key \in Media : conf[key] = None /\ sums[key] = None
  BY KeyKinds DEF Init
<1>2. ConfOK
  <2>1. DOMAIN conf = Keys /\ DOMAIN sums = SumKeys /\ todo \in Seq(Calls)
    BY DEF Init
  <2>2. changed \in {None, No, Yes} /\ dirty \in BOOLEAN
    BY DEF Init
  <2>3. None \in Paths /\ None \in RomValues /\ Internal \in RomValues
    BY DEF Paths, RomValues
  <2>4. ChecksumTrue /\ KickstartSum
    BY <1>1 DEF ChecksumTrue, KickstartSum
  <2> QED BY <1>1, <2>1, <2>2, <2>3, <2>4 DEF ConfOK
<1>3. OthersOK
  <2>1. screen \in [main : Mains, sub : STRING, rom : RomTypes, updating : BOOLEAN]
    BY PlainKind, ConfigurationAssumption DEF Init, RomTypes
  <2>2. derived \in ModelNames
    BY PlainKind, ConfigurationAssumption DEF Init, ModelNames
  <2> QED BY <2>1, <2>2 DEF Init, OthersOK
<1> QED BY <1>2, <1>3

LEMMA Invariant == Spec => []IInv
  BY InitKeeps, NextKeeps, PTL DEF Spec

(***************************************************************************)
(* The configuration, its checksums and the calls left to do keep their    *)
(* types.                                                                  *)
(***************************************************************************)
THEOREM ConfigurationTypeCorrect == Spec => []TypeOK
<1>1. IInv => TypeOK
  BY DEF IInv
<1> QED BY <1>1, Invariant, PTL

(***************************************************************************)
(* Whatever the player and the listeners set, and in whatever order the    *)
(* announcements go, no file has the checksum of another (Config.set,      *)
(* LauncherConfig.update_kickstart, MediaListGroup.set_new_config).        *)
(***************************************************************************)
THEOREM ChecksumsAreTrue == Spec => []ChecksumTrue
<1>1. IInv => ChecksumTrue
  BY DEF IInv
<1> QED BY <1>1, Invariant, PTL
-----------------------------------------------------------------------------
(***************************************************************************)
(* At rest.  While calls are left to do, the configuration and what        *)
(* follows it disagree, and only the calls say how that will end.  So the  *)
(* invariant says, for each thing that follows the configuration, which    *)
(* calls are left whenever the two disagree.                               *)
(***************************************************************************)
Told(key) == [do |-> "notify", key |-> key]
Showing(model) == [do |-> "show model", model |-> model]
Has(calls, c) == \E i \in DOMAIN calls : calls[i] = c

(* A call that does not concern the model, and calls of which none does. *)
Lull(c) == c # Told("amiga_model") /\ c.do \notin {"show model", "choose main", "choose sub"}
Calm(calls) == \A i \in DOMAIN calls : Lull(calls[i])

(* Of all calls only one concerns the model, and chooses sub; it comes     *)
(* before the end of a load.                                               *)
Later(calls, sub) ==
    \E j \in DOMAIN calls :
        /\ calls[j] = ChooseSub(sub)
        /\ \A i \in DOMAIN calls \ {j} : Lull(calls[i])
        /\ \A i \in 1..(j - 1) : calls[i] # Call("loaded")

(* A load that goes on is to end with the model of its file, if that is    *)
(* known; have is the model set, model the one that will be shown.         *)
Loading == Has(todo, Call("loaded"))
Aims(load, want, have, model) ==
    load /\ Model(want) \in Models => Model(have) \in Models /\ model = Model(want)
Aim(model) == Aims(Loading, stored["amiga_model"], conf["amiga_model"], model)

(* What may follow when a model has been shown: nothing, or the choice of  *)
(* the sub-model that goes with the main model set last.                   *)
Ends(calls, load, want, have, main) ==
    \/ Calm(calls) /\ Aims(load, want, have, Model(have))
    \/ /\ have = ValueOf(main)
       /\ \E sub \in RangeOf(SubModels[main]) :
             Later(calls, sub) /\ Aims(load, want, have, <<main, sub>>)
After(calls) == Ends(calls, Loading, stored["amiga_model"], conf["amiga_model"], screen.main)
Settled == <<screen.main, screen.sub>> = Shown(conf["amiga_model"])

(* How far the choices are with following the model. *)
Resting ==
    /\ Calm(todo) /\ Settled /\ Aim(Model(conf["amiga_model"]))
    /\ screen.updating => Has(todo, Call("updated"))
Telling ==
    /\ ~Idle /\ After(Rest)
    /\ Head(todo) \in {Told("amiga_model"), Showing(conf["amiga_model"])}
ChoosingBoth ==
    /\ ~Idle /\ Rest # <<>> /\ Tail(Rest) # <<>> /\ screen.updating
    /\ Head(todo) = ChooseMain(Shown(conf["amiga_model"])[1])
    /\ Head(Rest) = ChooseSub(Shown(conf["amiga_model"])[2])
    /\ Head(Tail(Rest)) = Call("updated") /\ After(Tail(Tail(Rest)))
ChoosingSub ==
    /\ ~Idle /\ Rest # <<>> /\ screen.updating
    /\ screen.main = Shown(conf["amiga_model"])[1]
    /\ Head(todo) = ChooseSub(Shown(conf["amiga_model"])[2])
    /\ Head(Rest) = Call("updated") /\ After(Tail(Rest))
ShownAll == ~Idle /\ Head(todo) = Call("updated") /\ Settled /\ After(Rest)
Picking ==
    /\ Settled /\ ~screen.updating
    /\ \E sub \in RangeOf(SubModels[screen.main]) : Later(todo, sub) /\ Aim(<<screen.main, sub>>)
Clicked == \E main \in Mains : todo = <<ChooseMain(main)>> /\ Settled /\ ~screen.updating

ModelFollows ==
    Resting \/ Telling \/ ChoosingBoth \/ ChoosingSub \/ ShownAll \/ Picking \/ Clicked

(* The same for the choice of the Kickstart, and for the ROM in use. *)
RomFollows ==
    \/ Has(todo, Told("kickstart_file"))
    \/ ~Idle /\ Head(todo) = ChooseRom(RomType(conf["kickstart_file"]))
    \/ screen.rom \in {"custom", RomType(conf["kickstart_file"])}
Least(S) == CHOOSE i \in S : \A j \in S : i <= j
RomFor(model, named, known) ==
    IF named = Internal THEN Internal ELSE IF named # None THEN named
    ELSE IF known # {} THEN DefaultRoms[model][Least(known)] ELSE None
RomInUse ==
    RomFor(Model(conf["amiga_model"]), conf["kickstart_file"], Known(Model(conf["amiga_model"])))
InUse ==
    \/ typed \/ scanned \/ Has(todo, Call("update kickstart")) \/ Has(todo, Told("amiga_model"))
    \/ conf["x_kickstart_file"] = RomInUse

(* No listener of a load chooses another Kickstart than the one loaded. *)
KickstartLoads ==
    Loading =>
        /\ conf["kickstart_file"] = stored["kickstart_file"]
        /\ conf["kickstart_file"] \notin {None, Internal} =>
              conf["x_kickstart_file"] = conf["kickstart_file"]
        /\ \A i \in DOMAIN todo :
              todo[i].do = "choose ROM" => todo[i].type = RomType(conf["kickstart_file"])

Derived == dirty \/ derived = Model(conf["amiga_model"])
SavedKept ==
    changed = No =>
        /\ Model(stored["amiga_model"]) \in Models =>
              Model(conf["amiga_model"]) = Model(stored["amiga_model"])
        /\ conf["kickstart_file"] = stored["kickstart_file"]

KickstartFollows == RomFollows /\ InUse /\ KickstartLoads
Follows == ModelFollows /\ KickstartFollows /\ Derived /\ SavedKept

-----------------------------------------------------------------------------
(* Calls before other calls. *)
LEMMA Pushed ==
    ASSUME NEW a \in Calls, NEW r \in Seq(Calls), NEW s, s = <<a>> \o r
    PROVE  /\ s # <<>> /\ Head(s) = a /\ Tail(s) = r /\ s \in Seq(Calls)
           /\ DOMAIN s = 1..(Len(r) + 1) /\ DOMAIN r = 1..Len(r) /\ Len(r) \in Nat
           /\ s[1] = a /\ \A i \in 1..Len(r) : s[i + 1] = r[i]
<1>1. <<a>> \in Seq(Calls) /\ Len(<<a>>) = 1 /\ <<a>>[1] = a
  OBVIOUS
<1>2. s \in Seq(Calls) /\ Len(s) = Len(r) + 1
  BY <1>1, ConcatProperties
<1>3. /\ Len(r) \in Nat /\ DOMAIN r = 1..Len(r) /\ DOMAIN s = 1..(Len(r) + 1)
      /\ s[1] = a /\ \A i \in 1..Len(r) : s[i + 1] = r[i]
  BY <1>1, <1>2, ConcatProperties
<1>4. s # <<>> /\ Head(s) = a
  BY <1>2, <1>3, EmptySeq, HeadTailProperties
<1>5. Tail(s) \in Seq(Calls) /\ Len(Tail(s)) = Len(r)
      /\ \A i \in 1..Len(r) : Tail(s)[i] = s[i + 1]
  BY <1>2, <1>3, <1>4, HeadTailProperties
<1>6. Tail(s) = r
  BY <1>3, <1>5, SeqEqual
<1> QED BY <1>2, <1>3, <1>4, <1>6

LEMMA Innermost ==
    ASSUME NEW s \in Seq(Calls), s # <<>>
    PROVE  s = <<Head(s)>> \o Tail(s) /\ Head(s) \in Calls /\ Tail(s) \in Seq(Calls)
<1>1. Head(s) \in Calls /\ Tail(s) \in Seq(Calls)
  BY HeadTailProperties
<1> DEFINE t == <<Head(s)>> \o Tail(s)
<1>2. /\ t \in Seq(Calls) /\ Len(t) = Len(s) /\ Len(s) \in Nat /\ t[1] = Head(s)
      /\ \A i \in 1..Len(Tail(s)) : t[i + 1] = Tail(s)[i]
  BY <1>1, Pushed, HeadTailProperties
<1>3. \A i \in 1..Len(s) : t[i] = s[i]
  <2> SUFFICES ASSUME NEW i \in 1..Len(s)
               PROVE  t[i] = s[i]
    OBVIOUS
  <2>1. CASE i = 1
    BY <1>2, <2>1, HeadTailProperties
  <2>2. CASE i # 1
    <3>1. i - 1 \in 1..Len(Tail(s))
      BY <1>2, <2>2, HeadTailProperties
    <3>2. t[i] = Tail(s)[i - 1] /\ Tail(s)[i - 1] = s[i]
      BY <1>2, <2>2, <3>1, HeadTailProperties
    <3> QED BY <3>2
  <2> QED BY <2>1, <2>2
<1> HIDE DEF t
<1>4. t = s
  BY <1>2, <1>3, SeqEqual
<1> QED BY <1>1, <1>4 DEF t

LEMMA PushedHas ==
    ASSUME NEW a \in Calls, NEW r \in Seq(Calls), NEW c
    PROVE  Has(<<a>> \o r, c) <=> a = c \/ Has(r, c)
<1> DEFINE s == <<a>> \o r
<1>1. /\ DOMAIN s = 1..(Len(r) + 1) /\ DOMAIN r = 1..Len(r) /\ Len(r) \in Nat
      /\ s[1] = a /\ \A i \in 1..Len(r) : s[i + 1] = r[i]
  BY Pushed
<1> HIDE DEF s
<1>2. a = c => Has(s, c)
  BY <1>1 DEF Has
<1>3. Has(r, c) => Has(s, c)
  <2>1. ASSUME NEW i \in DOMAIN r, r[i] = c PROVE Has(s, c)
    <3>1. i + 1 \in DOMAIN s /\ s[i + 1] = c
      BY <1>1, <2>1
    <3> QED BY <3>1 DEF Has
  <2> QED BY <2>1 DEF Has
<1>4. Has(s, c) => a = c \/ Has(r, c)
  <2>1. ASSUME NEW i \in DOMAIN s, s[i] = c, i # 1 PROVE Has(r, c)
    <3>1. i - 1 \in DOMAIN r /\ r[i - 1] = c
      BY <1>1, <2>1
    <3> QED BY <3>1 DEF Has
  <2> QED BY <1>1, <2>1 DEF Has
<1> QED BY <1>2, <1>3, <1>4 DEF s

LEMMA PushedCalm ==
    ASSUME NEW a \in Calls, NEW r \in Seq(Calls)
    PROVE  Calm(<<a>> \o r) <=> Lull(a) /\ Calm(r)
<1> DEFINE s == <<a>> \o r
<1>1. /\ DOMAIN s = 1..(Len(r) + 1) /\ DOMAIN r = 1..Len(r) /\ Len(r) \in Nat
      /\ s[1] = a /\ \A i \in 1..Len(r) : s[i + 1] = r[i]
  BY Pushed
<1> HIDE DEF s
<1>2. Calm(s) => Lull(a) /\ Calm(r)
  <2>1. \A i \in DOMAIN r : i + 1 \in DOMAIN s /\ s[i + 1] = r[i]
    BY <1>1
  <2> QED BY <1>1, <2>1 DEF Calm
<1>3. Lull(a) /\ Calm(r) => Calm(s)
  <2>1. \A i \in DOMAIN s : i = 1 \/ (i - 1 \in DOMAIN r /\ s[i] = r[i - 1])
    BY <1>1
  <2> QED BY <1>1, <2>1 DEF Calm
<1> QED BY <1>2, <1>3 DEF s

LEMMA PushedLater ==
    ASSUME NEW a \in Calls, NEW r \in Seq(Calls), NEW sub
    PROVE  Later(<<a>> \o r, sub) <=>
              \/ a = ChooseSub(sub) /\ Calm(r)
              \/ Lull(a) /\ a # Call("loaded") /\ Later(r, sub)
<1> DEFINE s == <<a>> \o r
<1>1. /\ DOMAIN s = 1..(Len(r) + 1) /\ DOMAIN r = 1..Len(r) /\ Len(r) \in Nat
      /\ s[1] = a /\ \A i \in 1..Len(r) : s[i + 1] = r[i]
  BY Pushed
<1>2. /\ \A i \in DOMAIN r : i + 1 \in DOMAIN s /\ s[i + 1] = r[i]
      /\ \A i \in DOMAIN s : i = 1 \/ (i - 1 \in DOMAIN r /\ s[i] = r[i - 1])
  BY <1>1
<1> HIDE DEF s
<1>3. ASSUME a = ChooseSub(sub), Calm(r) PROVE Later(s, sub)
  <2>1. \A i \in DOMAIN s \ {1} : Lull(s[i])
    BY <1>2, <1>3 DEF Calm
  <2>2. 1 \in DOMAIN s /\ s[1] = ChooseSub(sub) /\ 1..(1 - 1) = {}
    BY <1>1, <1>3
  <2> QED BY <2>1, <2>2 DEF Later
<1>4. ASSUME Lull(a), a # Call("loaded"), Later(r, sub) PROVE Later(s, sub)
  <2>1. PICK j \in DOMAIN r :
           /\ r[j] = ChooseSub(sub)
           /\ \A i \in DOMAIN r \ {j} : Lull(r[i])
           /\ \A i \in 1..(j - 1) : r[i] # Call("loaded")
    BY <1>4 DEF Later
  <2>2. j + 1 \in DOMAIN s /\ s[j + 1] = ChooseSub(sub)
    BY <1>2, <2>1
  <2>3. \A i \in DOMAIN s \ {j + 1} : Lull(s[i])
    <3> SUFFICES ASSUME NEW i \in DOMAIN s, i # j + 1
                 PROVE  Lull(s[i])
      OBVIOUS
    <3>1. CASE i = 1
      BY <1>1, <1>4, <3>1
    <3>2. CASE i # 1
      <4>1. i - 1 \in DOMAIN r /\ s[i] = r[i - 1] /\ i - 1 # j
        BY <1>1, <1>2, <3>2
      <4> QED BY <2>1, <4>1
    <3> QED BY <3>1, <3>2
  <2>4. \A i \in 1..((j + 1) - 1) : s[i] # Call("loaded")
    <3> SUFFICES ASSUME NEW i \in 1..((j + 1) - 1)
                 PROVE  s[i] # Call("loaded")
      OBVIOUS
    <3>1. CASE i = 1
      BY <1>1, <1>4, <3>1
    <3>2. CASE i # 1
      <4>1. i - 1 \in 1..(j - 1) /\ s[i] = r[i - 1]
        BY <1>1, <1>2, <3>2
      <4> QED BY <2>1, <4>1
    <3> QED BY <3>1, <3>2
  <2> QED BY <2>2, <2>3, <2>4 DEF Later
<1>5. ASSUME Later(s, sub)
      PROVE  \/ a = ChooseSub(sub) /\ Calm(r)
             \/ Lull(a) /\ a # Call("loaded") /\ Later(r, sub)
  <2>1. PICK j \in DOMAIN s :
           /\ s[j] = ChooseSub(sub)
           /\ \A i \in DOMAIN s \ {j} : Lull(s[i])
           /\ \A i \in 1..(j - 1) : s[i] # Call("loaded")
    BY <1>5 DEF Later
  <2>2. CASE j = 1
    <3>1. \A i \in DOMAIN r : i + 1 \in DOMAIN s /\ i + 1 # 1 /\ s[i + 1] = r[i]
      BY <1>1
    <3>2. Calm(r)
      BY <2>1, <2>2, <3>1 DEF Calm
    <3> QED BY <1>1, <2>1, <2>2, <3>2
  <2>3. CASE j # 1
    <3>1. 1 \in DOMAIN s /\ 1 \in 1..(j - 1)
      BY <1>1, <2>3
    <3>2. Lull(a) /\ a # Call("loaded")
      BY <1>1, <2>1, <2>3, <3>1
    <3>3. j - 1 \in DOMAIN r /\ r[j - 1] = ChooseSub(sub)
      BY <1>2, <2>1, <2>3
    <3>4. \A i \in DOMAIN r \ {j - 1} : Lull(r[i])
      <4> SUFFICES ASSUME NEW i \in DOMAIN r, i # j - 1
                   PROVE  Lull(r[i])
        OBVIOUS
      <4>1. i + 1 \in DOMAIN s /\ i + 1 # j /\ s[i + 1] = r[i]
        BY <1>1, <1>2
      <4> QED BY <2>1, <4>1
    <3>5. \A i \in 1..((j - 1) - 1) : r[i] # Call("loaded")
      <4> SUFFICES ASSUME NEW i \in 1..((j - 1) - 1)
                   PROVE  r[i] # Call("loaded")
        OBVIOUS
      <4>1. i \in DOMAIN r /\ i + 1 \in 1..(j - 1) /\ s[i + 1] = r[i]
        BY <1>1, <1>2
      <4> QED BY <2>1, <4>1
    <3>6. Later(r, sub)
      BY <3>3, <3>4, <3>5 DEF Later
    <3> QED BY <3>2, <3>6
  <2> QED BY <2>2, <2>3
<1> QED BY <1>3, <1>4, <1>5 DEF s

LEMMA JoinedHas ==
    ASSUME NEW s \in Seq(Calls), NEW r \in Seq(Calls), NEW c
    PROVE  Has(s \o r, c) <=> Has(s, c) \/ Has(r, c)
<1> DEFINE t == s \o r
<1>1. /\ DOMAIN t = 1..(Len(s) + Len(r)) /\ DOMAIN r = 1..Len(r) /\ DOMAIN s = 1..Len(s)
      /\ Len(r) \in Nat /\ Len(s) \in Nat
      /\ \A i \in 1..(Len(s) + Len(r)) : t[i] = IF i <= Len(s) THEN s[i] ELSE r[i - Len(s)]
  BY ConcatProperties
<1>2. /\ \A i \in DOMAIN s : i \in DOMAIN t /\ t[i] = s[i]
      /\ \A i \in DOMAIN r : i + Len(s) \in DOMAIN t /\ t[i + Len(s)] = r[i]
      /\ \A i \in DOMAIN t : \/ i \in DOMAIN s /\ t[i] = s[i]
                             \/ i - Len(s) \in DOMAIN r /\ t[i] = r[i - Len(s)]
  BY <1>1
<1> HIDE DEF t
<1> QED BY <1>2 DEF t, Has

LEMMA JoinedCalm ==
    ASSUME NEW s \in Seq(Calls), NEW r \in Seq(Calls)
    PROVE  Calm(s \o r) <=> Calm(s) /\ Calm(r)
<1>1. Calm(s \o r) <=> \A c : Has(s \o r, c) => Lull(c)
  BY DEF Calm, Has
<1>2. Calm(s) <=> \A c : Has(s, c) => Lull(c)
  BY DEF Calm, Has
<1>3. Calm(r) <=> \A c : Has(r, c) => Lull(c)
  BY DEF Calm, Has
<1>4. \A c : Has(s \o r, c) <=> Has(s, c) \/ Has(r, c)
  BY JoinedHas
<1> QED BY <1>1, <1>2, <1>3, <1>4

LEMMA JoinedLater ==
    ASSUME NEW s \in Seq(Calls), NEW r \in Seq(Calls), NEW sub,
           Calm(s), ~Has(s, Call("loaded")), Later(r, sub)
    PROVE  Later(s \o r, sub)
<1> DEFINE t == s \o r
<1>1. /\ DOMAIN t = 1..(Len(s) + Len(r)) /\ DOMAIN r = 1..Len(r) /\ DOMAIN s = 1..Len(s)
      /\ Len(r) \in Nat /\ Len(s) \in Nat
      /\ \A i \in 1..(Len(s) + Len(r)) : t[i] = IF i <= Len(s) THEN s[i] ELSE r[i - Len(s)]
  BY ConcatProperties
<1> HIDE DEF t
<1>2. PICK j \in DOMAIN r :
         /\ r[j] = ChooseSub(sub)
         /\ \A i \in DOMAIN r \ {j} : Lull(r[i])
         /\ \A i \in 1..(j - 1) : r[i] # Call("loaded")
  BY DEF Later
<1>3. \A i \in DOMAIN s : Lull(s[i]) /\ s[i] # Call("loaded")
  BY DEF Calm, Has
<1> DEFINE k == j + Len(s)
<1>4. k \in DOMAIN t /\ t[k] = ChooseSub(sub)
  BY <1>1, <1>2
<1>5. \A i \in DOMAIN t \ {k} : Lull(t[i])
  <2> SUFFICES ASSUME NEW i \in DOMAIN t, i # k
               PROVE  Lull(t[i])
    OBVIOUS
  <2>1. CASE i <= Len(s)
    BY <1>1, <1>3, <2>1
  <2>2. CASE ~(i <= Len(s))
    <3>1. i - Len(s) \in DOMAIN r /\ i - Len(s) # j /\ t[i] = r[i - Len(s)]
      BY <1>1, <2>2
    <3> QED BY <1>2, <3>1
  <2> QED BY <2>1, <2>2
<1>6. \A i \in 1..(k - 1) : t[i] # Call("loaded")
  <2> SUFFICES ASSUME NEW i \in 1..(k - 1)
               PROVE  t[i] # Call("loaded")
    OBVIOUS
  <2>0. i \in DOMAIN t
    BY <1>1
  <2>1. CASE i <= Len(s)
    BY <1>1, <1>3, <2>0, <2>1
  <2>2. CASE ~(i <= Len(s))
    <3>1. i - Len(s) \in 1..(j - 1) /\ t[i] = r[i - Len(s)]
      BY <1>1, <2>0, <2>2
    <3> QED BY <1>2, <3>1
  <2> QED BY <2>1, <2>2
<1> HIDE DEF k
<1>7. Later(t, sub)
  BY <1>4, <1>5, <1>6 DEF Later
<1> QED BY <1>7 DEF t

LEMMA OneByOne ==
    ASSUME NEW r \in Seq(Calls), NEW a \in Calls, NEW b \in Calls
    PROVE  /\ <<a, b>> \o r = <<a>> \o (<<b>> \o r)
           /\ \A c \in Calls : <<a, b, c>> \o r = <<a>> \o (<<b>> \o (<<c>> \o r))
<1>1. /\ <<a>> \in Seq(Calls) /\ Len(<<a>>) = 1 /\ <<a>>[1] = a
      /\ <<b>> \in Seq(Calls) /\ Len(<<b>>) = 1 /\ <<b>>[1] = b
  OBVIOUS
<1>2. <<a, b>> \in Seq(Calls) /\ Len(<<a, b>>) = 2 /\ <<a, b>>[1] = a /\ <<a, b>>[2] = b
  OBVIOUS
<1> DEFINE ab == <<a>> \o <<b>>
<1>3. ab \in Seq(Calls) /\ Len(ab) = 2 /\ ab[1] = a /\ ab[2] = b
  BY <1>1, ConcatProperties
<1> HIDE DEF ab
<1>4. <<a, b>> = ab
  BY <1>2, <1>3, SeqEqual
<1>5. ab \o r = <<a>> \o (<<b>> \o r)
  BY <1>1, ConcatAssociative DEF ab
<1>6. ASSUME NEW c \in Calls
      PROVE  <<a, b, c>> \o r = <<a>> \o (<<b>> \o (<<c>> \o r))
  <2>1. <<c>> \in Seq(Calls) /\ Len(<<c>>) = 1 /\ <<c>>[1] = c
    OBVIOUS
  <2>2. /\ <<a, b, c>> \in Seq(Calls) /\ Len(<<a, b, c>>) = 3
        /\ <<a, b, c>>[1] = a /\ <<a, b, c>>[2] = b /\ <<a, b, c>>[3] = c
    OBVIOUS
  <2> DEFINE abc == ab \o <<c>>
  <2>3. abc \in Seq(Calls) /\ Len(abc) = 3 /\ abc[1] = a /\ abc[2] = b /\ abc[3] = c
    <3>1. /\ abc \in Seq(Calls) /\ Len(abc) = Len(ab) + Len(<<c>>)
          /\ \A i \in 1..(Len(ab) + Len(<<c>>)) :
                abc[i] = IF i <= Len(ab) THEN ab[i] ELSE <<c>>[i - Len(ab)]
      BY <1>3, <2>1, ConcatProperties
    <3> HIDE DEF abc
    <3> QED BY <1>3, <2>1, <3>1
  <2> HIDE DEF abc
  <2>4. <<a, b, c>> = abc
    BY <2>2, <2>3, SeqEqual
  <2>5. abc \o r = ab \o (<<c>> \o r)
    BY <1>3, <2>1, ConcatAssociative DEF abc
  <2>6. <<c>> \o r \in Seq(Calls)
    BY <2>1, ConcatProperties
  <2>7. ab \o (<<c>> \o r) = <<a>> \o (<<b>> \o (<<c>> \o r))
    BY <1>1, <2>6, ConcatAssociative DEF ab
  <2> QED BY <2>4, <2>5, <2>7
<1> QED BY <1>4, <1>5, <1>6

LEMMA LastOne == \A x : Tail(<<x>>) = <<>>
<1> SUFFICES ASSUME NEW x PROVE Tail(<<x>>) = <<>>
  OBVIOUS
<1>1. <<x>> \in Seq({x}) /\ Len(<<x>>) = 1
  OBVIOUS
<1>2. Tail(<<x>>) \in Seq({x}) /\ Len(Tail(<<x>>)) = 0
  BY <1>1, HeadTailProperties, EmptySeq
<1> QED BY <1>2, EmptySeq

LEMMA NothingLeft ==
    /\ Calm(<<>>) /\ \A c : ~Has(<<>>, c)
    /\ \A sub : ~Later(<<>>, sub)
    /\ \A r \in Seq(Calls) : <<>> \o r = r
<1>1. /\ Calm(<<>>) /\ \A c : ~Has(<<>>, c)
      /\ \A sub : ~Later(<<>>, sub)
  BY DEF Calm, Has, Later
<1>2. \A r \in Seq(Calls) : <<>> \o r = r
  BY ConcatEmptySeq
<1> QED BY <1>1, <1>2

LEMMA OneLeft ==
    ASSUME NEW a \in Calls
    PROVE  /\ <<a>> \in Seq(Calls) /\ (Calm(<<a>>) <=> Lull(a))
           /\ \A c : Has(<<a>>, c) <=> a = c
           /\ \A sub : a = ChooseSub(sub) => Later(<<a>>, sub)
<1> DEFINE none == <<>>
<1>1. <<a>> \in Seq(Calls) /\ none \in Seq(Calls)
  OBVIOUS
<1>2. <<a>> \o none = <<a>>
  BY <1>1, ConcatEmptySeq
<1>3. Calm(none) /\ \A c : ~Has(none, c)
  BY NothingLeft
<1> HIDE DEF none
<1>4. /\ Calm(<<a>> \o none) <=> Lull(a) /\ Calm(none)
      /\ \A c : Has(<<a>> \o none, c) <=> a = c \/ Has(none, c)
      /\ \A sub : Later(<<a>> \o none, sub) <=>
              \/ a = ChooseSub(sub) /\ Calm(none)
              \/ Lull(a) /\ a # Call("loaded") /\ Later(none, sub)
  BY <1>1, PushedCalm, PushedHas, PushedLater
<1> QED BY <1>1, <1>2, <1>3, <1>4

(* A call is the one made for what it does. *)
LEMMA CallShapes ==
    ASSUME NEW c \in Calls
    PROVE  /\ c.do = "notify" => c = Told(c.key)
           /\ c.do = "show model" => c = Showing(c.model)
           /\ c.do = "choose main" => c = ChooseMain(c.main)
           /\ c.do = "choose sub" => c = ChooseSub(c.sub)
           /\ c.do = "choose ROM" => c = ChooseRom(c.type)
           /\ c.do \in {"update kickstart", "updated", "clear media", "loaded"} => c = Call(c.do)
  BY DEF Calls, Told, Showing, ChooseMain, ChooseSub, ChooseRom, Call

LEMMA CallNames ==
    /\ \A key : Told(key).do = "notify" /\ Told(key).key = key
    /\ \A model : Showing(model).do = "show model" /\ Showing(model).model = model
    /\ \A main : ChooseMain(main).do = "choose main" /\ ChooseMain(main).main = main
    /\ \A sub : ChooseSub(sub).do = "choose sub" /\ ChooseSub(sub).sub = sub
    /\ \A type : ChooseRom(type).do = "choose ROM" /\ ChooseRom(type).type = type
    /\ \A what : Call(what).do = what
    /\ \A keys, file, sum : Put(keys, file, sum).do = "put" /\ Empty(keys).do = "put"
  BY DEF Told, Showing, ChooseMain, ChooseSub, ChooseRom, Call, Put, Empty

LEMMA CallReads ==
    ASSUME NEW c
    PROVE  /\ \A key : c = Told(key) => c.do = "notify" /\ c.key = key
           /\ \A model : c = Showing(model) => c.do = "show model" /\ c.model = model
           /\ \A main : c = ChooseMain(main) => c.do = "choose main" /\ c.main = main
           /\ \A sub : c = ChooseSub(sub) => c.do = "choose sub" /\ c.sub = sub
           /\ \A type : c = ChooseRom(type) => c.do = "choose ROM" /\ c.type = type
           /\ \A what : c = Call(what) => c.do = what
<1>1. ASSUME NEW key, c = Told(key) PROVE c.do = "notify" /\ c.key = key
  <2>1. Told(key).do = "notify" /\ Told(key).key = key
    BY DEF Told
  <2> QED BY <1>1, <2>1, Zenon
<1>2. ASSUME NEW model, c = Showing(model) PROVE c.do = "show model" /\ c.model = model
  <2>1. Showing(model).do = "show model" /\ Showing(model).model = model
    BY DEF Showing
  <2> QED BY <1>2, <2>1, Zenon
<1>3. ASSUME NEW main, c = ChooseMain(main) PROVE c.do = "choose main" /\ c.main = main
  <2>1. ChooseMain(main).do = "choose main" /\ ChooseMain(main).main = main
    BY DEF ChooseMain
  <2> QED BY <1>3, <2>1, Zenon
<1>4. ASSUME NEW sub, c = ChooseSub(sub) PROVE c.do = "choose sub" /\ c.sub = sub
  <2>1. ChooseSub(sub).do = "choose sub" /\ ChooseSub(sub).sub = sub
    BY DEF ChooseSub
  <2> QED BY <1>4, <2>1, Zenon
<1>5. ASSUME NEW type, c = ChooseRom(type) PROVE c.do = "choose ROM" /\ c.type = type
  <2>1. ChooseRom(type).do = "choose ROM" /\ ChooseRom(type).type = type
    BY DEF ChooseRom
  <2> QED BY <1>5, <2>1, Zenon
<1>6. ASSUME NEW what, c = Call(what) PROVE c.do = what
  <2>1. Call(what).do = what
    BY DEF Call
  <2> QED BY <1>6, <2>1, Zenon
<1> QED BY <1>1, <1>2, <1>3, <1>4, <1>5, <1>6, Zenon

LEMMA LullKinds ==
    /\ Lull(Told("kickstart_file")) /\ ~Lull(Told("amiga_model"))
    /\ \A model : ~Lull(Showing(model))
    /\ \A main : ~Lull(ChooseMain(main))
    /\ \A sub : ~Lull(ChooseSub(sub))
    /\ \A type : Lull(ChooseRom(type))
    /\ \A what \in {"update kickstart", "updated", "clear media", "loaded"} : Lull(Call(what))
    /\ \A c : c.do = "put" => Lull(c)
<1>1. Told("kickstart_file") # Told("amiga_model")
  BY DEF Told
<1> DEFINE lulls == {"choose ROM", "update kickstart", "updated", "clear media", "loaded", "put"}
<1>2. Told("amiga_model").do = "notify" /\ "notify" \notin lulls
  BY DEF Told
<1>3. Lull(Told("kickstart_file")) /\ ~Lull(Told("amiga_model"))
  BY <1>1 DEF Lull, Told
<1>4. /\ \A model : ~Lull(Showing(model))
      /\ \A main : ~Lull(ChooseMain(main))
      /\ \A sub : ~Lull(ChooseSub(sub))
  BY DEF Lull, Showing, ChooseMain, ChooseSub
<1>5. \A c : c.do \in lulls => Lull(c)
  <2> SUFFICES ASSUME NEW c, c.do \in lulls
               PROVE  Lull(c)
    OBVIOUS
  <2>1. c # Told("amiga_model")
    BY <1>2, Zenon
  <2>2. c.do \notin {"show model", "choose main", "choose sub"}
    OBVIOUS
  <2> QED BY <2>1, <2>2 DEF Lull
<1>6. \A type : ChooseRom(type).do = "choose ROM"
  BY DEF ChooseRom
<1>7. \A what : Call(what).do = what
  BY DEF Call
<1>8. /\ \A type : ChooseRom(type).do \in lulls
      /\ \A what \in {"update kickstart", "updated", "clear media", "loaded"} : Call(what).do \in lulls
      /\ \A c : c.do = "put" => c.do \in lulls
  BY <1>6, <1>7
<1> HIDE DEF lulls
<1> QED BY <1>3, <1>4, <1>5, <1>8, Zenon

-----------------------------------------------------------------------------
(* Models and the choices shown for them. *)
LEMMA PairIsModel ==
    ASSUME NEW main \in Mains, NEW sub \in RangeOf(SubModels[main])
    PROVE  /\ <<main, sub>> \in Models /\ Model(<<main, sub>>) = <<main, sub>>
           /\ Shown(<<main, sub>>) = <<main, sub>>
<1>1. <<main, sub>> \in Models
  BY DEF Models
<1>2. Model(<<main, sub>>) = <<main, sub>>
  BY DEF Model, Unset
<1> QED BY <1>1, <1>2 DEF Shown

LEMMA MainIsModel ==
    ASSUME NEW main \in Mains
    PROVE  /\ Model(ValueOf(main)) = <<main, Plain>> /\ Model(ValueOf(main)) \in Models
           /\ Shown(ValueOf(main)) = <<main, Plain>>
<1>1. Plain \in RangeOf(SubModels[main])
  BY ConfigurationAssumption
<1>2. Model(ValueOf(main)) = <<main, Plain>>
  BY <1>1, PairIsModel DEF ValueOf, Model
<1>3. <<main, Plain>> \in Models
  BY <1>1, PairIsModel
<1> QED BY <1>2, <1>3 DEF Shown

LEMMA ShownPair ==
    ASSUME NEW value
    PROVE  /\ Shown(value)[1] \in Mains /\ Shown(value)[2] \in RangeOf(SubModels[Shown(value)[1]])
           /\ Shown(value) = <<Shown(value)[1], Shown(value)[2]>>
           /\ Model(value) \in Models => Shown(value) = Model(value)
<1>1. CASE Model(value) \in Models
  <2>1. PICK main \in Mains : Model(value) \in {<<main, sub>> : sub \in RangeOf(SubModels[main])}
    BY <1>1 DEF Models
  <2>2. PICK sub \in RangeOf(SubModels[main]) : Model(value) = <<main, sub>>
    BY <2>1
  <2>3. Shown(value) = <<main, sub>>
    BY <1>1, <2>2 DEF Shown
  <2> QED BY <2>2, <2>3
<1>2. CASE Model(value) \notin Models
  <2>1. Shown(value) = <<FirstMain, SubModels[FirstMain][1]>> /\ FirstMain \in Mains
    BY <1>2, ConfigurationAssumption DEF Shown
  <2>2. SubModels[FirstMain][1] \in RangeOf(SubModels[FirstMain])
    <3>1. SubModels[FirstMain] \in Seq(STRING) /\ Plain \in RangeOf(SubModels[FirstMain])
      BY ConfigurationAssumption
    <3>2. 1 \in DOMAIN SubModels[FirstMain]
      BY <3>1 DEF RangeOf
    <3> QED BY <3>2 DEF RangeOf
  <2> QED BY <1>2, <2>1, <2>2
<1> QED BY <1>1, <1>2

-----------------------------------------------------------------------------
(* What setting values leaves to be done: those who hear of the model and  *)
(* of the Kickstart come first, if these are others than before.           *)
Heard(key) == IF conf'[key] # conf[key] THEN <<Told(key)>> ELSE <<>>
AllHeard == Heard("amiga_model") \o Heard("kickstart_file")

LEMMA HeardKinds ==
    /\ Heard("amiga_model") \in Seq(Calls) /\ Heard("kickstart_file") \in Seq(Calls)
    /\ AllHeard \in Seq(Calls)
<1>1. Told("amiga_model") \in Calls /\ Told("kickstart_file") \in Calls
  BY CallsMade DEF Told
<1>2. <<>> \in Seq(Calls) /\ <<Told("amiga_model")>> \in Seq(Calls) /\ <<Told("kickstart_file")>> \in Seq(Calls)
  BY <1>1
<1>3. Heard("amiga_model") \in Seq(Calls) /\ Heard("kickstart_file") \in Seq(Calls)
  BY <1>2 DEF Heard
<1> QED BY <1>3, ConcatProperties DEF AllHeard

LEMMA SetEffect ==
    ASSUME IInv, NEW values, NEW given, NEW caller,
           DOMAIN values \subseteq Keys, SetValues(values, given, caller)
    PROVE  /\ \A key \in Keys :
                 conf'[key] = IF key \in DOMAIN values THEN values[key] ELSE conf[key]
           /\ todo' = AllHeard \o caller
<1>1. \A key \in Keys : conf'[key] = IF key \in DOMAIN values THEN values[key] ELSE conf[key]
  BY DEF IInv, TypeOK, SetValues, Overlaid
<1>2. \A key \in {"amiga_model", "kickstart_file"} : Notice(key, values) = Heard(key)
  BY <1>1, KeyKinds DEF Notice, Heard, Told
<1>3. Notices(values) = AllHeard
  BY <1>2 DEF Notices, AllHeard
<1> QED BY <1>1, <1>3 DEF SetValues

LEMMA AssignEffect ==
    ASSUME IInv, NEW values, NEW given, NEW caller,
           DOMAIN values \subseteq Keys, Assign(values, given, caller)
    PROVE  /\ \A key \in Keys :
                 conf'[key] = IF key \in DOMAIN values THEN values[key] ELSE conf[key]
           /\ todo' = AllHeard \o caller
           /\ \/ changed' = Yes /\ dirty' = TRUE
              \/ UNCHANGED <<conf, changed, dirty>>
<1>1. SetValues(values, given, caller)
  BY DEF Assign
<1>2. \/ changed' = Yes /\ dirty' = TRUE
      \/ UNCHANGED <<conf, changed, dirty>>
  BY DEF Assign
<1> QED BY <1>1, <1>2, SetEffect

-----------------------------------------------------------------------------
(* The choices follow the model: the innermost call returns. *)
SameModel == conf'["amiga_model"] = conf["amiga_model"] /\ stored'["amiga_model"] = stored["amiga_model"]
SameChoices ==
    /\ screen'.main = screen.main /\ screen'.sub = screen.sub
    /\ screen'.updating = screen.updating

LEMMA EndsBefore ==
    ASSUME NEW a \in Calls, NEW r \in Seq(Calls), Lull(a), a # Call("loaded"),
           NEW load, NEW next, next => load, NEW want, NEW have, NEW main,
           Ends(r, load, want, have, main)
    PROVE  Ends(<<a>> \o r, next, want, have, main)
<1>1. Calm(r) => Calm(<<a>> \o r)
  BY PushedCalm
<1>2. \A sub : Later(r, sub) => Later(<<a>> \o r, sub)
  BY PushedLater
<1>3. \A model : Aims(load, want, have, model) => Aims(next, want, have, model)
  BY DEF Aims
<1> QED BY <1>1, <1>2, <1>3, Zenon DEF Ends

LEMMA EndsSame ==
    ASSUME NEW r, NEW load, NEW next, next => load, NEW want, NEW have, NEW main,
           Ends(r, load, want, have, main)
    PROVE  Ends(r, next, want, have, main)
<1>1. \A model : Aims(load, want, have, model) => Aims(next, want, have, model)
  BY DEF Aims
<1> QED BY <1>1, Zenon DEF Ends

(* The call and what is below it, at a step. *)
LEMMA Top ==
    ASSUME IInv, ~Idle
    PROVE  /\ todo = <<Head(todo)>> \o Rest /\ Head(todo) \in Calls /\ Rest \in Seq(Calls)
           /\ \A c : Has(todo, c) <=> Head(todo) = c \/ Has(Rest, c)
           /\ Calm(todo) <=> Lull(Head(todo)) /\ Calm(Rest)
           /\ \A sub : Later(todo, sub) <=>
                 \/ Head(todo) = ChooseSub(sub) /\ Calm(Rest)
                 \/ Lull(Head(todo)) /\ Head(todo) # Call("loaded") /\ Later(Rest, sub)
<1>1. todo \in Seq(Calls) /\ todo # <<>>
  BY DEF IInv, TypeOK, Idle
<1>2. todo = <<Head(todo)>> \o Rest /\ Head(todo) \in Calls /\ Rest \in Seq(Calls)
  BY <1>1, Innermost DEF Rest
<1>3. /\ \A c : Has(<<Head(todo)>> \o Rest, c) <=> Head(todo) = c \/ Has(Rest, c)
      /\ Calm(<<Head(todo)>> \o Rest) <=> Lull(Head(todo)) /\ Calm(Rest)
      /\ \A sub : Later(<<Head(todo)>> \o Rest, sub) <=>
                 \/ Head(todo) = ChooseSub(sub) /\ Calm(Rest)
                 \/ Lull(Head(todo)) /\ Head(todo) # Call("loaded") /\ Later(Rest, sub)
  BY <1>2, PushedHas, PushedCalm, PushedLater
<1> QED BY <1>2, <1>3

(* A call that does not concern the model leaves the choices as they are. *)
LEMMA CalmReturn ==
    ASSUME IInv, ModelFollows, ~Idle, Lull(Head(todo)), Head(todo) # Call("updated"),
           NEW pre \in Seq(Calls), Calm(pre), ~Has(pre, Call("loaded")),
           todo' = pre \o Rest, SameModel, SameChoices
    PROVE  ModelFollows'
<1>1. /\ Rest \in Seq(Calls) /\ Head(todo) \in Calls
      /\ \A c : Has(todo, c) <=> Head(todo) = c \/ Has(Rest, c)
      /\ Calm(todo) <=> Lull(Head(todo)) /\ Calm(Rest)
      /\ \A sub : Later(todo, sub) <=>
            \/ Head(todo) = ChooseSub(sub) /\ Calm(Rest)
            \/ Lull(Head(todo)) /\ Head(todo) # Call("loaded") /\ Later(Rest, sub)
  BY Top
<1>2. /\ Head(todo) # Told("amiga_model")
      /\ \A model : Head(todo) # Showing(model)
      /\ \A main : Head(todo) # ChooseMain(main)
      /\ \A sub : Head(todo) # ChooseSub(sub)
  BY LullKinds, Zenon
<1>3. Resting \/ Picking
  <2>1. ~Telling
    BY <1>2 DEF Telling
  <2>2. ~ChoosingBoth /\ ~ChoosingSub
    BY <1>2, Zenon DEF ChoosingBoth, ChoosingSub
  <2>3. ~ShownAll
    BY DEF ShownAll
  <2>4. ~Clicked
    <3> SUFFICES ASSUME NEW main \in Mains, todo = <<ChooseMain(main)>>
                 PROVE  FALSE
      BY Zenon DEF Clicked
    <3>1. Head(todo) = ChooseMain(main)
      OBVIOUS
    <3> QED BY <1>2, <3>1, Zenon
  <2> QED BY <2>1, <2>2, <2>3, <2>4 DEF ModelFollows
<1>4. /\ \A c : Has(todo', c) <=> Has(pre, c) \/ Has(Rest, c)
      /\ Calm(todo') <=> Calm(pre) /\ Calm(Rest)
      /\ \A sub : Later(Rest, sub) => Later(todo', sub)
  BY <1>1, JoinedHas, JoinedCalm, JoinedLater
<1>5. Loading' => Loading
  BY <1>1, <1>4 DEF Loading
<1>6. \A model : Aims(Loading, stored["amiga_model"], conf["amiga_model"], model)
          => Aims(Loading', stored'["amiga_model"], conf'["amiga_model"], model)
  BY <1>5 DEF Aims, SameModel
<1>7. ASSUME Resting PROVE Resting'
  <2>1. Calm(todo')
    BY <1>1, <1>4, <1>7 DEF Resting
  <2>2. <<screen'.main, screen'.sub>> = Shown(conf'["amiga_model"])
    BY <1>7 DEF Resting, Settled, SameModel, SameChoices
  <2>3. Aims(Loading', stored'["amiga_model"], conf'["amiga_model"], Model(conf'["amiga_model"]))
    BY <1>6, <1>7 DEF Resting, Aim, SameModel
  <2>4. screen'.updating => Has(todo', Call("updated"))
    BY <1>1, <1>4, <1>7 DEF Resting, SameChoices
  <2> QED BY <2>1, <2>2, <2>3, <2>4 DEF Resting, Settled, Aim
<1>8. ASSUME Picking PROVE Picking'
  <2>1. <<screen'.main, screen'.sub>> = Shown(conf'["amiga_model"]) /\ ~screen'.updating
    BY <1>8 DEF Picking, Settled, SameModel, SameChoices
  <2>2. PICK sub \in RangeOf(SubModels[screen.main]) : Later(todo, sub) /\ Aim(<<screen.main, sub>>)
    BY <1>8 DEF Picking
  <2>3. Later(todo', sub)
    BY <1>1, <1>2, <1>4, <2>2
  <2>4. Aims(Loading', stored'["amiga_model"], conf'["amiga_model"], <<screen'.main, sub>>)
    BY <1>6, <2>2 DEF Aim, SameChoices
  <2>5. \E x \in RangeOf(SubModels[screen'.main]) :
           Later(todo', x) /\ Aims(Loading', stored'["amiga_model"], conf'["amiga_model"], <<screen'.main, x>>)
    BY <2>2, <2>3, <2>4 DEF SameChoices
  <2> QED BY <2>1, <2>5 DEF Picking, Settled, Aim
<1> QED BY <1>3, <1>7, <1>8 DEF ModelFollows

(* Which calls are the innermost while the choices do not yet follow. *)
LEMMA Stages ==
    ASSUME IInv, ModelFollows, ~Idle
    PROVE  /\ Head(todo).do \in {"notify", "show model"} /\ ~Lull(Head(todo)) => Telling
           /\ Head(todo).do = "choose main" => ChoosingBoth \/ Clicked
           /\ Head(todo).do = "choose sub" => ChoosingSub \/ Picking
           /\ Head(todo).do = "updated" => Resting \/ ShownAll \/ Picking
<1>1. /\ Calm(todo) <=> Lull(Head(todo)) /\ Calm(Rest)
      /\ \A sub : Later(todo, sub) =>
            \/ Head(todo) = ChooseSub(sub) /\ Calm(Rest)
            \/ Lull(Head(todo)) /\ Head(todo) # Call("loaded") /\ Later(Rest, sub)
  BY Top
<1>2. Resting => Lull(Head(todo))
  BY <1>1 DEF Resting
<1>3. Telling => Head(todo).do \in {"notify", "show model"} /\ ~Lull(Head(todo))
  <2>1. Telling => Head(todo).do \in {"notify", "show model"}
    BY CallReads, Zenon DEF Telling
  <2>2. Telling => ~Lull(Head(todo))
    BY LullKinds, Zenon DEF Telling
  <2> QED BY <2>1, <2>2
<1>4. ChoosingBoth => Head(todo).do = "choose main"
  <2>1. ChoosingBoth => \E main : Head(todo) = ChooseMain(main)
    BY Zenon DEF ChoosingBoth
  <2> QED BY <2>1, CallReads, Zenon
<1>5. ChoosingSub => Head(todo).do = "choose sub"
  <2>1. ChoosingSub => \E sub : Head(todo) = ChooseSub(sub)
    BY Zenon DEF ChoosingSub
  <2> QED BY <2>1, CallReads, Zenon
<1>6. ShownAll => Head(todo).do = "updated"
  BY CallReads, Zenon DEF ShownAll
<1>7. Picking => Head(todo).do = "choose sub" \/ Lull(Head(todo))
  <2>1. \A sub : ChooseSub(sub).do = "choose sub"
    BY DEF ChooseSub
  <2> QED BY <1>1, <2>1 DEF Picking
<1>8. Clicked => Head(todo).do = "choose main"
  <2> SUFFICES ASSUME NEW main \in Mains, todo = <<ChooseMain(main)>>
               PROVE  Head(todo).do = "choose main"
    BY Zenon DEF Clicked
  <2>1. Head(todo) = ChooseMain(main)
    OBVIOUS
  <2> QED BY <2>1, CallReads, Zenon
<1>9. Lull(Head(todo)) => Head(todo).do \notin {"show model", "choose main", "choose sub"}
  BY DEF Lull
<1> HIDE DEF Resting, Telling, ChoosingBoth, ChoosingSub, ShownAll, Picking, Clicked
<1> QED BY <1>2, <1>3, <1>4, <1>5, <1>6, <1>7, <1>8, <1>9 DEF ModelFollows

LEMMA NotifyModel ==
    ASSUME IInv, ModelFollows, Notify
    PROVE  ModelFollows'
<1>1. ~Idle /\ Head(todo).do = "notify" /\ Head(todo) \in Calls /\ Rest \in Seq(Calls)
  BY Top DEF Notify, Calling
<1>2. SameModel /\ SameChoices /\ UNCHANGED <<conf, stored, screen>>
  BY DEF Notify, SameModel, SameChoices
<1>3. Head(todo) = Told(Head(todo).key) /\ Head(todo).key \in {"amiga_model", "kickstart_file"}
  BY <1>1, CallShapes, CallKinds
<1>4. CASE Head(todo).key = "amiga_model"
  <2>1. Head(todo) = Told("amiga_model") /\ ~Lull(Head(todo))
    BY <1>3, <1>4, LullKinds
  <2>2. After(Rest)
    <3>1. Telling
      BY <1>1, <2>1, Stages
    <3> QED BY <3>1 DEF Telling
  <2> DEFINE show == Showing(conf["amiga_model"])
             update == Call("update kickstart")
  <2>3. show \in Calls /\ update \in Calls /\ Lull(update) /\ update # Call("loaded")
    <3>1. conf["amiga_model"] \in ModelNames \cup {Unset}
      BY DEF IInv, TypeOK
    <3>2. show \in Calls /\ update \in Calls
      BY <3>1, CallsMade DEF Showing
    <3>3. update # Call("loaded")
      BY DEF Call
    <3> QED BY <3>2, <3>3, LullKinds
  <2>4. todo' = <<show, update>> \o Rest
    BY <1>4 DEF Notify, Showing
  <2> HIDE DEF show, update
  <2>5. <<update>> \o Rest \in Seq(Calls) /\ <<show, update>> \o Rest = <<show>> \o (<<update>> \o Rest)
    <3>1. <<update>> \in Seq(Calls)
      BY <2>3
    <3> QED BY <1>1, <2>3, <3>1, OneByOne, ConcatProperties
  <2>6. todo' # <<>> /\ Head(todo') = show /\ Tail(todo') = <<update>> \o Rest
    BY <2>3, <2>4, <2>5, Pushed
  <2>7. Loading' => Loading
    <3>1. /\ \A c : Has(todo, c) <=> Head(todo) = c \/ Has(Rest, c)
          /\ \A c : Has(todo', c) <=> show = c \/ update = c \/ Has(Rest, c)
      BY <1>1, <2>3, <2>4, <2>5, Top, PushedHas
    <3>2. show # Call("loaded")
      BY DEF show, Showing, Call
    <3> QED BY <2>3, <3>1, <3>2 DEF Loading
  <2>8. Ends(<<update>> \o Rest, Loading', stored["amiga_model"], conf["amiga_model"], screen.main)
    BY <1>1, <2>2, <2>3, <2>7, EndsBefore DEF After
  <2>9. Ends(Rest', Loading', stored'["amiga_model"], conf'["amiga_model"], screen'.main)
    BY <1>2, <2>6, <2>8 DEF Rest
  <2>10. ~Idle' /\ Head(todo') = Showing(conf'["amiga_model"])
    BY <1>2, <2>6 DEF Idle, show
  <2>11. Telling'
    BY <2>9, <2>10 DEF Telling, After
  <2> QED BY <2>11 DEF ModelFollows
<1>5. CASE Head(todo).key = "kickstart_file"
  <2> DEFINE pre == <<ChooseRom(RomType(conf["kickstart_file"]))>>
             choose == ChooseRom(RomType(conf["kickstart_file"]))
  <2>1. Lull(Head(todo)) /\ Head(todo) # Call("updated")
    <3>1. Head(todo) # Call("updated")
      BY <1>1 DEF Call
    <3> QED BY <1>3, <1>5, <3>1, LullKinds
  <2>2. todo' = pre \o Rest
    BY <1>3, <1>5 DEF Notify
  <2>3. choose \in Calls
    <3>1. RomType(conf["kickstart_file"]) \in RomTypes
      BY DEF RomType, RomTypes
    <3> QED BY <3>1, CallsMade
  <2>4. Lull(choose) /\ choose # Call("loaded")
    <3>1. choose # Call("loaded")
      BY DEF ChooseRom, Call
    <3> QED BY <3>1, LullKinds
  <2> HIDE DEF choose
  <2>5. pre = <<choose>>
    BY DEF choose
  <2> HIDE DEF pre
  <2>6. pre \in Seq(Calls) /\ Calm(pre) /\ ~Has(pre, Call("loaded"))
    BY <2>3, <2>4, <2>5 DEF Calm, Has
  <2> QED BY <1>1, <1>2, <2>1, <2>2, <2>6, CalmReturn
<1> QED BY <1>3, <1>4, <1>5

LEMMA ShowModelKeeps ==
    ASSUME IInv, ModelFollows, ShowModel
    PROVE  ModelFollows'
<1>1. ~Idle /\ Head(todo).do = "show model" /\ Head(todo) \in Calls /\ Rest \in Seq(Calls)
  BY Top DEF ShowModel, Calling
<1>2. Head(todo) = Showing(Head(todo).model) /\ ~Lull(Head(todo))
  BY <1>1, CallShapes, LullKinds
<1>3. Telling
  BY <1>1, <1>2, Stages
<1>4. Head(todo).model = conf["amiga_model"]
  <2>1. Head(todo).do # "notify"
    BY <1>1
  <2>2. Head(todo) # Told("amiga_model")
    BY <2>1, CallReads, Zenon
  <2>3. Head(todo) = Showing(conf["amiga_model"])
    BY <1>3, <2>2, Zenon DEF Telling
  <2> DEFINE model == conf["amiga_model"]
  <2>4. Showing(model).model = model
    BY DEF Showing
  <2> HIDE DEF model
  <2>5. Head(todo) = Showing(model)
    BY <2>3 DEF model
  <2>6. Head(todo).model = model
    BY <2>4, <2>5, Zenon
  <2> QED BY <2>6 DEF model
<1> DEFINE shown == Shown(conf["amiga_model"])
           a == ChooseMain(shown[1])
           b == ChooseSub(shown[2])
           c == Call("updated")
<1>5. todo' = <<a, b, c>> \o Rest
  BY <1>4 DEF ShowModel
<1>6. screen'.updating /\ screen'.main = screen.main
  BY DEF ShowModel, IInv, TypeOK
<1>7. UNCHANGED <<conf, stored>>
  BY DEF ShowModel
<1>8. a \in Calls /\ b \in Calls /\ c \in Calls
  BY ShownKinds, CallsMade
<1>9. a # Call("loaded") /\ b # Call("loaded") /\ c # Call("loaded")
  BY DEF ChooseMain, ChooseSub, Call
<1> HIDE DEF a, b, c, shown
<1> DEFINE r1 == <<c>> \o Rest
           r2 == <<b>> \o r1
<1>10. /\ r1 \in Seq(Calls) /\ r2 \in Seq(Calls) /\ todo' = <<a>> \o r2
  <2>1. r1 \in Seq(Calls)
    BY <1>1, <1>8, Pushed
  <2>2. <<a, b, c>> \o Rest = <<a>> \o r2
    <3>1. \A x \in Calls : <<a, b, x>> \o Rest = <<a>> \o (<<b>> \o (<<x>> \o Rest))
      BY <1>1, <1>8, OneByOne
    <3> QED BY <1>8, <3>1
  <2> HIDE DEF r1
  <2>3. r2 \in Seq(Calls)
    BY <1>8, <2>1, Pushed
  <2> QED BY <1>5, <2>1, <2>2, <2>3
<1>11. /\ todo' # <<>> /\ Head(todo') = a /\ Rest' = r2
       /\ r2 # <<>> /\ Head(r2) = b /\ Tail(r2) = r1
       /\ r1 # <<>> /\ Head(r1) = c /\ Tail(r1) = Rest
  <2>1. todo' # <<>> /\ Head(todo') = a /\ Tail(todo') = r2
    BY <1>8, <1>10, Pushed
  <2>2. r2 # <<>> /\ Head(r2) = b /\ Tail(r2) = r1
    BY <1>8, <1>10, Pushed
  <2>3. r1 # <<>> /\ Head(r1) = c /\ Tail(r1) = Rest
    BY <1>1, <1>8, <1>10, Pushed
  <2> QED BY <2>1, <2>2, <2>3 DEF Rest
<1>12. Loading' => Loading
  <2>1. \A x : Has(todo', x) <=> a = x \/ Has(r2, x)
    BY <1>8, <1>10, PushedHas
  <2>2. \A x : Has(r2, x) <=> b = x \/ Has(r1, x)
    BY <1>8, <1>10, PushedHas
  <2>3. \A x : Has(r1, x) <=> c = x \/ Has(Rest, x)
    BY <1>1, <1>8, PushedHas
  <2>4. \A x : Has(todo, x) <=> Head(todo) = x \/ Has(Rest, x)
    BY <1>1, Top
  <2> QED BY <1>9, <2>1, <2>2, <2>3, <2>4 DEF Loading
<1>13. Ends(Rest, Loading', stored'["amiga_model"], conf'["amiga_model"], screen'.main)
  <2>1. Ends(Rest, Loading, stored["amiga_model"], conf["amiga_model"], screen.main)
    BY <1>3 DEF Telling, After
  <2>2. Ends(Rest, Loading', stored["amiga_model"], conf["amiga_model"], screen.main)
    BY <1>12, <2>1, EndsSame
  <2> QED BY <1>6, <1>7, <2>2
<1>14. /\ a = ChooseMain(Shown(conf'["amiga_model"])[1]) /\ b = ChooseSub(Shown(conf'["amiga_model"])[2])
       /\ c = Call("updated")
  BY <1>7 DEF a, b, c, shown
<1> HIDE DEF r1, r2
<1>15. ~Idle' /\ Rest' # <<>> /\ Tail(Rest') # <<>> /\ Tail(Tail(Rest')) = Rest
  BY <1>11 DEF Idle
<1>16. /\ Head(todo') = ChooseMain(Shown(conf'["amiga_model"])[1])
       /\ Head(Rest') = ChooseSub(Shown(conf'["amiga_model"])[2])
       /\ Head(Tail(Rest')) = Call("updated")
  BY <1>11, <1>14
<1>17. ChoosingBoth'
  BY <1>6, <1>13, <1>15, <1>16 DEF ChoosingBoth, After
<1> QED BY <1>17 DEF ModelFollows

LEMMA UpdatedKeeps ==
    ASSUME IInv, ModelFollows, Updated
    PROVE  ModelFollows'
<1>1. ~Idle /\ Head(todo).do = "updated" /\ Head(todo) \in Calls /\ Rest \in Seq(Calls)
  BY Top DEF Updated, Calling
<1>2. Head(todo) = Call("updated") /\ Lull(Head(todo)) /\ Head(todo) # Call("loaded")
  <2>1. Head(todo) = Call("updated")
    BY <1>1, CallShapes
  <2>2. Call("updated") # Call("loaded")
    BY DEF Call
  <2> QED BY <2>1, <2>2, LullKinds
<1>3. /\ screen'.updating = FALSE /\ screen'.main = screen.main /\ screen'.sub = screen.sub
      /\ UNCHANGED <<conf, stored>> /\ todo' = Rest
  BY DEF Updated, IInv, TypeOK
<1>4. /\ \A c : Has(todo, c) <=> Head(todo) = c \/ Has(Rest, c)
      /\ Calm(todo) <=> Lull(Head(todo)) /\ Calm(Rest)
      /\ \A sub : Later(todo, sub) <=>
            \/ Head(todo) = ChooseSub(sub) /\ Calm(Rest)
            \/ Lull(Head(todo)) /\ Head(todo) # Call("loaded") /\ Later(Rest, sub)
  BY <1>1, Top
<1>5. Loading' <=> Loading
  BY <1>2, <1>3, <1>4 DEF Loading
<1>6. \A sub : ChooseSub(sub) # Head(todo)
  BY <1>2, LullKinds, Zenon
<1>7. ASSUME Settled, Calm(Rest), Aim(Model(conf["amiga_model"])) PROVE Resting'
  <2>1. Calm(todo') /\ Settled' /\ ~screen'.updating
    BY <1>3, <1>7 DEF Settled
  <2>2. Aims(Loading', stored'["amiga_model"], conf'["amiga_model"], Model(conf'["amiga_model"]))
    BY <1>3, <1>5, <1>7 DEF Aim
  <2> QED BY <2>1, <2>2 DEF Resting, Aim
<1>8. ASSUME Settled, NEW sub \in RangeOf(SubModels[screen.main]), Later(Rest, sub),
             Aim(<<screen.main, sub>>)
      PROVE  Picking'
  <2>1. Settled' /\ ~screen'.updating
    BY <1>3, <1>8 DEF Settled
  <2>2. sub \in RangeOf(SubModels[screen'.main]) /\ Later(todo', sub)
    BY <1>3, <1>8
  <2>3. Aims(Loading', stored'["amiga_model"], conf'["amiga_model"], <<screen'.main, sub>>)
    BY <1>3, <1>5, <1>8 DEF Aim
  <2> QED BY <2>1, <2>2, <2>3 DEF Picking, Aim
<1>9. CASE Resting
  BY <1>4, <1>7, <1>9 DEF Resting, ModelFollows
<1>10. CASE ShownAll
  BY <1>7, <1>8, <1>10, Zenon DEF ShownAll, After, Ends, Aim, ModelFollows
<1>11. CASE Picking
  <2>1. PICK sub \in RangeOf(SubModels[screen.main]) : Later(todo, sub) /\ Aim(<<screen.main, sub>>)
    BY <1>11 DEF Picking
  <2>2. Settled /\ Later(Rest, sub)
    BY <1>4, <1>6, <1>11, <2>1 DEF Picking
  <2>3. Picking'
    BY <1>8, <2>1, <2>2
  <2> QED BY <2>3 DEF ModelFollows
<1> QED BY <1>1, <1>9, <1>10, <1>11, Stages

(* What is set when only the model is, or nothing that is announced. *)
LEMMA HeardAlone ==
    ASSUME NEW caller \in Seq(Calls)
    PROVE  /\ conf'["kickstart_file"] = conf["kickstart_file"]
                => AllHeard \o caller = Heard("amiga_model") \o caller
           /\ conf'["amiga_model"] = conf["amiga_model"]
                => AllHeard \o caller = Heard("kickstart_file") \o caller
           /\ conf'["kickstart_file"] = conf["kickstart_file"] /\ conf'["amiga_model"] = conf["amiga_model"]
                => AllHeard \o caller = caller
<1>1. Heard("amiga_model") \in Seq(Calls) /\ Heard("kickstart_file") \in Seq(Calls)
  BY HeardKinds
<1>2. conf'["kickstart_file"] = conf["kickstart_file"] => Heard("kickstart_file") = <<>>
  BY DEF Heard
<1>3. conf'["amiga_model"] = conf["amiga_model"] => Heard("amiga_model") = <<>>
  BY DEF Heard
<1>4. <<>> \o caller = caller
  BY ConcatEmptySeq
<1>5. /\ Heard("amiga_model") \o <<>> = Heard("amiga_model")
      /\ <<>> \o Heard("kickstart_file") = Heard("kickstart_file")
  BY <1>1, ConcatEmptySeq
<1> HIDE DEF Heard
<1>6. conf'["kickstart_file"] = conf["kickstart_file"]
        => AllHeard \o caller = Heard("amiga_model") \o caller
  BY <1>2, <1>5 DEF AllHeard
<1>7. conf'["amiga_model"] = conf["amiga_model"]
        => AllHeard \o caller = Heard("kickstart_file") \o caller
  BY <1>3, <1>5 DEF AllHeard
<1>8. ASSUME conf'["kickstart_file"] = conf["kickstart_file"],
             conf'["amiga_model"] = conf["amiga_model"]
      PROVE  AllHeard \o caller = caller
  <2>1. AllHeard = <<>>
    BY <1>2, <1>3, <1>5, <1>8 DEF AllHeard
  <2> QED BY <1>4, <2>1
<1> QED BY <1>6, <1>7, <1>8

LEMMA ModelEffect ==
    ASSUME IInv, NEW value, NEW caller \in Seq(Calls), SetOne("amiga_model", value, caller)
    PROVE  /\ conf'["amiga_model"] = value
           /\ todo' = IF value # conf["amiga_model"] THEN <<Told("amiga_model")>> \o caller ELSE caller
           /\ todo' = Heard("amiga_model") \o caller
           /\ conf'["kickstart_file"] = conf["kickstart_file"]
           /\ conf'["x_kickstart_file"] = conf["x_kickstart_file"]
           /\ \/ changed' = Yes /\ dirty' = TRUE
              \/ UNCHANGED <<conf, changed, dirty>>
<1>1. DOMAIN Only("amiga_model", value) = {"amiga_model"} /\ Only("amiga_model", value)["amiga_model"] = value
  BY DEF Only
<1>2. Assign(Only("amiga_model", value), <<>>, caller)
  BY DEF SetOne
<1>3. DOMAIN Only("amiga_model", value) \subseteq Keys
  BY <1>1, KeyKinds
<1>4. /\ \A key \in Keys : conf'[key] = IF key \in DOMAIN Only("amiga_model", value)
                                       THEN Only("amiga_model", value)[key] ELSE conf[key]
      /\ todo' = AllHeard \o caller
      /\ \/ changed' = Yes /\ dirty' = TRUE
         \/ UNCHANGED <<conf, changed, dirty>>
  BY <1>2, <1>3, AssignEffect
<1>5. /\ conf'["amiga_model"] = value /\ conf'["kickstart_file"] = conf["kickstart_file"]
      /\ conf'["x_kickstart_file"] = conf["x_kickstart_file"]
  BY <1>1, <1>4, KeyKinds
<1>6. todo' = Heard("amiga_model") \o caller
  BY <1>4, <1>5, HeardAlone
<1>7. <<>> \o caller = caller
  BY ConcatEmptySeq
<1>8. todo' = IF value # conf["amiga_model"] THEN <<Told("amiga_model")>> \o caller ELSE caller
  BY <1>5, <1>6, <1>7 DEF Heard
<1> QED BY <1>4, <1>5, <1>6, <1>8

(* The calls of ModelGroup that follow each other. *)
LEMMA BothBelow ==
    ASSUME IInv, ChoosingBoth
    PROVE  /\ Rest = <<ChooseSub(Shown(conf["amiga_model"])[2])>> \o Tail(Rest)
           /\ Tail(Rest) = <<Call("updated")>> \o Tail(Tail(Rest))
           /\ ChooseSub(Shown(conf["amiga_model"])[2]) \in Calls /\ Call("updated") \in Calls
           /\ Rest \in Seq(Calls) /\ Tail(Rest) \in Seq(Calls) /\ Tail(Tail(Rest)) \in Seq(Calls)
<1>1. ~Idle /\ Rest # <<>> /\ Tail(Rest) # <<>>
  BY DEF ChoosingBoth
<1>2. Rest \in Seq(Calls)
  BY <1>1, Top
<1>3. Rest = <<Head(Rest)>> \o Tail(Rest) /\ Head(Rest) \in Calls /\ Tail(Rest) \in Seq(Calls)
  BY <1>1, <1>2, Innermost
<1>4. /\ Tail(Rest) = <<Head(Tail(Rest))>> \o Tail(Tail(Rest)) /\ Head(Tail(Rest)) \in Calls
      /\ Tail(Tail(Rest)) \in Seq(Calls)
  BY <1>1, <1>3, Innermost
<1>5. Head(Rest) = ChooseSub(Shown(conf["amiga_model"])[2]) /\ Head(Tail(Rest)) = Call("updated")
  BY DEF ChoosingBoth
<1> QED BY <1>2, <1>3, <1>4, <1>5

(* Loading goes on below a call that is not its end. *)
LEMMA LoadingBelow ==
    ASSUME IInv, ~Idle, Head(todo).do # "loaded"
    PROVE  /\ Loading <=> Has(Rest, Call("loaded"))
           /\ todo' = Rest => (Loading' <=> Loading)
<1>1. \A c : Has(todo, c) <=> Head(todo) = c \/ Has(Rest, c)
  BY Top
<1>2. Head(todo) # Call("loaded")
  BY CallReads, Zenon
<1>3. Loading <=> Has(Rest, Call("loaded"))
  BY <1>1, <1>2 DEF Loading
<1>4. todo' = Rest => (Loading' <=> Has(Rest, Call("loaded")))
  BY DEF Loading
<1> QED BY <1>3, <1>4

LEMMA AlreadyMain ==
    ASSUME IInv, ModelFollows, AlreadyShown, Calling("choose main")
    PROVE  ModelFollows'
<1>1. ~Idle /\ Head(todo).do = "choose main" /\ Head(todo) \in Calls /\ Rest \in Seq(Calls)
  BY Top DEF Calling
<1>2. /\ Head(todo).main = screen.main /\ todo' = Rest /\ UNCHANGED <<conf, stored, screen>>
  BY <1>1 DEF AlreadyShown, Calling
<1>3. Loading' <=> Loading
  BY <1>1, <1>2, LoadingBelow
<1>4. CASE ChoosingBoth
  <2>1. screen.main = Shown(conf["amiga_model"])[1]
    <3>1. Head(todo) = ChooseMain(Shown(conf["amiga_model"])[1])
      BY <1>4 DEF ChoosingBoth
    <3> DEFINE main == Shown(conf["amiga_model"])[1]
    <3>2. ChooseMain(main).main = main
      BY DEF ChooseMain
    <3> HIDE DEF main
    <3>3. Head(todo) = ChooseMain(main)
      BY <3>1 DEF main
    <3>4. Head(todo).main = main
      BY <3>2, <3>3, Zenon
    <3> QED BY <1>2, <3>4 DEF main
  <2>2. ~Idle' /\ Rest' # <<>> /\ Rest' = Tail(Rest)
    BY <1>2, <1>4 DEF ChoosingBoth, Idle, Rest
  <2>3. /\ Head(todo') = ChooseSub(Shown(conf'["amiga_model"])[2]) /\ Head(Rest') = Call("updated")
        /\ screen'.updating /\ screen'.main = Shown(conf'["amiga_model"])[1]
    BY <1>2, <1>4, <2>1, <2>2 DEF ChoosingBoth
  <2>4. Ends(Tail(Rest'), Loading', stored'["amiga_model"], conf'["amiga_model"], screen'.main)
    BY <1>2, <1>3, <1>4, <2>2, EndsSame DEF ChoosingBoth, After
  <2>5. ChoosingSub'
    BY <2>2, <2>3, <2>4 DEF ChoosingSub, After
  <2> QED BY <2>5 DEF ModelFollows
<1>5. CASE Clicked
  <2>1. Rest = <<>>
    <3>1. PICK x : todo = <<x>>
      BY <1>5 DEF Clicked
    <3> QED BY <3>1, LastOne DEF Rest
  <2>2. Calm(todo') /\ ~Loading'
    BY <1>2, <2>1, NothingLeft DEF Loading
  <2>3. Settled' /\ ~screen'.updating
    BY <1>2, <1>5 DEF Clicked, Settled
  <2>4. Resting'
    BY <2>2, <2>3 DEF Resting, Aim, Aims
  <2> QED BY <2>4 DEF ModelFollows
<1> QED BY <1>1, <1>4, <1>5, Stages

LEMMA AlreadySub ==
    ASSUME IInv, ModelFollows, AlreadyShown, Calling("choose sub")
    PROVE  ModelFollows'
<1>1. ~Idle /\ Head(todo).do = "choose sub" /\ Head(todo) \in Calls /\ Rest \in Seq(Calls)
  BY Top DEF Calling
<1>2. /\ Head(todo).sub = screen.sub /\ todo' = Rest /\ UNCHANGED <<conf, stored, screen>>
  BY <1>1 DEF AlreadyShown, Calling
<1>3. Loading' <=> Loading
  BY <1>1, <1>2, LoadingBelow
<1>4. \A sub : Head(todo) = ChooseSub(sub) => sub = screen.sub
  BY <1>2, CallReads, Zenon
<1>5. CASE ChoosingSub
  <2>1. screen.sub = Shown(conf["amiga_model"])[2]
    BY <1>4, <1>5 DEF ChoosingSub
  <2>2. Settled'
    <3>1. Shown(conf["amiga_model"]) = <<Shown(conf["amiga_model"])[1], Shown(conf["amiga_model"])[2]>>
      BY ShownPair
    <3>2. screen.main = Shown(conf["amiga_model"])[1]
      BY <1>5 DEF ChoosingSub
    <3> QED BY <1>2, <2>1, <3>1, <3>2 DEF Settled
  <2>3. ~Idle' /\ Rest' = Tail(Rest) /\ Head(todo') = Call("updated")
    BY <1>2, <1>5 DEF ChoosingSub, Idle, Rest
  <2>4. Ends(Rest', Loading', stored'["amiga_model"], conf'["amiga_model"], screen'.main)
    BY <1>2, <1>3, <1>5, <2>3, EndsSame DEF ChoosingSub, After
  <2>5. ShownAll'
    BY <2>2, <2>3, <2>4 DEF ShownAll, After
  <2> QED BY <2>5 DEF ModelFollows
<1>6. CASE Picking
  <2>1. PICK sub \in RangeOf(SubModels[screen.main]) : Later(todo, sub) /\ Aim(<<screen.main, sub>>)
    BY <1>6 DEF Picking
  <2>2. ~Lull(Head(todo))
    BY <1>1 DEF Lull
  <2>3. Head(todo) = ChooseSub(sub) /\ Calm(Rest)
    BY <1>1, <2>1, <2>2, Top
  <2>4. <<screen.main, sub>> = Shown(conf["amiga_model"])
    BY <1>4, <1>6, <2>3 DEF Picking, Settled
  <2>5. Model(conf["amiga_model"]) \in Models => Model(conf["amiga_model"]) = <<screen.main, sub>>
    BY <2>4, ShownPair
  <2>6. Aim(Model(conf["amiga_model"]))
    BY <2>1, <2>5 DEF Aim, Aims
  <2>7. Aims(Loading', stored'["amiga_model"], conf'["amiga_model"], Model(conf'["amiga_model"]))
    BY <1>2, <1>3, <2>6 DEF Aim
  <2>8. Calm(todo') /\ Settled' /\ ~screen'.updating
    BY <1>2, <1>6, <2>3 DEF Picking, Settled
  <2>9. Resting'
    BY <2>7, <2>8 DEF Resting, Aim
  <2> QED BY <2>9 DEF ModelFollows
<1> QED BY <1>1, <1>5, <1>6, Stages

LEMMA ModelChangedKeeps ==
    ASSUME IInv, ModelFollows, OnModelChanged
    PROVE  ModelFollows'
<1> DEFINE main == Head(todo).main
<1>1. ~Idle /\ Head(todo).do = "choose main" /\ Head(todo) \in Calls /\ Rest \in Seq(Calls)
  BY Top DEF OnModelChanged, Calling
<1>2. main # screen.main /\ main \in Mains
  BY <1>1, CallKinds DEF OnModelChanged
<1>3. screen'.main = main /\ screen'.sub = screen.sub /\ screen'.updating = screen.updating
  BY DEF OnModelChanged, IInv, TypeOK
<1>4. /\ conf'["amiga_model"] = ValueOf(main) /\ stored' = stored
      /\ todo' = IF ValueOf(main) # conf["amiga_model"]
                 THEN <<Told("amiga_model")>> \o Rest ELSE Rest
  BY <1>1, ModelEffect DEF OnModelChanged
<1>5. \A m : Head(todo) = ChooseMain(m) => m = main
  BY CallReads, Zenon
<1> HIDE DEF main
<1>6. /\ Model(ValueOf(main)) = <<main, Plain>> /\ Model(ValueOf(main)) \in Models
      /\ Shown(ValueOf(main)) = <<main, Plain>>
  BY <1>2, MainIsModel
<1> DEFINE told == <<Told("amiga_model")>> \o Rest
<1>7. /\ told # <<>> /\ Head(told) = Told("amiga_model") /\ Tail(told) = Rest
      /\ \A c : Has(told, c) <=> Told("amiga_model") = c \/ Has(Rest, c)
  <2>1. Told("amiga_model") \in Calls
    BY CallsMade DEF Told
  <2> DEFINE a == Told("amiga_model")
  <2> HIDE DEF a
  <2>2. a \in Calls
    BY <2>1 DEF a
  <2>3. /\ <<a>> \o Rest # <<>> /\ Head(<<a>> \o Rest) = a /\ Tail(<<a>> \o Rest) = Rest
    BY <1>1, <2>2, Pushed
  <2>4. \A c : Has(<<a>> \o Rest, c) <=> a = c \/ Has(Rest, c)
    BY <1>1, <2>2, PushedHas
  <2> QED BY <2>3, <2>4 DEF a
<1>8. Told("amiga_model") # Call("loaded")
  BY DEF Told, Call
<1> HIDE DEF told
<1>9. Loading' => Loading
  <2>1. Loading <=> Has(Rest, Call("loaded"))
    BY <1>1, LoadingBelow
  <2>2. todo' \in {told, Rest}
    BY <1>4 DEF told
  <2> QED BY <1>7, <1>8, <2>1, <2>2 DEF Loading
<1>10. CASE ChoosingBoth
  <2> DEFINE sub == Shown(conf["amiga_model"])[2]
             r == Tail(Tail(Rest))
  <2>1. /\ main = Shown(conf["amiga_model"])[1] /\ screen.updating
        /\ Head(Rest) = ChooseSub(sub) /\ Head(Tail(Rest)) = Call("updated") /\ After(r)
        /\ Rest # <<>> /\ Tail(Rest) # <<>>
    BY <1>5, <1>10 DEF ChoosingBoth
  <2>2. sub \in RangeOf(SubModels[main]) /\ Shown(conf["amiga_model"]) = <<main, sub>>
        /\ (Model(conf["amiga_model"]) \in Models => Model(conf["amiga_model"]) = <<main, sub>>)
    BY <2>1, ShownPair
  <2>3. Calm(r) /\ Aim(Model(conf["amiga_model"]))
    <3>1. conf["amiga_model"] # ValueOf(screen.main)
      <4>1. screen.main \in Mains
        BY DEF IInv, TypeOK
      <4>2. Shown(ValueOf(screen.main)) = <<screen.main, Plain>>
        BY <4>1, MainIsModel
      <4> QED BY <1>2, <2>2, <4>2
    <3> QED BY <2>1, <3>1 DEF After, Ends, Aim
  <2>4. /\ Rest = <<ChooseSub(sub)>> \o Tail(Rest) /\ Tail(Rest) = <<Call("updated")>> \o r
        /\ ChooseSub(sub) \in Calls /\ Call("updated") \in Calls
        /\ Tail(Rest) \in Seq(Calls) /\ r \in Seq(Calls)
    BY <1>10, BothBelow
  <2> HIDE DEF sub, r
  <2>5. Later(Rest, sub)
    <3>1. Calm(Tail(Rest))
      BY <2>3, <2>4, PushedCalm, LullKinds
    <3> DEFINE a == ChooseSub(sub)
               r1 == Tail(Rest)
    <3>2. a \in Calls /\ r1 \in Seq(Calls) /\ a = ChooseSub(sub) /\ Calm(r1) /\ Rest = <<a>> \o r1
      BY <2>4, <3>1
    <3> HIDE DEF a, r1
    <3>3. Later(<<a>> \o r1, sub)
      BY <3>2, PushedLater
    <3> QED BY <3>2, <3>3
  <2>6. CASE ValueOf(main) # conf["amiga_model"]
    <3>1. todo' = told
      BY <1>4, <2>6 DEF told
    <3>2. ~Idle' /\ Head(todo') = Told("amiga_model") /\ Rest' = Rest
      BY <1>7, <3>1 DEF Idle, Rest
    <3>3. Aims(Loading', stored'["amiga_model"], conf'["amiga_model"], <<main, sub>>)
      BY <1>4, <1>6, <1>9, <2>2, <2>3 DEF Aim, Aims
    <3>4. Ends(Rest', Loading', stored'["amiga_model"], conf'["amiga_model"], screen'.main)
      <4>1. \E x \in RangeOf(SubModels[main]) :
               Later(Rest, x) /\ Aims(Loading', stored'["amiga_model"], conf'["amiga_model"], <<main, x>>)
        BY <2>2, <2>5, <3>3
      <4> QED BY <1>3, <1>4, <3>2, <4>1 DEF Ends
    <3>5. Telling'
      BY <3>2, <3>4 DEF Telling, After
    <3> QED BY <3>5 DEF ModelFollows
  <2>7. CASE ValueOf(main) = conf["amiga_model"]
    <3>1. todo' = Rest /\ conf'["amiga_model"] = conf["amiga_model"]
      BY <1>4, <2>7
    <3>2. /\ ~Idle' /\ Rest' = Tail(Rest) /\ Rest' # <<>> /\ screen'.updating
          /\ screen'.main = Shown(conf'["amiga_model"])[1]
          /\ Head(todo') = ChooseSub(Shown(conf'["amiga_model"])[2])
          /\ Head(Rest') = Call("updated") /\ Tail(Rest') = r
      BY <1>3, <2>1, <3>1 DEF Idle, Rest, sub, r
    <3>3. Ends(r, Loading', stored'["amiga_model"], conf'["amiga_model"], screen'.main)
      BY <1>4, <1>9, <2>3, <3>1 DEF Ends, Aim, Aims
    <3>4. ChoosingSub'
      BY <3>2, <3>3 DEF ChoosingSub, After
    <3> QED BY <3>4 DEF ModelFollows
  <2> QED BY <2>6, <2>7
<1>11. CASE Clicked
  <2>1. Rest = <<>> /\ Settled
    <3>1. PICK x : todo = <<x>> /\ Settled
      BY <1>11 DEF Clicked
    <3> QED BY <3>1, LastOne DEF Rest
  <2>2. ValueOf(main) # conf["amiga_model"]
    BY <1>2, <1>6, <2>1 DEF Settled
  <2>3. todo' = told
    BY <1>4, <2>2 DEF told
  <2>4. ~Idle' /\ Head(todo') = Told("amiga_model") /\ Rest' = <<>>
    BY <1>7, <2>1, <2>3 DEF Idle, Rest
  <2>5. ~Loading'
    BY <1>7, <1>8, <2>1, <2>3, NothingLeft DEF Loading
  <2>6. Ends(Rest', Loading', stored'["amiga_model"], conf'["amiga_model"], screen'.main)
    BY <2>4, <2>5, NothingLeft DEF Ends, Aims
  <2>7. Telling'
    BY <2>4, <2>6 DEF Telling, After
  <2> QED BY <2>7 DEF ModelFollows
<1> QED BY <1>1, <1>10, <1>11, Stages

LEMMA SubModelChangedKeeps ==
    ASSUME IInv, ModelFollows, OnSubModelChanged
    PROVE  ModelFollows'
<1> DEFINE sub == Head(todo).sub
<1>1. ~Idle /\ Head(todo).do = "choose sub" /\ Head(todo) \in Calls /\ Rest \in Seq(Calls)
  BY Top DEF OnSubModelChanged, Calling
<1>2. screen'.main = screen.main /\ screen'.sub = sub /\ screen'.updating = screen.updating
  BY DEF OnSubModelChanged, IInv, TypeOK
<1>3. stored' = stored
  BY DEF OnSubModelChanged
<1>4. \A x : Head(todo) = ChooseSub(x) => x = sub
  BY CallReads, Zenon
<1>5. Loading <=> Has(Rest, Call("loaded"))
  BY <1>1, LoadingBelow
<1>6. CASE ChoosingSub
  <2>1. todo' = Rest /\ conf' = conf
    BY <1>6 DEF OnSubModelChanged, ChoosingSub
  <2>2. Loading' <=> Loading
    BY <1>1, <2>1, LoadingBelow
  <2>3. Settled'
    <3>1. Shown(conf["amiga_model"]) = <<Shown(conf["amiga_model"])[1], Shown(conf["amiga_model"])[2]>>
      BY ShownPair
    <3>2. screen.main = Shown(conf["amiga_model"])[1] /\ sub = Shown(conf["amiga_model"])[2]
      BY <1>4, <1>6 DEF ChoosingSub
    <3> QED BY <1>2, <2>1, <3>1, <3>2 DEF Settled
  <2>4. ~Idle' /\ Rest' = Tail(Rest) /\ Head(todo') = Call("updated")
    BY <1>6, <2>1 DEF ChoosingSub, Idle, Rest
  <2>5. Ends(Rest', Loading', stored'["amiga_model"], conf'["amiga_model"], screen'.main)
    BY <1>2, <1>3, <1>6, <2>1, <2>2, <2>4, EndsSame DEF ChoosingSub, After
  <2>6. ShownAll'
    BY <2>3, <2>4, <2>5 DEF ShownAll, After
  <2> QED BY <2>6 DEF ModelFollows
<1>7. CASE Picking
  <2>1. PICK x \in RangeOf(SubModels[screen.main]) : Later(todo, x) /\ Aim(<<screen.main, x>>)
    BY <1>7 DEF Picking
  <2>2. ~Lull(Head(todo))
    BY <1>1 DEF Lull
  <2>3. Head(todo) = ChooseSub(x) /\ Calm(Rest)
    BY <1>1, <2>1, <2>2, Top
  <2>4. x = sub /\ screen.main \in Mains
    BY <1>4, <2>3 DEF IInv, TypeOK
  <2> DEFINE clear == Call("clear media")
             model == <<screen.main, sub>>
             caller == <<clear>> \o Rest
  <2>5. model \in Models /\ Model(model) = model /\ Shown(model) = model
    BY <2>1, <2>4, PairIsModel
  <2>6. clear \in Calls /\ Lull(clear) /\ clear # Call("loaded")
    <3>1. clear # Call("loaded")
      BY DEF Call
    <3> QED BY <3>1, CallsMade, LullKinds
  <2>7. SetOne("amiga_model", model, caller)
    BY <1>7 DEF OnSubModelChanged, Picking
  <2> HIDE DEF clear, model
  <2>8. /\ caller \in Seq(Calls) /\ Calm(caller)
        /\ \A c : Has(caller, c) <=> clear = c \/ Has(Rest, c)
    BY <1>1, <2>3, <2>6, Pushed, PushedCalm, PushedHas
  <2> HIDE DEF caller
  <2>9. /\ conf'["amiga_model"] = model
        /\ todo' = IF model # conf["amiga_model"] THEN <<Told("amiga_model")>> \o caller ELSE caller
    BY <2>7, <2>8, ModelEffect
  <2> DEFINE told == Told("amiga_model")
  <2>10. told \in Calls /\ told # Call("loaded")
    <3>1. told # Call("loaded")
      BY DEF Told, Call
    <3> QED BY <3>1, CallsMade DEF Told
  <2> HIDE DEF told
  <2>11. /\ <<told>> \o caller # <<>> /\ Head(<<told>> \o caller) = told
         /\ Tail(<<told>> \o caller) = caller
    BY <2>8, <2>10, Pushed
  <2>12. \A c : Has(<<told>> \o caller, c) <=> told = c \/ Has(caller, c)
    BY <2>8, <2>10, PushedHas
  <2>13. Loading' => Loading
    BY <1>5, <2>6, <2>8, <2>9, <2>10, <2>12 DEF Loading, told
  <2>14. Aims(Loading', stored'["amiga_model"], conf'["amiga_model"], Model(conf'["amiga_model"]))
    <3>1. Aims(Loading, stored["amiga_model"], conf["amiga_model"], model)
      BY <2>1, <2>4 DEF Aim, model
    <3> QED BY <1>3, <2>5, <2>9, <2>13, <3>1 DEF Aims
  <2>15. CASE model # conf["amiga_model"]
    <3>1. ~Idle' /\ Head(todo') = Told("amiga_model") /\ Rest' = caller
      BY <2>9, <2>11, <2>15 DEF Idle, Rest, told
    <3>2. Ends(Rest', Loading', stored'["amiga_model"], conf'["amiga_model"], screen'.main)
      BY <2>8, <2>14, <3>1 DEF Ends
    <3>3. Telling'
      BY <3>1, <3>2 DEF Telling, After
    <3> QED BY <3>3 DEF ModelFollows
  <2>16. CASE model = conf["amiga_model"]
    <3>1. todo' = caller
      BY <2>9, <2>16
    <3>2. Settled' /\ ~screen'.updating
      BY <1>2, <1>7, <2>5, <2>9 DEF Picking, Settled, model
    <3>3. Resting'
      BY <2>8, <2>14, <3>1, <3>2 DEF Resting, Aim
    <3> QED BY <3>3 DEF ModelFollows
  <2> QED BY <2>15, <2>16
<1> QED BY <1>1, <1>6, <1>7, Stages

-----------------------------------------------------------------------------
(* Calls that put files, and calls by which the Kickstart is heard of. *)
LEMMA PutsAreCalm ==
    ASSUME NEW calls, Puts(calls)
    PROVE  /\ Calm(calls) /\ ~Has(calls, Call("loaded"))
           /\ \A i \in DOMAIN calls : calls[i].do # "choose ROM"
<1>1. Calm(calls)
  BY LullKinds DEF Puts, Calm
<1>2. ~Has(calls, Call("loaded"))
  <2>1. Call("loaded").do = "loaded"
    BY DEF Call
  <2> QED BY <2>1, Zenon DEF Puts, Has
<1>3. \A i \in DOMAIN calls : calls[i].do # "choose ROM"
  BY DEF Puts
<1> QED BY <1>1, <1>2, <1>3

LEMMA JoinedPuts ==
    ASSUME NEW s \in Seq(Calls), NEW r \in Seq(Calls), Puts(s), Puts(r)
    PROVE  Puts(s \o r)
<1>1. /\ Puts(s) <=> \A c : Has(s, c) => c.do = "put"
      /\ Puts(r) <=> \A c : Has(r, c) => c.do = "put"
      /\ Puts(s \o r) <=> \A c : Has(s \o r, c) => c.do = "put"
  BY DEF Puts, Has
<1>2. \A c : Has(s \o r, c) <=> Has(s, c) \/ Has(r, c)
  BY JoinedHas
<1> QED BY <1>1, <1>2

LEMMA OnePuts ==
    ASSUME NEW keys \in SUBSET Media
    PROVE  <<Empty(keys)>> \in Seq(Calls) /\ Puts(<<Empty(keys)>>)
<1>1. Empty(keys) \in Calls
  BY CallsMade DEF Paths
<1>2. <<Empty(keys)>> \in Seq(Calls)
  BY <1>1, Single
<1>3. Puts(<<Empty(keys)>>)
  BY DEF Empty, Put, Puts
<1> QED BY <1>2, <1>3

LEMMA HeardRom ==
    /\ Calm(Heard("kickstart_file")) /\ ~Has(Heard("kickstart_file"), Call("loaded"))
    /\ Heard("kickstart_file") \in Seq(Calls)
    /\ \A i \in DOMAIN Heard("kickstart_file") : Heard("kickstart_file")[i].do # "choose ROM"
<1> DEFINE told == Told("kickstart_file")
<1>1. Lull(told) /\ told # Call("loaded") /\ told.do # "choose ROM"
  <2>1. told.do = "notify" /\ told # Call("loaded")
    BY DEF Told, Call
  <2> QED BY <2>1, LullKinds
<1> HIDE DEF told
<1>2. /\ Calm(<<told>>) /\ ~Has(<<told>>, Call("loaded"))
      /\ \A i \in DOMAIN <<told>> : <<told>>[i].do # "choose ROM"
  <2>1. DOMAIN <<told>> = {1} /\ <<told>>[1] = told
    OBVIOUS
  <2>2. /\ \A i \in DOMAIN <<told>> : <<told>>[i] = told
    BY <2>1
  <2> QED BY <1>1, <2>2, Zenon DEF Calm, Has
<1>3. Calm(<<>>) /\ ~Has(<<>>, Call("loaded")) /\ DOMAIN <<>> = {}
  BY NothingLeft
<1>4. Heard("kickstart_file") \in {<<told>>, <<>>}
  BY DEF Heard, told
<1> HIDE DEF Heard
<1> QED BY <1>2, <1>3, <1>4, HeardKinds

LEMMA ClearMediaCalls ==
    ASSUME IInv, ClearMedia
    PROVE  \E pre \in Seq(Calls) : Puts(pre) /\ todo' = pre \o Rest
<1>1. /\ EmptyEach(FloppyDrives) \in Seq(Calls) /\ Puts(EmptyEach(FloppyDrives))
      /\ RangeOf(FloppyList) \in SUBSET Media /\ RangeOf(CDList) \in SUBSET Media
      /\ {CDDrives[1]} \in SUBSET Media
  <2>1. CDDrives[1] \in Media
    BY MediaKeys, ConfigurationAssumption
  <2> QED BY <2>1, MediaKeys, EmptyEachKind, EmptyEachPuts
<1> DEFINE a == Empty(RangeOf(FloppyList))
           b == Empty({CDDrives[1]})
           c == Empty(RangeOf(CDList))
           each == EmptyEach(FloppyDrives)
<1>2. /\ <<a>> \in Seq(Calls) /\ Puts(<<a>>) /\ <<b>> \in Seq(Calls) /\ Puts(<<b>>)
      /\ <<c>> \in Seq(Calls) /\ Puts(<<c>>)
  BY <1>1, OnePuts
<1>3. a \in Calls /\ b \in Calls /\ c \in Calls
  BY <1>1, CallsMade DEF Paths
<1>4. \/ todo' = Append(each, a) \o Rest
      \/ todo' = <<b, c>> \o Rest
  BY DEF ClearMedia
<1> HIDE DEF a, b, c, each
<1>5. Append(each, a) = each \o <<a>> /\ Append(each, a) \in Seq(Calls)
  BY <1>1, <1>3, AppendIsConcat, AppendProperties DEF each
<1>6. Puts(Append(each, a))
  BY <1>1, <1>2, <1>5, JoinedPuts DEF each
<1>7. <<b, c>> \in Seq(Calls)
  BY <1>3
<1>8. Puts(<<b, c>>)
  <2>1. b.do = "put" /\ c.do = "put"
    BY DEF b, c, Empty, Put
  <2> QED BY <2>1 DEF Puts
<1> QED BY <1>4, <1>5, <1>6, <1>7, <1>8

(* What a step that sets no model and no Kickstart leaves to be done. *)
LEMMA PutCalls ==
    ASSUME IInv, DoPut
    PROVE  /\ todo' = Rest /\ Rest \in Seq(Calls)
           /\ \A key \in {"amiga_model", "kickstart_file", "x_kickstart_file"} : conf'[key] = conf[key]
           /\ \/ changed' = Yes /\ dirty' = TRUE
              \/ UNCHANGED <<conf, changed, dirty>>
<1> DEFINE c == Head(todo)
           values == [k \in c.keys |-> c.file]
<1>1. ~Idle /\ c \in Calls /\ Rest \in Seq(Calls) /\ c.keys \subseteq Media
  BY Top, CallKinds DEF DoPut, Calling
<1>2. Assign(values, [k \in c.keys |-> c.sum], Rest)
  BY DEF DoPut
<1>3. DOMAIN values = c.keys
  OBVIOUS
<1> HIDE DEF values, c
<1>4. /\ \A key \in Keys : conf'[key] = IF key \in DOMAIN values THEN values[key] ELSE conf[key]
      /\ todo' = AllHeard \o Rest
      /\ \/ changed' = Yes /\ dirty' = TRUE
         \/ UNCHANGED <<conf, changed, dirty>>
  BY <1>1, <1>2, <1>3, KeyKinds, AssignEffect
<1>5. \A key \in {"amiga_model", "kickstart_file", "x_kickstart_file"} : conf'[key] = conf[key]
  BY <1>1, <1>3, <1>4, KeyKinds
<1> QED BY <1>1, <1>4, <1>5, HeardAlone

LEMMA UpdateCalls ==
    ASSUME IInv, UpdateKickstart
    PROVE  /\ todo' = Rest /\ Rest \in Seq(Calls)
           /\ conf'["amiga_model"] = conf["amiga_model"]
           /\ conf'["kickstart_file"] = conf["kickstart_file"]
           /\ conf'["x_kickstart_file"] =
                 KickstartOf(conf["amiga_model"], conf["kickstart_file"], sums["x_kickstart_file"]).file
           /\ \/ changed' = Yes /\ dirty' = TRUE
              \/ UNCHANGED <<conf, changed, dirty>>
<1> DEFINE k == KickstartOf(conf["amiga_model"], conf["kickstart_file"], sums["x_kickstart_file"])
           values == Only("x_kickstart_file", k.file)
<1>1. Rest \in Seq(Calls)
  BY Top DEF UpdateKickstart, Calling
<1>2. Assign(values, Only("x_kickstart_file", k.sum), Rest)
  BY DEF UpdateKickstart, SetFile
<1>3. DOMAIN values = {"x_kickstart_file"} /\ values["x_kickstart_file"] = k.file
  BY DEF Only
<1> HIDE DEF values, k
<1>4. /\ \A key \in Keys : conf'[key] = IF key \in DOMAIN values THEN values[key] ELSE conf[key]
      /\ todo' = AllHeard \o Rest
      /\ \/ changed' = Yes /\ dirty' = TRUE
         \/ UNCHANGED <<conf, changed, dirty>>
  BY <1>1, <1>2, <1>3, KeyKinds, AssignEffect
<1>5. /\ conf'["amiga_model"] = conf["amiga_model"] /\ conf'["kickstart_file"] = conf["kickstart_file"]
      /\ conf'["x_kickstart_file"] = k.file
  BY <1>3, <1>4, KeyKinds
<1>6. todo' = Rest
  BY <1>1, <1>4, <1>5, HeardAlone
<1> QED BY <1>1, <1>4, <1>5, <1>6 DEF k

LEMMA RomChangedCalls ==
    ASSUME IInv, OnKickstartTypeChanged
    PROVE  /\ SameChoices /\ screen'.rom = Head(todo).type /\ stored' = stored
           /\ ~Idle /\ Head(todo) \in Calls /\ Head(todo) = ChooseRom(Head(todo).type)
           /\ Rest \in Seq(Calls)
           /\ conf'["amiga_model"] = conf["amiga_model"]
           /\ conf'["x_kickstart_file"] = conf["x_kickstart_file"]
           /\ \/ changed' = Yes /\ dirty' = TRUE
              \/ UNCHANGED <<conf, changed, dirty>>
           /\ \/ /\ Head(todo).type # "custom" /\ Head(todo).type = RomType(conf["kickstart_file"])
                 /\ todo' = Rest /\ conf' = conf
              \/ /\ ~(Head(todo).type # "custom" /\ Head(todo).type = RomType(conf["kickstart_file"]))
                 /\ conf'["kickstart_file"] =
                       CASE Head(todo).type = "default" -> None
                         [] Head(todo).type = "internal" -> Internal
                         [] OTHER -> conf["x_kickstart_file"]
                 /\ todo' = Heard("kickstart_file") \o (<<Call("update kickstart")>> \o Rest)
<1> DEFINE type == Head(todo).type
           value == CASE type = "default" -> None
                      [] type = "internal" -> Internal
                      [] OTHER -> conf["x_kickstart_file"]
           values == Only("kickstart_file", value)
           caller == <<Call("update kickstart")>> \o Rest
<1>1. /\ ~Idle /\ Head(todo).do = "choose ROM" /\ Head(todo) \in Calls /\ Rest \in Seq(Calls)
      /\ stored' = stored
  BY Top DEF OnKickstartTypeChanged, Calling
<1>2. Head(todo) = ChooseRom(type)
  BY <1>1, CallShapes
<1>3. SameChoices /\ screen'.rom = type
  BY DEF OnKickstartTypeChanged, SameChoices, IInv, TypeOK
<1>4. caller \in Seq(Calls)
  BY <1>1, CallsMade, Pushed
<1>5. CASE type # "custom" /\ type = RomType(conf["kickstart_file"])
  <2>1. todo' = Rest /\ UNCHANGED <<conf, sums, changed, dirty>>
    BY <1>5 DEF OnKickstartTypeChanged
  <2> QED BY <1>1, <1>2, <1>3, <1>5, <2>1
<1>6. CASE ~(type # "custom" /\ type = RomType(conf["kickstart_file"]))
  <2>1. Assign(values, <<>>, caller)
    BY <1>6 DEF OnKickstartTypeChanged, SetOne
  <2>2. DOMAIN values = {"kickstart_file"} /\ values["kickstart_file"] = value
    BY DEF Only
  <2> HIDE DEF values, value, caller
  <2>3. /\ \A key \in Keys : conf'[key] = IF key \in DOMAIN values THEN values[key] ELSE conf[key]
        /\ todo' = AllHeard \o caller
        /\ \/ changed' = Yes /\ dirty' = TRUE
           \/ UNCHANGED <<conf, changed, dirty>>
    BY <1>4, <2>1, <2>2, KeyKinds, AssignEffect
  <2>4. /\ conf'["amiga_model"] = conf["amiga_model"]
        /\ conf'["kickstart_file"] = value
        /\ conf'["x_kickstart_file"] = conf["x_kickstart_file"]
    BY <2>2, <2>3, KeyKinds
  <2>5. todo' = Heard("kickstart_file") \o caller
    BY <1>4, <2>3, <2>4, HeardAlone
  <2> QED BY <1>1, <1>2, <1>3, <1>6, <2>3, <2>4, <2>5 DEF value, caller
<1> QED BY <1>5, <1>6

(* Each step of a call keeps the choices after the model. *)
LEMMA ModelStep ==
    ASSUME IInv, ModelFollows, Step
    PROVE  ModelFollows'
<1> DEFINE c == Head(todo)
<1>1. <<>> \in Seq(Calls) /\ Calm(<<>>) /\ ~Has(<<>>, Call("loaded"))
      /\ \A r \in Seq(Calls) : <<>> \o r = r
  BY NothingLeft
<1>2. ASSUME ~Idle, c.do \in {"update kickstart", "clear media", "loaded", "put", "choose ROM"}
      PROVE  /\ Lull(c) /\ c # Call("updated") /\ Rest \in Seq(Calls)
  <2>1. c \in Calls /\ Rest \in Seq(Calls)
    BY <1>2, Top
  <2>2. c # Call("updated")
    BY <1>2, CallReads, Zenon
  <2>3. Lull(c)
    <3>1. c # Told("amiga_model")
      BY <1>2, CallReads, Zenon
    <3> QED BY <1>2, <3>1 DEF Lull
  <2> QED BY <2>1, <2>2, <2>3
<1>3. ASSUME ~Idle, c.do \in {"update kickstart", "clear media", "loaded", "put", "choose ROM"},
             todo' = Rest, SameModel, SameChoices
      PROVE  ModelFollows'
  <2>1. Lull(c) /\ c # Call("updated") /\ todo' = <<>> \o Rest
    BY <1>1, <1>2, <1>3
  <2> QED BY <1>1, <1>3, <2>1, CalmReturn
<1>4. CASE Notify
  BY <1>4, NotifyModel
<1>5. CASE UpdateKickstart
  <2>1. ~Idle /\ c.do = "update kickstart" /\ todo' = Rest /\ SameModel /\ SameChoices
    BY <1>5, UpdateCalls DEF UpdateKickstart, Calling, SameModel, SameChoices
  <2> QED BY <1>3, <2>1
<1>6. CASE ShowModel
  BY <1>6, ShowModelKeeps
<1>7. CASE Updated
  BY <1>7, UpdatedKeeps
<1>8. CASE AlreadyShown
  <2>1. CASE Calling("choose main")
    BY <1>8, <2>1, AlreadyMain
  <2>2. CASE Calling("choose sub")
    BY <1>8, <2>2, AlreadySub
  <2>3. CASE Calling("choose ROM")
    <3>1. ~Idle /\ c.do = "choose ROM" /\ todo' = Rest /\ SameModel /\ SameChoices
      BY <1>8, <2>3 DEF AlreadyShown, Calling, SameModel, SameChoices
    <3> QED BY <1>3, <3>1
  <2> QED BY <1>8, <2>1, <2>2, <2>3 DEF AlreadyShown
<1>9. CASE OnModelChanged
  BY <1>9, ModelChangedKeeps
<1>10. CASE OnSubModelChanged
  BY <1>10, SubModelChangedKeeps
<1>11. CASE ClearMedia
  <2>1. ~Idle /\ c.do = "clear media" /\ SameModel /\ SameChoices
    BY <1>11 DEF ClearMedia, Calling, SameModel, SameChoices
  <2>2. PICK pre \in Seq(Calls) : Puts(pre) /\ todo' = pre \o Rest
    BY <1>11, ClearMediaCalls
  <2>3. Calm(pre) /\ ~Has(pre, Call("loaded"))
    BY <2>2, PutsAreCalm
  <2>4. Lull(c) /\ c # Call("updated")
    BY <1>2, <2>1
  <2> QED BY <2>1, <2>2, <2>3, <2>4, CalmReturn
<1>12. CASE DoPut
  <2>1. ~Idle /\ c.do = "put" /\ todo' = Rest /\ SameModel /\ SameChoices
    BY <1>12, PutCalls DEF DoPut, Calling, SameModel, SameChoices
  <2> QED BY <1>3, <2>1
<1>13. CASE OnKickstartTypeChanged
  <2>1. /\ ~Idle /\ c.do = "choose ROM" /\ SameModel /\ SameChoices /\ Rest \in Seq(Calls)
        /\ \/ todo' = Rest
           \/ todo' = Heard("kickstart_file") \o (<<Call("update kickstart")>> \o Rest)
    BY <1>13, RomChangedCalls DEF OnKickstartTypeChanged, Calling, SameModel
  <2>2. CASE todo' = Rest
    BY <1>3, <2>1, <2>2
  <2>3. CASE todo' = Heard("kickstart_file") \o (<<Call("update kickstart")>> \o Rest)
    <3> DEFINE heard == Heard("kickstart_file")
               update == Call("update kickstart")
               pre == heard \o <<update>>
    <3>1. Lull(update) /\ update \in Calls /\ update # Call("loaded")
      <4>1. update # Call("loaded")
        BY DEF Call
      <4> QED BY <4>1, LullKinds, CallsMade
    <3>2. heard \in Seq(Calls) /\ Calm(heard) /\ ~Has(heard, Call("loaded"))
      BY HeardRom
    <3> HIDE DEF heard, update
    <3>3. <<update>> \in Seq(Calls) /\ Calm(<<update>>) /\ ~Has(<<update>>, Call("loaded"))
      <4>1. DOMAIN <<update>> = {1} /\ <<update>>[1] = update
        OBVIOUS
      <4>2. \A i \in DOMAIN <<update>> : <<update>>[i] = update
        BY <4>1
      <4>3. Calm(<<update>>) /\ ~Has(<<update>>, Call("loaded"))
        BY <3>1, <4>2, Zenon DEF Calm, Has
      <4> QED BY <3>1, <4>3
    <3>4. pre \in Seq(Calls) /\ Calm(pre) /\ ~Has(pre, Call("loaded"))
      BY <3>2, <3>3, ConcatProperties, JoinedCalm, JoinedHas
    <3>5. todo' = pre \o Rest
      <4>1. pre \o Rest = heard \o (<<update>> \o Rest)
        <5> DEFINE u == <<update>>
        <5>1. u \in Seq(Calls) /\ heard \in Seq(Calls) /\ Rest \in Seq(Calls)
          BY <2>1, <3>2, <3>3
        <5> HIDE DEF u
        <5>2. (heard \o u) \o Rest = heard \o (u \o Rest)
          BY <5>1, ConcatAssociative
        <5> QED BY <5>2 DEF u
      <4> QED BY <2>3, <4>1 DEF heard, update
    <3>6. Lull(c) /\ c # Call("updated")
      BY <1>2, <2>1
    <3> HIDE DEF pre
    <3> QED BY <2>1, <3>4, <3>5, <3>6, CalmReturn
  <2> QED BY <2>1, <2>2, <2>3
<1>14. CASE MarkLoaded
  <2>1. ~Idle /\ c.do = "loaded" /\ todo' = Rest /\ SameModel /\ SameChoices
    BY <1>14 DEF MarkLoaded, Calling, SameModel, SameChoices
  <2> QED BY <1>3, <2>1
<1> QED BY <1>4, <1>5, <1>6, <1>7, <1>8, <1>9, <1>10, <1>11, <1>12, <1>13, <1>14 DEF Step

(* The turns of the player, which begin when nothing is left to do. *)
LEMMA IdleRests ==
    ASSUME ModelFollows, Idle
    PROVE  Settled /\ ~screen.updating
<1>1. todo = <<>> /\ \A c : ~Has(todo, c)
  BY NothingLeft DEF Idle
<1>2. Resting
  <2>1. \A sub : ~Later(todo, sub)
    BY <1>1, NothingLeft
  <2>2. ~Picking
    BY <2>1, Zenon DEF Picking
  <2>3. ~Clicked
    <3>1. \A x : <<x>> # <<>>
      OBVIOUS
    <3> QED BY <1>1, <3>1, Zenon DEF Clicked
  <2> QED BY <2>2, <2>3 DEF ModelFollows, Telling, ChoosingBoth, ChoosingSub, ShownAll
<1> QED BY <1>1, <1>2 DEF Resting

LEMMA ModelTurn ==
    ASSUME IInv, ModelFollows, Idle, SameChoices,
           NEW calls \in Seq(Calls), Calm(calls), todo' = AllHeard \o calls,
           Has(calls, Call("loaded")) => stored'["amiga_model"] = conf'["amiga_model"]
    PROVE  ModelFollows'
<1> DEFINE told == Told("amiga_model")
           heard == Heard("kickstart_file")
           r == heard \o calls
<1>1. Settled /\ ~screen.updating
  BY IdleRests
<1>2. /\ heard \in Seq(Calls) /\ Calm(heard) /\ ~Has(heard, Call("loaded"))
  BY HeardRom
<1>3. told \in Calls /\ told # Call("loaded")
  <2>1. told # Call("loaded")
    BY DEF Told, Call
  <2> QED BY <2>1, CallsMade DEF Told
<1> HIDE DEF heard
<1>4. r \in Seq(Calls) /\ Calm(r) /\ (Has(r, Call("loaded")) <=> Has(calls, Call("loaded")))
  BY <1>2, ConcatProperties, JoinedCalm, JoinedHas
<1> HIDE DEF r
<1>5. todo' = Heard("amiga_model") \o r
  BY <1>2, HeardKinds, ConcatAssociative DEF AllHeard, heard, r
<1>6. CASE conf'["amiga_model"] # conf["amiga_model"]
  <2> HIDE DEF told
  <2>1. todo' = <<told>> \o r
    BY <1>5, <1>6 DEF Heard, told
  <2>2. todo' # <<>> /\ Head(todo') = told /\ Tail(todo') = r
    BY <1>3, <1>4, <2>1, Pushed
  <2>3. Loading' => Has(calls, Call("loaded"))
    BY <1>3, <1>4, <2>1, PushedHas DEF Loading
  <2>4. Ends(Rest', Loading', stored'["amiga_model"], conf'["amiga_model"], screen'.main)
    BY <1>4, <2>2, <2>3 DEF Ends, Aims, Rest
  <2>5. Telling'
    BY <2>2, <2>4 DEF Telling, After, Idle, told
  <2> QED BY <2>5 DEF ModelFollows
<1>7. CASE conf'["amiga_model"] = conf["amiga_model"]
  <2>1. todo' = r
    BY <1>4, <1>5, <1>7, NothingLeft DEF Heard
  <2>2. Aims(Loading', stored'["amiga_model"], conf'["amiga_model"], Model(conf'["amiga_model"]))
    BY <1>4, <2>1 DEF Aims, Loading
  <2>3. Settled' /\ ~screen'.updating
    BY <1>1, <1>7 DEF Settled, SameChoices
  <2>4. Resting'
    BY <1>4, <2>1, <2>2, <2>3 DEF Resting, Aim
  <2> QED BY <2>4 DEF ModelFollows
<1> QED BY <1>6, <1>7

LEMMA ModelClick ==
    ASSUME IInv, ModelFollows, PickChoice
    PROVE  ModelFollows'
<1>1. Idle /\ UNCHANGED <<conf, stored, screen>>
  BY DEF PickChoice, Turn, Others, Start
<1>2. Settled' /\ ~screen'.updating
  BY <1>1, IdleRests DEF Settled
<1>3. CASE \E main \in Mains : Start(<<ChooseMain(main)>>)
  <2>1. PICK main \in Mains : todo' = <<ChooseMain(main)>>
    BY <1>3 DEF Start
  <2>2. Clicked'
    BY <1>2, <2>1 DEF Clicked
  <2> QED BY <2>2 DEF ModelFollows
<1>4. CASE \E sub \in RangeOf(SubModels[screen.main]) : Start(<<ChooseSub(sub)>>)
  <2>1. PICK sub \in RangeOf(SubModels[screen.main]) : todo' = <<ChooseSub(sub)>>
    BY <1>4 DEF Start
  <2> DEFINE a == ChooseSub(sub)
  <2>2. a \in Calls
    <3>1. screen.main \in Mains
      BY DEF IInv, TypeOK
    <3>2. sub \in STRING
      BY <3>1, ConfigurationAssumption DEF RangeOf
    <3> QED BY <3>2, CallsMade
  <2>3. a # Call("loaded")
    BY DEF ChooseSub, Call
  <2>4. a = ChooseSub(sub)
    OBVIOUS
  <2> HIDE DEF a
  <2>8. Later(todo', sub) /\ ~Loading'
    BY <2>1, <2>2, <2>3, <2>4, OneLeft DEF Loading
  <2>9. Aims(Loading', stored'["amiga_model"], conf'["amiga_model"], <<screen'.main, sub>>)
    BY <2>8 DEF Aims
  <2>10. \E x \in RangeOf(SubModels[screen'.main]) :
            Later(todo', x) /\ Aims(Loading', stored'["amiga_model"], conf'["amiga_model"], <<screen'.main, x>>)
    BY <1>1, <2>8, <2>9
  <2>11. Picking'
    BY <1>2, <2>10 DEF Picking, Aim
  <2> QED BY <2>11 DEF ModelFollows
<1>5. CASE \E type \in {"default", "custom", "internal"} : Start(<<ChooseRom(type)>>)
  <2>1. PICK type \in RomTypes : todo' = <<ChooseRom(type)>>
    BY <1>5 DEF Start, RomTypes
  <2> DEFINE a == ChooseRom(type)
  <2>2. a \in Calls /\ Lull(a) /\ a # Call("loaded")
    <3>1. a # Call("loaded")
      BY DEF ChooseRom, Call
    <3> QED BY <3>1, LullKinds, CallsMade
  <2> HIDE DEF a
  <2>5. Calm(todo') /\ ~Loading'
    BY <2>1, <2>2, OneLeft DEF Loading, a
  <2>6. Aims(Loading', stored'["amiga_model"], conf'["amiga_model"], Model(conf'["amiga_model"]))
    BY <2>5 DEF Aims
  <2>7. Resting'
    BY <1>2, <2>5, <2>6 DEF Resting, Aim
  <2> QED BY <2>7 DEF ModelFollows
<1> QED BY <1>3, <1>4, <1>5 DEF PickChoice

-----------------------------------------------------------------------------
(* The Kickstart.  What is in use depends on the model, on what is named   *)
(* and on what is known; a named one is used as it is.                     *)
LEMMA NamedInUse ==
    ASSUME NEW model, NEW named, NEW sum
    PROVE  KickstartOf(model, named, sum).file = RomFor(Model(model), named, Known(Model(model)))
<1>1. CASE named = Internal
  BY <1>1 DEF KickstartOf, RomFor, None, Internal
<1>2. CASE named \notin {None, Internal}
  BY <1>2 DEF KickstartOf, RomFor
<1>3. CASE named = None /\ named # Internal
  <2>1. CASE Known(Model(model)) # {}
    BY <1>3, <2>1 DEF KickstartOf, RomFor, BestRom, Least
  <2>2. CASE Known(Model(model)) = {}
    BY <1>3, <2>2 DEF KickstartOf, RomFor
  <2> QED BY <2>1, <2>2
<1> QED BY <1>1, <1>2, <1>3

LEMMA SameInUse ==
    ASSUME indexed' = indexed, conf'["amiga_model"] = conf["amiga_model"],
           conf'["kickstart_file"] = conf["kickstart_file"]
    PROVE  RomInUse' = RomInUse
<1>1. Known(Model(conf["amiga_model"]))' = Known(Model(conf["amiga_model"]))
  BY DEF Known
<1> QED BY <1>1 DEF RomInUse

(* Calls among which is neither the end of a load nor a choice of the ROM. *)
Quiet(calls) == \A i \in DOMAIN calls : calls[i] # Call("loaded") /\ calls[i].do # "choose ROM"

LEMMA QuietHas ==
    ASSUME NEW calls
    PROVE  /\ Quiet(calls) <=> \A c : Has(calls, c) => c # Call("loaded") /\ c.do # "choose ROM"
           /\ Quiet(calls) => ~Has(calls, Call("loaded"))
<1>1. Quiet(calls) <=> \A c : Has(calls, c) => c # Call("loaded") /\ c.do # "choose ROM"
  BY DEF Quiet, Has
<1> QED BY <1>1, Zenon

LEMMA JoinedQuiet ==
    ASSUME NEW s \in Seq(Calls), NEW r \in Seq(Calls)
    PROVE  Quiet(s \o r) <=> Quiet(s) /\ Quiet(r)
<1>1. \A c : Has(s \o r, c) <=> Has(s, c) \/ Has(r, c)
  BY JoinedHas
<1> QED BY <1>1, QuietHas, Zenon

LEMMA OneQuiet ==
    ASSUME NEW a \in Calls, a.do \notin {"loaded", "choose ROM"}
    PROVE  <<a>> \in Seq(Calls) /\ Quiet(<<a>>)
<1>1. <<a>> \in Seq(Calls) /\ \A c : Has(<<a>>, c) <=> a = c
  BY OneLeft
<1>2. a # Call("loaded")
  <2>1. a.do # "loaded"
    OBVIOUS
  <2> QED BY <2>1, CallReads, Zenon
<1>3. \A c : Has(<<a>>, c) => c # Call("loaded") /\ c.do # "choose ROM"
  BY <1>1, <1>2
<1> QED BY <1>1, <1>3, QuietHas

LEMMA NoneQuiet == <<>> \in Seq(Calls) /\ Quiet(<<>>) /\ \A r \in Seq(Calls) : <<>> \o r = r
<1>1. Quiet(<<>>)
  BY NothingLeft, QuietHas
<1>2. \A r \in Seq(Calls) : <<>> \o r = r
  BY NothingLeft
<1>3. <<>> \in Seq(Calls)
  OBVIOUS
<1> QED BY <1>1, <1>2, <1>3

LEMMA PutsAreQuiet ==
    ASSUME NEW calls, Puts(calls)
    PROVE  Quiet(calls)
  BY PutsAreCalm, Zenon DEF Quiet, Has

LEMMA HeardModel ==
    /\ Heard("amiga_model") \in Seq(Calls) /\ Quiet(Heard("amiga_model"))
    /\ conf'["amiga_model"] # conf["amiga_model"] => Has(Heard("amiga_model"), Told("amiga_model"))
<1> DEFINE told == Told("amiga_model")
<1>1. told \in Calls /\ told.do = "notify"
  BY CallsMade DEF Told
<1> HIDE DEF told
<1>2. Quiet(<<told>>) /\ Has(<<told>>, told)
  <2>1. told.do \notin {"loaded", "choose ROM"}
    BY <1>1
  <2> QED BY <1>1, <2>1, OneQuiet, OneLeft
<1>3. Quiet(<<>>)
  BY NoneQuiet
<1>4. Heard("amiga_model") = IF conf'["amiga_model"] # conf["amiga_model"] THEN <<told>> ELSE <<>>
  BY DEF Heard, told
<1>5. Quiet(Heard("amiga_model"))
  BY <1>2, <1>3, <1>4
<1>6. conf'["amiga_model"] # conf["amiga_model"] => Has(Heard("amiga_model"), told)
  BY <1>2, <1>4
<1> QED BY <1>5, <1>6, HeardKinds DEF told

(* What is in use stays what a load found. *)
LEMMA LoadsKept ==
    ASSUME IInv, KickstartLoads, ~Idle, NEW pre \in Seq(Calls), todo' = pre \o Rest, Quiet(pre),
           stored' = stored, Loading => conf'["kickstart_file"] = conf["kickstart_file"],
           Loading /\ conf["kickstart_file"] \notin {None, Internal}
              => conf'["x_kickstart_file"] \in {conf["x_kickstart_file"], conf["kickstart_file"]}
    PROVE  KickstartLoads'
<1>1. /\ \A c : Has(todo, c) <=> Head(todo) = c \/ Has(Rest, c)
      /\ \A c : Has(todo', c) <=> Has(pre, c) \/ Has(Rest, c)
  BY Top, JoinedHas
<1> SUFFICES ASSUME Loading'
             PROVE  /\ conf'["kickstart_file"] = stored'["kickstart_file"]
                    /\ conf'["kickstart_file"] \notin {None, Internal} =>
                          conf'["x_kickstart_file"] = conf'["kickstart_file"]
                    /\ \A i \in DOMAIN todo' :
                          todo'[i].do = "choose ROM" => todo'[i].type = RomType(conf'["kickstart_file"])
  BY DEF KickstartLoads
<1>2. Loading
  BY <1>1, QuietHas DEF Loading
<1>3. /\ conf["kickstart_file"] = stored["kickstart_file"]
      /\ conf["kickstart_file"] \notin {None, Internal} =>
            conf["x_kickstart_file"] = conf["kickstart_file"]
      /\ \A i \in DOMAIN todo :
            todo[i].do = "choose ROM" => todo[i].type = RomType(conf["kickstart_file"])
  BY <1>2 DEF KickstartLoads
<1>4. ASSUME NEW i \in DOMAIN todo', todo'[i].do = "choose ROM"
      PROVE  todo'[i].type = RomType(conf["kickstart_file"])
  <2> DEFINE c == todo'[i]
  <2>1. Has(todo', c)
    BY <1>4 DEF Has
  <2>2. ~Has(pre, c)
    BY <1>4 DEF Has, Quiet
  <2>3. Has(todo, c)
    BY <1>1, <2>1, <2>2
  <2> QED BY <1>3, <1>4, <2>3 DEF Has
<1> QED BY <1>2, <1>3, <1>4

(* A call that does not concern the Kickstart. *)
LEMMA RomElsewhere ==
    ASSUME IInv, KickstartFollows, ~Idle,
           Head(todo).do \notin {"notify", "update kickstart", "choose ROM"},
           NEW pre \in Seq(Calls), todo' = pre \o Rest, Quiet(pre),
           conf'["amiga_model"] # conf["amiga_model"] => Has(pre, Told("amiga_model")),
           conf'["kickstart_file"] = conf["kickstart_file"],
           conf'["x_kickstart_file"] = conf["x_kickstart_file"],
           screen'.rom = screen.rom, UNCHANGED <<stored, typed, scanned, indexed>>
    PROVE  KickstartFollows'
<1> DEFINE told == Told("kickstart_file")
           update == Call("update kickstart")
           model == Told("amiga_model")
<1>1. Rest \in Seq(Calls) /\ \A c : Has(todo, c) <=> Head(todo) = c \/ Has(Rest, c)
  BY Top
<1>2. \A c : Has(todo', c) <=> Has(pre, c) \/ Has(Rest, c)
  BY <1>1, JoinedHas
<1>3. Head(todo) # told /\ Head(todo) # update /\ Head(todo) # model
      /\ \A type : Head(todo) # ChooseRom(type)
  BY CallReads, Zenon
<1>4. /\ Has(todo, told) => Has(todo', told)
      /\ Has(todo, update) => Has(todo', update)
      /\ Has(todo, model) => Has(todo', model)
  BY <1>1, <1>2, <1>3
<1>5. RomFollows'
  BY <1>3, <1>4 DEF KickstartFollows, RomFollows
<1>6. InUse'
  <2>1. CASE conf'["amiga_model"] # conf["amiga_model"]
    BY <1>2, <2>1 DEF InUse
  <2>2. CASE conf'["amiga_model"] = conf["amiga_model"]
    <3>1. RomInUse' = RomInUse
      BY <2>2, SameInUse
    <3> QED BY <1>4, <3>1 DEF KickstartFollows, InUse
  <2> QED BY <2>1, <2>2
<1>7. KickstartLoads'
  BY LoadsKept DEF KickstartFollows
<1> QED BY <1>5, <1>6, <1>7 DEF KickstartFollows

LEMMA RomNotify ==
    ASSUME IInv, KickstartFollows, Notify
    PROVE  KickstartFollows'
<1>1. /\ ~Idle /\ Head(todo) \in Calls /\ Rest \in Seq(Calls)
      /\ \A c : Has(todo, c) <=> Head(todo) = c \/ Has(Rest, c)
      /\ Head(todo).do = "notify"
  BY Top DEF Notify, Calling
<1>2. Head(todo) = Told(Head(todo).key) /\ Head(todo).key \in {"amiga_model", "kickstart_file"}
  BY <1>1, CallShapes, CallKinds
<1>3. UNCHANGED <<conf, stored, screen, indexed, scanned, typed>>
  BY DEF Notify
<1>4. RomInUse' = RomInUse
  BY <1>3, SameInUse
<1>5. Head(todo) # Call("update kickstart") /\ Head(todo) # Call("loaded")
      /\ \A type : Head(todo) # ChooseRom(type)
  <2>1. Head(todo) # Call("update kickstart")
    <3>1. Head(todo).do # "update kickstart"
      BY <1>1
    <3> QED BY <3>1, CallReads, Zenon
  <2>2. Head(todo) # Call("loaded")
    <3>1. Head(todo).do # "loaded"
      BY <1>1
    <3> QED BY <3>1, CallReads, Zenon
  <2>3. \A type : Head(todo) # ChooseRom(type)
    BY <1>1, CallReads, Zenon
  <2> QED BY <2>1, <2>2, <2>3
<1>6. CASE Head(todo).key = "amiga_model"
  <2> DEFINE show == Showing(conf["amiga_model"])
             update == Call("update kickstart")
             r == <<update>> \o Rest
  <2>1. show \in Calls /\ update \in Calls
    <3>1. conf["amiga_model"] \in ModelNames \cup {Unset}
      BY DEF IInv, TypeOK
    <3> QED BY <3>1, CallsMade DEF Showing
  <2>2. todo' = <<show, update>> \o Rest
    BY <1>6 DEF Notify, Showing
  <2>3. show.do = "show model" /\ update.do = "update kickstart"
    BY DEF Showing, Call
  <2>4. show # Call("loaded") /\ update # Call("loaded")
    BY DEF Showing, Call
  <2> HIDE DEF show, update
  <2>5. r \in Seq(Calls) /\ todo' = <<show>> \o r /\ \A c : Has(r, c) <=> update = c \/ Has(Rest, c)
    <3>1. r \in Seq(Calls)
      BY <1>1, <2>1, Pushed
    <3>2. todo' = <<show>> \o r
      BY <1>1, <2>1, <2>2, OneByOne DEF update
    <3>3. \A c : Has(r, c) <=> update = c \/ Has(Rest, c)
      BY <1>1, <2>1, PushedHas
    <3> QED BY <3>1, <3>2, <3>3
  <2> HIDE DEF r
  <2>6. \A c : Has(todo', c) <=> show = c \/ update = c \/ Has(Rest, c)
    BY <2>1, <2>5, PushedHas
  <2>7. InUse'
    BY <2>6 DEF InUse, update
  <2>8. Head(todo) # Told("kickstart_file")
    <3>1. Told("amiga_model") # Told("kickstart_file")
      BY DEF Told
    <3> QED BY <1>2, <1>6, <3>1
  <2>9. RomFollows'
    BY <1>1, <1>3, <1>5, <2>6, <2>8 DEF KickstartFollows, RomFollows
  <2>10. KickstartLoads'
    <3>1. Loading' => Loading
      BY <1>1, <2>4, <2>6 DEF Loading
    <3>2. ASSUME Loading', NEW i \in DOMAIN todo', todo'[i].do = "choose ROM"
          PROVE  todo'[i].type = RomType(conf["kickstart_file"])
      <4> DEFINE c == todo'[i]
      <4>1. Has(todo', c)
        BY <3>2 DEF Has
      <4>2. show # c /\ update # c
        BY <2>3, <3>2
      <4>3. Has(todo, c)
        BY <1>1, <2>6, <4>1, <4>2
      <4> QED BY <3>1, <3>2, <4>3 DEF Has, KickstartFollows, KickstartLoads
    <3> QED BY <1>3, <3>1, <3>2 DEF KickstartFollows, KickstartLoads
  <2> QED BY <2>7, <2>9, <2>10 DEF KickstartFollows
<1>7. CASE Head(todo).key = "kickstart_file"
  <2> DEFINE type == RomType(conf["kickstart_file"])
             choose == ChooseRom(type)
  <2>1. choose \in Calls
    <3>1. type \in RomTypes
      BY DEF RomType, RomTypes
    <3> QED BY <3>1, CallsMade
  <2>2. todo' = <<choose>> \o Rest
    BY <1>2, <1>7 DEF Notify
  <2>3. choose.do = "choose ROM" /\ choose.type = type /\ choose # Call("loaded")
    BY DEF ChooseRom, Call
  <2>4. choose = ChooseRom(RomType(conf["kickstart_file"]))
    OBVIOUS
  <2> HIDE DEF choose
  <2>5. /\ todo' # <<>> /\ Head(todo') = choose
        /\ \A c : Has(todo', c) <=> choose = c \/ Has(Rest, c)
    BY <1>1, <2>1, <2>2, Pushed, PushedHas
  <2>6. RomFollows'
    BY <1>3, <2>4, <2>5 DEF RomFollows, Idle
  <2>7. InUse'
    <3>1. Head(todo) # Told("amiga_model")
      <4>1. Told("amiga_model") # Told("kickstart_file")
        BY DEF Told
      <4> QED BY <1>2, <1>7, <4>1
    <3> QED BY <1>1, <1>3, <1>4, <1>5, <2>5, <3>1 DEF KickstartFollows, InUse
  <2>8. KickstartLoads'
    <3>1. Loading' => Loading
      BY <1>1, <2>3, <2>5 DEF Loading
    <3>2. ASSUME Loading', NEW i \in DOMAIN todo', todo'[i].do = "choose ROM"
          PROVE  todo'[i].type = RomType(conf["kickstart_file"])
      <4> DEFINE c == todo'[i]
      <4>1. Has(todo', c)
        BY <3>2 DEF Has
      <4>2. CASE choose = c
        BY <2>3, <4>2
      <4>3. CASE choose # c
        <5>1. Has(todo, c)
          BY <1>1, <2>5, <4>1, <4>3
        <5> QED BY <3>1, <3>2, <5>1 DEF Has, KickstartFollows, KickstartLoads
      <4> QED BY <4>2, <4>3
    <3> QED BY <1>3, <3>1, <3>2 DEF KickstartFollows, KickstartLoads
  <2> QED BY <2>6, <2>7, <2>8 DEF KickstartFollows
<1> QED BY <1>2, <1>6, <1>7

LEMMA RomUpdate ==
    ASSUME IInv, KickstartFollows, UpdateKickstart
    PROVE  KickstartFollows'
<1> DEFINE named == conf["kickstart_file"]
           k == KickstartOf(conf["amiga_model"], named, sums["x_kickstart_file"])
<1>1. /\ ~Idle /\ Head(todo).do = "update kickstart" /\ Rest \in Seq(Calls)
      /\ \A c : Has(todo, c) <=> Head(todo) = c \/ Has(Rest, c)
      /\ UNCHANGED <<stored, screen, indexed, scanned>>
  BY Top DEF UpdateKickstart, Calling
<1>2. /\ todo' = Rest /\ conf'["amiga_model"] = conf["amiga_model"]
      /\ conf'["kickstart_file"] = named /\ conf'["x_kickstart_file"] = k.file
  BY UpdateCalls
<1>3. k.file = RomInUse
  BY NamedInUse DEF RomInUse
<1> HIDE DEF k
<1>4. InUse'
  <2>1. RomInUse' = RomInUse
    BY <1>1, <1>2, SameInUse
  <2> QED BY <1>2, <1>3, <2>1 DEF InUse
<1>5. RomFollows'
  <2>1. Head(todo) # Told("kickstart_file") /\ \A type : Head(todo) # ChooseRom(type)
    BY <1>1, CallReads, Zenon
  <2> QED BY <1>1, <1>2, <2>1 DEF KickstartFollows, RomFollows
<1>6. KickstartLoads'
  <2>1. named \notin {None, Internal} => k.file = named
    BY <1>3 DEF RomInUse, RomFor
  <2>2. todo' = <<>> \o Rest /\ <<>> \in Seq(Calls) /\ Quiet(<<>>)
    BY <1>1, <1>2, NoneQuiet
  <2>3. conf'["kickstart_file"] = conf["kickstart_file"] /\ stored' = stored
    BY <1>1, <1>2
  <2>4. conf["kickstart_file"] \notin {None, Internal}
          => conf'["x_kickstart_file"] \in {conf["x_kickstart_file"], conf["kickstart_file"]}
    BY <1>2, <2>1
  <2> QED BY <1>1, <2>2, <2>3, <2>4, LoadsKept DEF KickstartFollows
<1> QED BY <1>4, <1>5, <1>6 DEF KickstartFollows

LEMMA RomShown ==
    ASSUME IInv, KickstartFollows, AlreadyShown, Calling("choose ROM")
    PROVE  KickstartFollows'
<1>1. /\ ~Idle /\ Head(todo).do = "choose ROM" /\ Rest \in Seq(Calls) /\ todo' = Rest
      /\ \A c : Has(todo, c) <=> Head(todo) = c \/ Has(Rest, c)
      /\ UNCHANGED <<conf, stored, screen, indexed, scanned, typed>>
      /\ Head(todo).type = screen.rom
  BY Top DEF AlreadyShown, Calling
<1>2. Head(todo).do # "notify" /\ Head(todo).do # "update kickstart"
  BY <1>1
<1>3. Head(todo) # Told("kickstart_file") /\ Head(todo) # Told("amiga_model")
  BY <1>2, CallReads, Zenon
<1>4. Head(todo) # Call("update kickstart")
  BY <1>2, CallReads, Zenon
<1>5. \A type : Head(todo) = ChooseRom(type) => screen.rom = type
  BY <1>1, CallReads, Zenon
<1>6. RomFollows'
  BY <1>1, <1>3, <1>5 DEF KickstartFollows, RomFollows
<1>7. InUse'
  <2>1. RomInUse' = RomInUse
    BY <1>1, SameInUse
  <2> QED BY <1>1, <1>3, <1>4, <2>1 DEF KickstartFollows, InUse
<1>8. KickstartLoads'
  <2>1. todo' = <<>> \o Rest /\ <<>> \in Seq(Calls) /\ Quiet(<<>>)
    BY <1>1, NoneQuiet
  <2> QED BY <1>1, <2>1, LoadsKept DEF KickstartFollows
<1> QED BY <1>6, <1>7, <1>8 DEF KickstartFollows

LEMMA RomChanged ==
    ASSUME IInv, KickstartFollows, OnKickstartTypeChanged
    PROVE  KickstartFollows'
<1> DEFINE type == Head(todo).type
           same == type # "custom" /\ type = RomType(conf["kickstart_file"])
           update == Call("update kickstart")
<1>1. /\ ~Idle /\ Head(todo) \in Calls /\ Head(todo) = ChooseRom(type) /\ Rest \in Seq(Calls)
      /\ screen'.rom = type /\ stored' = stored
      /\ conf'["amiga_model"] = conf["amiga_model"]
      /\ conf'["x_kickstart_file"] = conf["x_kickstart_file"]
      /\ \/ same /\ todo' = Rest /\ conf' = conf
         \/ /\ ~same
            /\ conf'["kickstart_file"] =
                  CASE type = "default" -> None
                    [] type = "internal" -> Internal
                    [] OTHER -> conf["x_kickstart_file"]
            /\ todo' = Heard("kickstart_file") \o (<<update>> \o Rest)
  BY RomChangedCalls
<1>2. /\ \A c : Has(todo, c) <=> Head(todo) = c \/ Has(Rest, c)
      /\ UNCHANGED <<indexed, scanned, typed>>
  BY <1>1, Top DEF OnKickstartTypeChanged
<1>3. Head(todo).do = "choose ROM"
  BY DEF OnKickstartTypeChanged, Calling
<1>4. CASE same
  <2>1. todo' = Rest /\ conf' = conf
    BY <1>1, <1>4
  <2>2. RomFollows'
    BY <1>1, <1>4, <2>1 DEF RomFollows
  <2>3. InUse'
    <3>1. Head(todo).do # "notify" /\ Head(todo).do # "update kickstart"
      BY <1>3
    <3>2. Head(todo) # Told("amiga_model")
      BY <3>1, CallReads, Zenon
    <3>3. Head(todo) # update
      BY <3>1, CallReads, Zenon
    <3>4. RomInUse' = RomInUse
      BY <1>2, <2>1, SameInUse
    <3> QED BY <1>2, <2>1, <3>2, <3>3, <3>4 DEF KickstartFollows, InUse
  <2>4. KickstartLoads'
    <3>1. todo' = <<>> \o Rest /\ <<>> \in Seq(Calls) /\ Quiet(<<>>)
      BY <1>1, <2>1, NoneQuiet
    <3> QED BY <1>1, <2>1, <3>1, LoadsKept DEF KickstartFollows
  <2> QED BY <2>2, <2>3, <2>4 DEF KickstartFollows
<1>5. CASE ~same
  <2> DEFINE pre == Heard("kickstart_file") \o <<update>>
  <2>1. /\ conf'["kickstart_file"] =
              CASE type = "default" -> None
                [] type = "internal" -> Internal
                [] OTHER -> conf["x_kickstart_file"]
        /\ todo' = Heard("kickstart_file") \o (<<update>> \o Rest)
    BY <1>1, <1>5
  <2>2. type \in RomTypes
    BY <1>1, <1>3, CallKinds
  <2>3. screen'.rom \in {"custom", RomType(conf'["kickstart_file"])}
    <3>1. CASE type = "default"
      BY <1>1, <2>1, <3>1 DEF RomType, None, Internal
    <3>2. CASE type = "internal"
      BY <1>1, <2>1, <3>2 DEF RomType
    <3>3. CASE type = "custom"
      BY <1>1, <3>3
    <3> QED BY <2>2, <3>1, <3>2, <3>3 DEF RomTypes
  <2>4. RomFollows'
    BY <2>3 DEF RomFollows
  <2>5. update \in Calls /\ update.do = "update kickstart"
    BY CallsMade DEF Call
  <2> HIDE DEF update
  <2>6. <<update>> \in Seq(Calls) /\ Quiet(<<update>>) /\ Has(<<update>>, update)
    <3>1. update.do \notin {"loaded", "choose ROM"}
      BY <2>5
    <3> QED BY <2>5, <3>1, OneQuiet, OneLeft
  <2>7. Heard("kickstart_file") \in Seq(Calls) /\ Quiet(Heard("kickstart_file"))
    BY HeardRom, Zenon DEF Quiet, Has
  <2>8. pre \in Seq(Calls) /\ Quiet(pre) /\ Has(pre, update)
    BY <2>6, <2>7, ConcatProperties, JoinedQuiet, JoinedHas
  <2>9. todo' = pre \o Rest
    <3> DEFINE u == <<update>>
               heard == Heard("kickstart_file")
    <3>1. u \in Seq(Calls) /\ heard \in Seq(Calls) /\ Rest \in Seq(Calls)
      BY <1>1, <2>6, <2>7
    <3> HIDE DEF u, heard
    <3>2. (heard \o u) \o Rest = heard \o (u \o Rest)
      BY <3>1, ConcatAssociative
    <3> QED BY <2>1, <3>2 DEF u, heard
  <2> HIDE DEF pre
  <2>10. InUse'
    <3>1. Has(todo', update)
      BY <1>1, <2>8, <2>9, JoinedHas
    <3> QED BY <3>1 DEF InUse, update
  <2>11. KickstartLoads'
    <3>1. Loading => conf'["kickstart_file"] = conf["kickstart_file"]
      <4> SUFFICES ASSUME Loading
                   PROVE  conf'["kickstart_file"] = conf["kickstart_file"]
        OBVIOUS
      <4>1. /\ conf["kickstart_file"] \notin {None, Internal} =>
                  conf["x_kickstart_file"] = conf["kickstart_file"]
            /\ \A i \in DOMAIN todo :
                  todo[i].do = "choose ROM" => todo[i].type = RomType(conf["kickstart_file"])
        BY DEF KickstartFollows, KickstartLoads
      <4>2. Has(todo, Head(todo))
        BY <1>2
      <4>3. type = RomType(conf["kickstart_file"])
        BY <1>3, <4>1, <4>2 DEF Has
      <4>4. type = "custom"
        BY <1>5, <4>3
      <4>5. conf["kickstart_file"] \notin {None, Internal}
        BY <4>3, <4>4 DEF RomType
      <4> QED BY <2>1, <4>1, <4>4, <4>5
    <3> QED BY <1>1, <2>8, <2>9, <3>1, LoadsKept DEF KickstartFollows
  <2> QED BY <2>4, <2>10, <2>11 DEF KickstartFollows
<1> QED BY <1>4, <1>5

(* Each step of a call keeps the Kickstart in use and its choice. *)
LEMMA RomStep ==
    ASSUME IInv, KickstartFollows, Step
    PROVE  KickstartFollows'
<1> DEFINE c == Head(todo)
           M == conf["amiga_model"]
<1>1. ASSUME ~Idle, c.do \notin {"notify", "update kickstart", "choose ROM"}, todo' = Rest,
             conf'["amiga_model"] = conf["amiga_model"],
             conf'["kickstart_file"] = conf["kickstart_file"],
             conf'["x_kickstart_file"] = conf["x_kickstart_file"],
             screen'.rom = screen.rom, UNCHANGED <<stored, typed, scanned, indexed>>
      PROVE  KickstartFollows'
  <2>1. todo' = <<>> \o Rest /\ <<>> \in Seq(Calls) /\ Quiet(<<>>)
    BY <1>1, Top, NoneQuiet
  <2> QED BY <1>1, <2>1, RomElsewhere
<1>2. CASE Notify
  BY <1>2, RomNotify
<1>3. CASE UpdateKickstart
  BY <1>3, RomUpdate
<1>4. CASE ShowModel
  <2> DEFINE shown == Shown(c.model)
             a == ChooseMain(shown[1])
             b == ChooseSub(shown[2])
             d == Call("updated")
             pre == <<a, b, d>>
  <2>1. /\ ~Idle /\ c.do = "show model" /\ c \in Calls /\ Rest \in Seq(Calls)
        /\ todo' = pre \o Rest /\ screen'.rom = screen.rom
        /\ UNCHANGED <<conf, stored, typed, scanned, indexed>>
    BY <1>4, Top DEF ShowModel, Calling, IInv, TypeOK
  <2>2. a \in Calls /\ b \in Calls /\ d \in Calls
    <3>1. shown[1] \in Mains /\ shown[2] \in STRING
      BY <2>1, CallKinds, ShownKinds
    <3> QED BY <3>1, CallsMade
  <2>3. a.do = "choose main" /\ b.do = "choose sub" /\ d.do = "updated"
    BY DEF ChooseMain, ChooseSub, Call
  <2> HIDE DEF a, b, d
  <2>4. pre \in Seq(Calls)
    BY <2>2
  <2>5. Quiet(pre)
    <3>1. \A x \in Calls : x.do \notin {"loaded", "choose ROM"} => x # Call("loaded")
      <4> SUFFICES ASSUME NEW x \in Calls, x.do # "loaded"
                   PROVE  x # Call("loaded")
        OBVIOUS
      <4> QED BY CallReads, Zenon
    <3>2. DOMAIN pre = {1, 2, 3} /\ pre[1] = a /\ pre[2] = b /\ pre[3] = d
      OBVIOUS
    <3>3. /\ a.do \notin {"loaded", "choose ROM"} /\ b.do \notin {"loaded", "choose ROM"}
          /\ d.do \notin {"loaded", "choose ROM"}
      BY <2>3
    <3>4. /\ a # Call("loaded") /\ b # Call("loaded") /\ d # Call("loaded")
      BY <2>2, <3>1, <3>3
    <3> HIDE DEF pre
    <3> QED BY <3>2, <3>3, <3>4 DEF Quiet
  <2> HIDE DEF pre
  <2> QED BY <2>1, <2>4, <2>5, RomElsewhere
<1>5. CASE Updated
  <2>1. screen'.rom = screen.rom
    BY <1>5 DEF Updated, IInv, TypeOK
  <2> QED BY <1>1, <1>5, <2>1 DEF Updated, Calling
<1>6. CASE AlreadyShown
  <2>1. CASE Calling("choose ROM")
    BY <1>6, <2>1, RomShown
  <2>2. CASE Calling("choose main") \/ Calling("choose sub")
    BY <1>1, <1>6, <2>2 DEF AlreadyShown, Calling
  <2> QED BY <1>6, <2>1, <2>2 DEF AlreadyShown
<1>7. CASE OnModelChanged
  <2>1. /\ ~Idle /\ c.do = "choose main" /\ Rest \in Seq(Calls)
        /\ screen'.rom = screen.rom /\ UNCHANGED <<stored, typed, scanned, indexed>>
        /\ SetOne("amiga_model", ValueOf(c.main), Rest)
    BY <1>7, Top DEF OnModelChanged, Calling, IInv, TypeOK
  <2>2. /\ todo' = Heard("amiga_model") \o Rest
        /\ conf'["kickstart_file"] = conf["kickstart_file"]
        /\ conf'["x_kickstart_file"] = conf["x_kickstart_file"]
    BY <2>1, ModelEffect
  <2> QED BY <2>1, <2>2, HeardModel, RomElsewhere
<1>8. CASE OnSubModelChanged
  <2>1. /\ ~Idle /\ c.do = "choose sub" /\ Rest \in Seq(Calls)
        /\ screen'.rom = screen.rom /\ UNCHANGED <<stored, typed, scanned, indexed>>
    BY <1>8, Top DEF OnSubModelChanged, Calling, IInv, TypeOK
  <2>2. CASE screen.updating
    BY <1>1, <1>8, <2>1, <2>2 DEF OnSubModelChanged
  <2>3. CASE ~screen.updating
    <3> DEFINE clear == Call("clear media")
               heard == Heard("amiga_model")
               pre == heard \o <<clear>>
    <3>1. SetOne("amiga_model", <<screen.main, c.sub>>, <<clear>> \o Rest)
      BY <1>8, <2>3 DEF OnSubModelChanged
    <3>2. clear \in Calls /\ clear.do = "clear media"
      BY CallsMade DEF Call
    <3> HIDE DEF clear
    <3>3. <<clear>> \in Seq(Calls) /\ Quiet(<<clear>>) /\ <<clear>> \o Rest \in Seq(Calls)
      <4>1. clear.do \notin {"loaded", "choose ROM"}
        BY <3>2
      <4> QED BY <2>1, <3>2, <4>1, OneQuiet, Pushed
    <3>4. /\ todo' = heard \o (<<clear>> \o Rest)
          /\ conf'["kickstart_file"] = conf["kickstart_file"]
          /\ conf'["x_kickstart_file"] = conf["x_kickstart_file"]
      BY <3>1, <3>3, ModelEffect
    <3>5. /\ heard \in Seq(Calls) /\ Quiet(heard)
          /\ conf'["amiga_model"] # conf["amiga_model"] => Has(heard, Told("amiga_model"))
      BY HeardModel
    <3> HIDE DEF heard
    <3>6. pre \in Seq(Calls) /\ Quiet(pre)
      BY <3>3, <3>5, ConcatProperties, JoinedQuiet
    <3>7. conf'["amiga_model"] # conf["amiga_model"] => Has(pre, Told("amiga_model"))
      BY <3>3, <3>5, JoinedHas
    <3>8. todo' = pre \o Rest
      <4> DEFINE u == <<clear>>
      <4>1. u \in Seq(Calls) /\ heard \in Seq(Calls) /\ Rest \in Seq(Calls)
        BY <2>1, <3>3, <3>5
      <4> HIDE DEF u
      <4>2. (heard \o u) \o Rest = heard \o (u \o Rest)
        BY <4>1, ConcatAssociative
      <4> QED BY <3>4, <4>2 DEF u
    <3> HIDE DEF pre
    <3> QED BY <2>1, <3>4, <3>6, <3>7, <3>8, RomElsewhere
  <2> QED BY <2>2, <2>3
<1>9. CASE ClearMedia
  <2>1. PICK pre \in Seq(Calls) : Puts(pre) /\ todo' = pre \o Rest
    BY <1>9, ClearMediaCalls
  <2>2. Quiet(pre)
    BY <2>1, PutsAreQuiet
  <2>3. /\ ~Idle /\ c.do = "clear media" /\ UNCHANGED <<conf, screen, stored, typed, scanned, indexed>>
    BY <1>9 DEF ClearMedia, Calling
  <2> QED BY <2>1, <2>2, <2>3, RomElsewhere
<1>10. CASE DoPut
  BY <1>1, <1>10, PutCalls DEF DoPut, Calling
<1>11. CASE OnKickstartTypeChanged
  BY <1>11, RomChanged
<1>12. CASE MarkLoaded
  BY <1>1, <1>12 DEF MarkLoaded, Calling
<1> QED BY <1>2, <1>3, <1>4, <1>5, <1>6, <1>7, <1>8, <1>9, <1>10, <1>11, <1>12 DEF Step

-----------------------------------------------------------------------------
(* The implicit values, and what counts as saved.  What changes the model  *)
(* or the Kickstart marks the configuration and makes the implicit values  *)
(* dirty.                                                                  *)
LEMMA StateKept ==
    ASSUME Derived, SavedKept, derived' = derived, stored' = stored,
           \/ changed' = Yes /\ dirty' = TRUE
           \/ UNCHANGED <<conf, changed, dirty>>
    PROVE  Derived' /\ SavedKept'
<1>1. Yes # No
  BY DEF Yes, No
<1>2. Derived'
  BY DEF Derived
<1>3. SavedKept'
  BY <1>1 DEF SavedKept
<1> QED BY <1>2, <1>3

(* At the end of a load nothing is left that would change the model. *)
LEMMA LoadedModel ==
    ASSUME IInv, ModelFollows, ~Idle, Head(todo).do = "loaded"
    PROVE  Loading /\ Aim(Model(conf["amiga_model"]))
<1>1. /\ Head(todo) \in Calls
      /\ \A c : Has(todo, c) <=> Head(todo) = c \/ Has(Rest, c)
      /\ \A sub : Later(todo, sub) <=>
            \/ Head(todo) = ChooseSub(sub) /\ Calm(Rest)
            \/ Lull(Head(todo)) /\ Head(todo) # Call("loaded") /\ Later(Rest, sub)
  BY Top
<1>2. Head(todo) = Call("loaded")
  <2>1. Head(todo) = Call(Head(todo).do)
    BY <1>1, CallShapes
  <2> QED BY <2>1
<1>3. Loading
  BY <1>1, <1>2 DEF Loading
<1>4. Head(todo).do \notin {"notify", "show model", "choose main", "choose sub", "updated"}
  OBVIOUS
<1>5. /\ Head(todo) # Told("amiga_model") /\ Head(todo) # Call("updated")
      /\ \A model : Head(todo) # Showing(model)
      /\ \A main : Head(todo) # ChooseMain(main)
      /\ \A sub : Head(todo) # ChooseSub(sub)
  <2>1. Head(todo).do # "notify" /\ Head(todo).do # "show model" /\ Head(todo).do # "choose main"
        /\ Head(todo).do # "choose sub" /\ Head(todo).do # "updated"
    BY <1>4
  <2>2. Head(todo) # Told("amiga_model")
    BY <2>1, CallReads, Zenon
  <2>3. Head(todo) # Call("updated")
    BY <2>1, CallReads, Zenon
  <2>4. \A model : Head(todo) # Showing(model)
    BY <2>1, CallReads, Zenon
  <2>5. \A main : Head(todo) # ChooseMain(main)
    BY <2>1, CallReads, Zenon
  <2>6. \A sub : Head(todo) # ChooseSub(sub)
    BY <2>1, CallReads, Zenon
  <2> QED BY <2>2, <2>3, <2>4, <2>5, <2>6
<1>6. ~Telling
  BY <1>5 DEF Telling
<1>7. ~ChoosingBoth /\ ~ChoosingSub
  BY <1>5, Zenon DEF ChoosingBoth, ChoosingSub
<1>8. ~ShownAll
  BY <1>5 DEF ShownAll
<1>9. ~Picking
  <2>1. \A sub : ~Later(todo, sub)
    BY <1>1, <1>2, <1>5
  <2> QED BY <2>1, Zenon DEF Picking
<1>10. ~Clicked
  <2> SUFFICES ASSUME NEW main \in Mains, todo = <<ChooseMain(main)>>
               PROVE  FALSE
    BY Zenon DEF Clicked
  <2>1. Head(todo) = ChooseMain(main)
    OBVIOUS
  <2> QED BY <1>5, <2>1, Zenon
<1>11. Resting
  BY <1>6, <1>7, <1>8, <1>9, <1>10 DEF ModelFollows
<1> QED BY <1>3, <1>11 DEF Resting

LEMMA StateStep ==
    ASSUME IInv, Follows, Step
    PROVE  Derived' /\ SavedKept'
<1>1. CASE Notify \/ ShowModel \/ Updated \/ AlreadyShown \/ ClearMedia
  <2>1. UNCHANGED <<conf, changed, dirty, derived, stored>>
    BY <1>1 DEF Notify, ShowModel, Updated, AlreadyShown, ClearMedia
  <2> QED BY <2>1, StateKept DEF Follows
<1>2. CASE UpdateKickstart
  <2>1. derived' = derived /\ stored' = stored
    BY <1>2 DEF UpdateKickstart
  <2> QED BY <1>2, <2>1, UpdateCalls, StateKept DEF Follows
<1>3. CASE OnModelChanged
  <2>1. /\ derived' = derived /\ stored' = stored /\ Rest \in Seq(Calls)
        /\ SetOne("amiga_model", ValueOf(Head(todo).main), Rest)
    BY <1>3, Top DEF OnModelChanged, Calling
  <2> QED BY <2>1, ModelEffect, StateKept DEF Follows
<1>4. CASE OnSubModelChanged
  <2>1. derived' = derived /\ stored' = stored /\ Rest \in Seq(Calls)
    BY <1>4, Top DEF OnSubModelChanged, Calling
  <2>2. CASE screen.updating
    BY <1>4, <2>1, <2>2, StateKept DEF OnSubModelChanged, Follows
  <2>3. CASE ~screen.updating
    <3>1. SetOne("amiga_model", <<screen.main, Head(todo).sub>>, <<Call("clear media")>> \o Rest)
      BY <1>4, <2>3 DEF OnSubModelChanged
    <3>2. <<Call("clear media")>> \o Rest \in Seq(Calls)
      BY <2>1, CallsMade, Pushed
    <3> QED BY <2>1, <3>1, <3>2, ModelEffect, StateKept DEF Follows
  <2> QED BY <2>2, <2>3
<1>5. CASE DoPut
  <2>1. derived' = derived /\ stored' = stored
    BY <1>5 DEF DoPut
  <2> QED BY <1>5, <2>1, PutCalls, StateKept DEF Follows
<1>6. CASE OnKickstartTypeChanged
  <2>1. derived' = derived /\ stored' = stored
    BY <1>6 DEF OnKickstartTypeChanged
  <2> QED BY <1>6, <2>1, RomChangedCalls, StateKept DEF Follows
<1>7. CASE MarkLoaded
  <2>1. ~Idle /\ Head(todo).do = "loaded" /\ dirty' = TRUE /\ UNCHANGED <<conf, stored>>
    BY <1>7 DEF MarkLoaded, Calling
  <2>2. Loading /\ Aim(Model(conf["amiga_model"]))
    BY <2>1, LoadedModel DEF Follows
  <2>3. conf["kickstart_file"] = stored["kickstart_file"]
    BY <2>2 DEF Follows, KickstartFollows, KickstartLoads
  <2>4. Model(stored["amiga_model"]) \in Models
          => Model(conf["amiga_model"]) = Model(stored["amiga_model"])
    BY <2>2 DEF Aim, Aims
  <2> QED BY <2>1, <2>3, <2>4 DEF Derived, SavedKept
<1> QED BY <1>1, <1>2, <1>3, <1>4, <1>5, <1>6, <1>7 DEF Step

LEMMA FollowsStep ==
    ASSUME IInv, Follows, Step
    PROVE  Follows'
  BY ModelStep, RomStep, StateStep DEF Follows

-----------------------------------------------------------------------------
(* The turns, which begin when no call is left to do.  What they set is    *)
(* heard of, and other calls may wait.                                     *)
LEMMA AllHeardQuiet ==
    /\ AllHeard \in Seq(Calls) /\ Quiet(AllHeard)
    /\ conf'["amiga_model"] # conf["amiga_model"] => Has(AllHeard, Told("amiga_model"))
    /\ conf'["kickstart_file"] # conf["kickstart_file"] => Has(AllHeard, Told("kickstart_file"))
<1> DEFINE a == Heard("amiga_model")
           b == Heard("kickstart_file")
           told == Told("kickstart_file")
<1>1. /\ a \in Seq(Calls) /\ Quiet(a)
      /\ conf'["amiga_model"] # conf["amiga_model"] => Has(a, Told("amiga_model"))
  BY HeardModel
<1>2. b \in Seq(Calls) /\ Quiet(b)
  BY HeardRom, Zenon DEF Quiet, Has
<1>3. told \in Calls
  BY CallsMade DEF Told
<1>4. b = IF conf'["kickstart_file"] # conf["kickstart_file"] THEN <<told>> ELSE <<>>
  BY DEF Heard
<1> HIDE DEF a, b, told
<1>5. conf'["kickstart_file"] # conf["kickstart_file"] => Has(b, told)
  BY <1>3, <1>4, OneLeft
<1>6. a \o b \in Seq(Calls) /\ Quiet(a \o b)
  BY <1>1, <1>2, ConcatProperties, JoinedQuiet
<1>7. \A c : Has(a \o b, c) <=> Has(a, c) \/ Has(b, c)
  BY <1>1, <1>2, JoinedHas
<1>8. AllHeard = a \o b
  BY DEF AllHeard, a, b
<1> HIDE DEF AllHeard
<1> QED BY <1>1, <1>5, <1>6, <1>7, <1>8 DEF told

LEMMA NothingToDo ==
    ASSUME KickstartFollows, Idle
    PROVE  /\ screen.rom \in {"custom", RomType(conf["kickstart_file"])}
           /\ typed \/ scanned \/ conf["x_kickstart_file"] = RomInUse
<1>1. \A c : ~Has(todo, c)
  BY NothingLeft DEF Idle
<1>2. RomFollows /\ InUse
  BY DEF KickstartFollows
<1> QED BY <1>1, <1>2 DEF RomFollows, InUse

LEMMA TurnFollows ==
    ASSUME IInv, Follows, Idle, screen' = screen,
           NEW calls \in Seq(Calls), todo' = AllHeard \o calls,
           Calm(calls), \A i \in DOMAIN calls : calls[i].do # "choose ROM",
           Has(calls, Call("loaded")) =>
              /\ stored'["amiga_model"] = conf'["amiga_model"]
              /\ conf'["kickstart_file"] = stored'["kickstart_file"]
              /\ conf'["kickstart_file"] \notin {None, Internal} =>
                    conf'["x_kickstart_file"] = conf'["kickstart_file"],
           \/ typed' \/ scanned' \/ Has(calls, Call("update kickstart"))
           \/ conf'["amiga_model"] # conf["amiga_model"]
           \/ conf'["x_kickstart_file"] = RomInUse',
           Derived', SavedKept'
    PROVE  Follows'
<1>1. /\ AllHeard \in Seq(Calls) /\ Quiet(AllHeard)
      /\ conf'["amiga_model"] # conf["amiga_model"] => Has(AllHeard, Told("amiga_model"))
      /\ conf'["kickstart_file"] # conf["kickstart_file"] => Has(AllHeard, Told("kickstart_file"))
  BY AllHeardQuiet
<1>2. \A c : Has(todo', c) <=> Has(AllHeard, c) \/ Has(calls, c)
  BY <1>1, JoinedHas
<1>3. ModelFollows'
  <2>1. SameChoices
    BY DEF SameChoices
  <2> QED BY <2>1, ModelTurn DEF Follows
<1>4. RomFollows'
  <2>1. CASE conf'["kickstart_file"] # conf["kickstart_file"]
    BY <1>1, <1>2, <2>1 DEF RomFollows
  <2>2. CASE conf'["kickstart_file"] = conf["kickstart_file"]
    BY <2>2, NothingToDo DEF RomFollows, Follows
  <2> QED BY <2>1, <2>2
<1>5. InUse'
  BY <1>1, <1>2 DEF InUse
<1>6. KickstartLoads'
  <2> SUFFICES ASSUME Loading'
               PROVE  /\ conf'["kickstart_file"] = stored'["kickstart_file"]
                      /\ conf'["kickstart_file"] \notin {None, Internal} =>
                            conf'["x_kickstart_file"] = conf'["kickstart_file"]
                      /\ \A i \in DOMAIN todo' : todo'[i].do # "choose ROM"
    BY DEF KickstartLoads
  <2>1. Has(calls, Call("loaded"))
    BY <1>1, <1>2, QuietHas DEF Loading
  <2>2. ASSUME NEW i \in DOMAIN todo' PROVE todo'[i].do # "choose ROM"
    <3> DEFINE c == todo'[i]
    <3>1. Has(todo', c)
      BY DEF Has
    <3>2. Has(AllHeard, c) \/ Has(calls, c)
      BY <1>2, <3>1
    <3> HIDE DEF c
    <3>3. c.do # "choose ROM"
      BY <1>1, <3>2, Zenon DEF Quiet, Has
    <3> QED BY <3>3 DEF c
  <2> QED BY <2>1, <2>2
<1> QED BY <1>3, <1>4, <1>5, <1>6 DEF Follows, KickstartFollows

(* A turn that leaves the model and the Kickstart as they are. *)
LEMMA AsideTurn ==
    ASSUME IInv, Follows, Idle, UNCHANGED <<screen, indexed>>,
           NEW calls \in Seq(Calls), Calm(calls), Quiet(calls), todo' = calls,
           conf'["amiga_model"] = conf["amiga_model"],
           conf'["kickstart_file"] = conf["kickstart_file"],
           conf'["x_kickstart_file"] = conf["x_kickstart_file"],
           typed => typed', scanned => scanned' \/ Has(calls, Call("update kickstart")),
           Derived', SavedKept'
    PROVE  Follows'
<1>1. todo' = AllHeard \o calls
  BY HeardAlone
<1>2. typed \/ scanned \/ conf'["x_kickstart_file"] = RomInUse'
  BY NothingToDo, SameInUse DEF Follows
<1>3. ~Has(calls, Call("loaded")) /\ \A i \in DOMAIN calls : calls[i].do # "choose ROM"
  BY QuietHas DEF Quiet
<1> QED BY <1>1, <1>2, <1>3, TurnFollows

LEMMA MediaAssign ==
    ASSUME IInv, Follows, Idle, UNCHANGED Others, NEW values, NEW given,
           DOMAIN values \subseteq Media, Assign(values, given, <<>>)
    PROVE  Follows'
<1>1. /\ \A key \in Keys : conf'[key] = IF key \in DOMAIN values THEN values[key] ELSE conf[key]
      /\ todo' = AllHeard \o <<>>
      /\ \/ changed' = Yes /\ dirty' = TRUE
         \/ UNCHANGED <<conf, changed, dirty>>
  <2>1. DOMAIN values \subseteq Keys
    BY KeyKinds
  <2> QED BY <2>1, AssignEffect
<1>2. /\ conf'["amiga_model"] = conf["amiga_model"]
      /\ conf'["kickstart_file"] = conf["kickstart_file"]
      /\ conf'["x_kickstart_file"] = conf["x_kickstart_file"]
  BY <1>1, KeyKinds
<1>3. <<>> \in Seq(Calls) /\ Calm(<<>>) /\ Quiet(<<>>)
  BY NoneQuiet, NothingLeft
<1>4. todo' = <<>>
  BY <1>1, <1>2, <1>3, HeardAlone
<1>5. Derived' /\ SavedKept'
  BY <1>1, StateKept DEF Others, Follows
<1>6. UNCHANGED <<screen, indexed, typed, scanned>>
  BY DEF Others
<1> QED BY <1>2, <1>3, <1>4, <1>5, <1>6, AsideTurn

LEMMA MediaStart ==
    ASSUME IInv, Follows, Idle, UNCHANGED Others,
           NEW calls \in Seq(Calls), Puts(calls), Start(calls)
    PROVE  Follows'
<1>1. /\ todo' = calls
      /\ UNCHANGED <<conf, changed, dirty, stored, screen, indexed, scanned, derived, typed>>
  BY DEF Start, Others
<1>2. Calm(calls) /\ Quiet(calls)
  BY PutsAreCalm, PutsAreQuiet
<1>3. Derived' /\ SavedKept'
  BY <1>1, StateKept DEF Follows
<1> QED BY <1>1, <1>2, <1>3, AsideTurn

LEMMA ClickFollows ==
    ASSUME IInv, Follows, PickChoice
    PROVE  Follows'
<1>1. /\ Idle /\ UNCHANGED <<conf, changed, dirty, stored, screen, indexed, scanned, derived, typed>>
  BY DEF PickChoice, Turn, Others, Start
<1>2. ModelFollows'
  BY ModelClick DEF Follows
<1>3. Derived' /\ SavedKept'
  BY <1>1, StateKept DEF Follows
<1>4. RomFollows'
  BY <1>1, NothingToDo DEF RomFollows, Follows
<1>5. InUse'
  <2>1. RomInUse' = RomInUse
    BY <1>1, SameInUse
  <2> QED BY <1>1, <2>1, NothingToDo DEF InUse, Follows
<1>6. ~Loading'
  <2>1. \E a \in Calls : todo' = <<a>> /\ a # Call("loaded")
    <3>1. /\ \A main : ChooseMain(main) # Call("loaded")
          /\ \A sub : ChooseSub(sub) # Call("loaded")
          /\ \A type : ChooseRom(type) # Call("loaded")
      BY DEF ChooseMain, ChooseSub, ChooseRom, Call
    <3>2. ASSUME NEW main \in Mains, Start(<<ChooseMain(main)>>)
          PROVE  \E a \in Calls : todo' = <<a>> /\ a # Call("loaded")
      <4>1. ChooseMain(main) \in Calls
        BY CallsMade
      <4> QED BY <3>1, <3>2, <4>1 DEF Start
    <3>3. ASSUME NEW sub \in RangeOf(SubModels[screen.main]), Start(<<ChooseSub(sub)>>)
          PROVE  \E a \in Calls : todo' = <<a>> /\ a # Call("loaded")
      <4>1. screen.main \in Mains
        BY DEF IInv, TypeOK
      <4>2. sub \in STRING
        BY <4>1, ConfigurationAssumption DEF RangeOf
      <4>3. ChooseSub(sub) \in Calls
        BY <4>2, CallsMade
      <4> QED BY <3>1, <3>3, <4>3 DEF Start
    <3>4. ASSUME NEW type \in RomTypes, Start(<<ChooseRom(type)>>)
          PROVE  \E a \in Calls : todo' = <<a>> /\ a # Call("loaded")
      <4>1. ChooseRom(type) \in Calls
        BY CallsMade
      <4> QED BY <3>1, <3>4, <4>1 DEF Start
    <3> QED BY <3>2, <3>3, <3>4 DEF PickChoice, RomTypes
  <2>2. PICK a \in Calls : todo' = <<a>> /\ a # Call("loaded")
    BY <2>1
  <2> QED BY <2>2, OneLeft DEF Loading
<1>7. KickstartLoads'
  BY <1>6 DEF KickstartLoads
<1> QED BY <1>2, <1>3, <1>4, <1>5, <1>7 DEF Follows, KickstartFollows

LEMMA MediaSelected ==
    ASSUME IInv, Follows, NEW drives \in {FloppyDrives, CDDrives}, NEW list \in {FloppyList, CDList},
           NEW n \in DOMAIN list, NEW files \in [1..n -> Files], MultiSelect(drives, list, files)
    PROVE  Follows'
<1>1. Idle /\ UNCHANGED Others
  BY DEF MultiSelect, Turn
<1>2. PICK a, b, c \in Seq(Calls) : Puts(a) /\ Puts(b) /\ Puts(c) /\ Start(a \o b \o c)
  BY SelectCalls
<1>3. a \o b \in Seq(Calls) /\ Puts(a \o b)
  BY <1>2, ConcatProperties, JoinedPuts
<1> DEFINE ab == a \o b
           abc == ab \o c
<1>4. ab \in Seq(Calls) /\ Puts(ab) /\ Start(ab \o c)
  BY <1>2, <1>3
<1> HIDE DEF ab
<1>5. abc \in Seq(Calls) /\ Puts(abc)
  BY <1>2, <1>4, ConcatProperties, JoinedPuts
<1> HIDE DEF abc
<1> QED BY <1>1, <1>4, <1>5, MediaStart DEF abc

LEMMA BrowseFollows ==
    ASSUME IInv, Follows, NEW rom \in OwnRoms, BrowseKickstart(rom)
    PROVE  Follows'
<1> DEFINE values == [k \in {"kickstart_file", "x_kickstart_file"} |-> rom]
           given == Only("x_kickstart_file", rom)
<1>1. /\ DOMAIN values = {"kickstart_file", "x_kickstart_file"}
      /\ values["kickstart_file"] = rom /\ values["x_kickstart_file"] = rom
  OBVIOUS
<1>2. Idle /\ UNCHANGED Others /\ Assign(values, given, <<>>)
  BY DEF BrowseKickstart, Turn
<1> HIDE DEF values, given
<1>3. /\ \A key \in Keys : conf'[key] = IF key \in DOMAIN values THEN values[key] ELSE conf[key]
      /\ todo' = AllHeard \o <<>>
      /\ \/ changed' = Yes /\ dirty' = TRUE
         \/ UNCHANGED <<conf, changed, dirty>>
  <2>1. DOMAIN values \subseteq Keys
    BY <1>1, KeyKinds
  <2> QED BY <1>2, <2>1, AssignEffect
<1>4. conf'["kickstart_file"] = rom /\ conf'["x_kickstart_file"] = rom
  BY <1>1, <1>3, KeyKinds
<1>5. conf'["x_kickstart_file"] = RomInUse'
  <2>1. rom \notin {None, Internal}
    BY ConfigurationAssumption
  <2> QED BY <1>4, <2>1 DEF RomInUse, RomFor
<1>6. Derived' /\ SavedKept'
  BY <1>2, <1>3, StateKept DEF Others, Follows
<1>7. <<>> \in Seq(Calls) /\ Calm(<<>>) /\ ~Has(<<>>, Call("loaded"))
      /\ \A i \in DOMAIN <<>> : <<>>[i].do # "choose ROM"
  BY NothingLeft, NoneQuiet DEF Quiet
<1>8. screen' = screen
  BY <1>2 DEF Others
<1> QED BY <1>2, <1>3, <1>5, <1>6, <1>7, <1>8, TurnFollows

LEMMA WriteFollows ==
    ASSUME IInv, Follows, NEW key \in Saved, NEW value, WriteOption(key, value)
    PROVE  Follows'
<1> DEFINE values == Only(key, value)
<1>1. DOMAIN values = {key} /\ values[key] = value /\ key \in Keys /\ key # "x_kickstart_file"
  BY DEF Only, Saved
<1>2. /\ Idle /\ SetValues(values, <<>>, <<>>) /\ dirty' = TRUE
      /\ changed' = IF changed = Yes THEN None ELSE Yes
      /\ typed' = (typed \/ key = "kickstart_file")
      /\ UNCHANGED <<stored, screen, indexed, scanned>>
  BY DEF WriteOption, Turn
<1> HIDE DEF values
<1>3. /\ \A k \in Keys : conf'[k] = IF k \in DOMAIN values THEN values[k] ELSE conf[k]
      /\ todo' = AllHeard \o <<>>
  BY <1>1, <1>2, SetEffect
<1>4. Derived' /\ SavedKept'
  <2>1. changed' # No
    BY <1>2 DEF Yes, No, None
  <2> QED BY <1>2, <2>1 DEF Derived, SavedKept
<1>5. <<>> \in Seq(Calls) /\ Calm(<<>>) /\ ~Has(<<>>, Call("loaded"))
      /\ \A i \in DOMAIN <<>> : <<>>[i].do # "choose ROM"
  BY NothingLeft, NoneQuiet DEF Quiet
<1>6. conf'["x_kickstart_file"] = conf["x_kickstart_file"]
  BY <1>1, <1>3, KeyKinds
<1>7. \/ typed' \/ scanned'
      \/ conf'["amiga_model"] # conf["amiga_model"]
      \/ conf'["x_kickstart_file"] = RomInUse'
  <2>1. CASE key = "kickstart_file"
    BY <1>2, <2>1
  <2>2. CASE key # "kickstart_file" /\ conf'["amiga_model"] = conf["amiga_model"]
    <3>1. conf'["kickstart_file"] = conf["kickstart_file"]
      BY <1>1, <1>3, <2>2, KeyKinds
    <3>2. RomInUse' = RomInUse
      BY <1>2, <2>2, <3>1, SameInUse
    <3> QED BY <1>2, <1>6, <3>2, NothingToDo DEF Follows
  <2> QED BY <2>1, <2>2
<1> QED BY <1>2, <1>3, <1>4, <1>5, <1>7, TurnFollows

LEMMA LoadFollows ==
    ASSUME IInv, Follows, NEW file \in ConfigFiles, LoadFile(file)
    PROVE  Follows'
<1> DEFINE k == KickstartOf(file["amiga_model"], file["kickstart_file"], None)
           fixed(f, sum) == IF sum = None /\ f \in Summed THEN f ELSE sum
           values == [key \in Keys |-> IF key = "x_kickstart_file" THEN k.file ELSE file[key]]
           given == [key \in SumKeys |-> fixed(values[key], IF key \in Media THEN None ELSE k.sum)]
           loaded == Call("loaded")
<1>1. /\ Idle /\ Assign(values, given, <<loaded>>) /\ stored' = file
      /\ UNCHANGED <<screen, indexed, scanned, derived>>
  BY DEF LoadFile, Turn
<1>2. DOMAIN values = Keys /\ \A key \in Keys :
         values[key] = IF key = "x_kickstart_file" THEN k.file ELSE file[key]
  OBVIOUS
<1>3. k.file = RomFor(Model(file["amiga_model"]), file["kickstart_file"], Known(Model(file["amiga_model"])))
  BY NamedInUse
<1> HIDE DEF k, values, given
<1>4. /\ \A key \in Keys : conf'[key] = values[key]
      /\ todo' = AllHeard \o <<loaded>>
      /\ \/ changed' = Yes /\ dirty' = TRUE
         \/ UNCHANGED <<conf, changed, dirty>>
  BY <1>1, <1>2, AssignEffect
<1>5. /\ conf'["amiga_model"] = file["amiga_model"] /\ conf'["kickstart_file"] = file["kickstart_file"]
      /\ conf'["x_kickstart_file"] = k.file
  BY <1>2, <1>4, KeyKinds
<1>6. conf'["x_kickstart_file"] = RomInUse'
  <2>1. Known(Model(file["amiga_model"]))' = Known(Model(file["amiga_model"]))
    BY <1>1 DEF Known
  <2> QED BY <1>3, <1>5, <2>1 DEF RomInUse
<1>7. conf'["kickstart_file"] \notin {None, Internal} => conf'["x_kickstart_file"] = conf'["kickstart_file"]
  BY <1>3, <1>5 DEF RomFor
<1>8. Derived'
  BY <1>1, <1>4 DEF Derived, Follows
<1>9. SavedKept'
  BY <1>1, <1>5 DEF SavedKept
<1>10. loaded \in Calls /\ loaded.do = "loaded" /\ Lull(loaded)
  BY CallsMade, LullKinds DEF Call
<1> HIDE DEF loaded
<1>11. /\ <<loaded>> \in Seq(Calls) /\ Calm(<<loaded>>)
       /\ \A i \in DOMAIN <<loaded>> : <<loaded>>[i].do # "choose ROM"
  <2>1. DOMAIN <<loaded>> = {1} /\ <<loaded>>[1] = loaded
    OBVIOUS
  <2>2. \A i \in DOMAIN <<loaded>> : <<loaded>>[i] = loaded
    BY <2>1
  <2>3. loaded.do # "choose ROM"
    BY <1>10
  <2>4. \A i \in DOMAIN <<loaded>> : <<loaded>>[i].do # "choose ROM"
    BY <2>2, <2>3, Zenon
  <2> QED BY <1>10, <2>4, OneLeft
<1> QED BY <1>1, <1>4, <1>5, <1>6, <1>7, <1>8, <1>9, <1>11, TurnFollows

LEMMA EditFollows ==
    ASSUME IInv, Follows, Edit
    PROVE  Follows'
<1>1. CASE PickChoice
  BY <1>1, ClickFollows
<1>2. CASE Save
  <2>1. /\ Idle /\ todo' = <<>> /\ UNCHANGED <<conf, screen, indexed, scanned, typed>>
        /\ stored' = [key \in Saved |-> conf[key]] /\ dirty' = TRUE
    BY <1>2 DEF Save, Turn, Idle
  <2>2. Derived'
    BY <2>1 DEF Derived
  <2>3. SavedKept'
    <3>1. "amiga_model" \in Saved /\ "kickstart_file" \in Saved
      BY DEF Saved, Keys
    <3> QED BY <2>1, <3>1 DEF SavedKept
  <2>4. <<>> \in Seq(Calls) /\ Calm(<<>>) /\ Quiet(<<>>)
    BY NoneQuiet, NothingLeft
  <2> QED BY <2>1, <2>2, <2>3, <2>4, AsideTurn
<1>3. CASE \E rom \in OwnRoms : BrowseKickstart(rom)
  BY <1>3, BrowseFollows
<1>4. CASE \E drive \in RangeOf(FloppyDrives) \cup RangeOf(CDDrives) :
              \E file \in FilesFor(drive) \cup {None} : ChangeDrive(drive, file)
  <2>1. PICK drive \in RangeOf(FloppyDrives) \cup RangeOf(CDDrives) :
           \E file \in FilesFor(drive) \cup {None} : ChangeDrive(drive, file)
    BY <1>4
  <2>2. PICK file : ChangeDrive(drive, file)
    BY <2>1
  <2>3. PICK given : Assign(Only(drive, file), given, <<>>)
    BY <2>2 DEF ChangeDrive, SetFile
  <2>4. DOMAIN Only(drive, file) \subseteq Media
    BY MediaKeys DEF Only
  <2>5. Idle /\ UNCHANGED Others
    BY <2>2 DEF ChangeDrive, Turn
  <2> QED BY <2>3, <2>4, <2>5, MediaAssign
<1>5. CASE \E n \in DOMAIN FloppyList : InsertFromList(n)
  <2>1. PICK n \in DOMAIN FloppyList : InsertFromList(n)
    BY <1>5
  <2>2. PICK i \in Free : SetFile(FloppyDrives[i], conf[FloppyList[n]], sums[FloppyList[n]], <<>>)
    BY <2>1 DEF InsertFromList
  <2>3. DOMAIN Only(FloppyDrives[i], conf[FloppyList[n]]) \subseteq Media
    BY MediaKeys DEF Free, Only
  <2>4. Idle /\ UNCHANGED Others
    BY <2>1 DEF InsertFromList, Turn
  <2> QED BY <2>2, <2>3, <2>4, MediaAssign DEF SetFile
<1>6. ASSUME NEW list \in {FloppyList, CDList}, NEW items, SetNewConfig(list, items),
             Idle, UNCHANGED Others
      PROVE  Follows'
  <2> DEFINE item(key) == items[CHOOSE i \in DOMAIN list : list[i] = key]
             values == [key \in RangeOf(list) |-> item(key).file]
             given == [key \in RangeOf(list) |-> item(key).sum]
  <2>1. Assign(values, given, <<>>)
    BY <1>6 DEF SetNewConfig
  <2>2. DOMAIN values \subseteq Media
    BY MediaKeys
  <2> HIDE DEF values, given
  <2> QED BY <1>6, <2>1, <2>2, MediaAssign
<1>7. CASE \E list \in {FloppyList, CDList} :
              \/ \E file \in FilesFor(list[1]) : AddToList(list, file)
              \/ \E i \in DOMAIN list : RemoveFromList(list, i)
              \/ ClearList(list)
  <2>1. PICK list \in {FloppyList, CDList} :
              \/ \E file \in FilesFor(list[1]) : AddToList(list, file)
              \/ \E i \in DOMAIN list : RemoveFromList(list, i)
              \/ ClearList(list)
    BY <1>7
  <2>2. CASE \E file \in FilesFor(list[1]) : AddToList(list, file)
    <3>1. PICK file \in FilesFor(list[1]) : AddToList(list, file)
      BY <2>2
    <3>2. \E items : SetNewConfig(list, items)
      BY <3>1 DEF AddToList
    <3>3. Idle /\ UNCHANGED Others
      BY <3>1 DEF AddToList, Turn
    <3> QED BY <1>6, <3>2, <3>3
  <2>3. CASE \E i \in DOMAIN list : RemoveFromList(list, i)
    <3>1. PICK i \in DOMAIN list : RemoveFromList(list, i)
      BY <2>3
    <3>2. \E items : SetNewConfig(list, items)
      BY <3>1 DEF RemoveFromList
    <3>3. Idle /\ UNCHANGED Others
      BY <3>1 DEF RemoveFromList, Turn
    <3> QED BY <1>6, <3>2, <3>3
  <2>4. CASE ClearList(list)
    <3>1. <<Empty(RangeOf(list))>> \in Seq(Calls) /\ Puts(<<Empty(RangeOf(list))>>)
      BY MediaKeys, OnePuts
    <3>2. Idle /\ UNCHANGED Others /\ Start(<<Empty(RangeOf(list))>>)
      BY <2>4 DEF ClearList, Turn
    <3> QED BY <3>1, <3>2, MediaStart
  <2> QED BY <2>1, <2>2, <2>3, <2>4
<1>8. CASE \E n \in DOMAIN FloppyList : \E files \in [1..n -> Disks] :
              MultiSelect(FloppyDrives, FloppyList, files)
  <2>1. PICK n \in DOMAIN FloppyList : \E files \in [1..n -> Disks] :
              MultiSelect(FloppyDrives, FloppyList, files)
    BY <1>8
  <2>2. PICK files \in [1..n -> Disks] : MultiSelect(FloppyDrives, FloppyList, files)
    BY <2>1
  <2>3. files \in [1..n -> Files]
    BY DEF Files
  <2> QED BY <2>2, <2>3, MediaSelected
<1>9. CASE \E n \in DOMAIN CDList : \E files \in [1..n -> CDs] : MultiSelect(CDDrives, CDList, files)
  <2>1. PICK n \in DOMAIN CDList : \E files \in [1..n -> CDs] : MultiSelect(CDDrives, CDList, files)
    BY <1>9
  <2>2. PICK files \in [1..n -> CDs] : MultiSelect(CDDrives, CDList, files)
    BY <2>1
  <2>3. files \in [1..n -> Files]
    BY DEF Files
  <2> QED BY <2>2, <2>3, MediaSelected
<1>10. CASE \/ \E model \in ModelValues : WriteOption("amiga_model", model)
            \/ \E rom \in OwnRoms \cup {None, Internal} : WriteOption("kickstart_file", rom)
            \/ \E key \in Media : \E file \in FilesFor(key) \cup {None} : WriteOption(key, file)
  <2>1. "amiga_model" \in Saved /\ "kickstart_file" \in Saved /\ Media \subseteq Saved
    BY KeyKinds, ConfigurationAssumption DEF Saved, Keys
  <2>2. \E key \in Saved : \E value : WriteOption(key, value)
    BY <1>10, <2>1
  <2> QED BY <2>2, WriteFollows
<1>11. CASE \E file \in ConfigFiles : LoadFile(file)
  BY <1>11, LoadFollows
<1> QED BY <1>1, <1>2, <1>3, <1>4, <1>5, <1>7, <1>8, <1>9, <1>10, <1>11 DEF Edit

-----------------------------------------------------------------------------
LEMMA ScannedFollows ==
    ASSUME IInv, Follows, RomsScanned
    PROVE  Follows'
<1>1. /\ UNCHANGED <<conf, changed, stored, dirty, todo, screen, derived, typed>> /\ scanned' = TRUE
  BY DEF RomsScanned, confVars
<1>2. Loading' = Loading
  BY <1>1 DEF Loading
<1>3. ModelFollows'
  BY <1>1, <1>2, Zenon
     DEF Follows, ModelFollows, Resting, Telling, ChoosingBoth, ChoosingSub, ShownAll, Picking, Clicked,
         Settled, After, Aim, Rest, Idle
<1>4. RomFollows' /\ KickstartLoads'
  BY <1>1, <1>2 DEF Follows, KickstartFollows, RomFollows, KickstartLoads, Idle
<1>5. InUse' /\ Derived' /\ SavedKept'
  BY <1>1 DEF Follows, InUse, Derived, SavedKept
<1> QED BY <1>3, <1>4, <1>5 DEF Follows, KickstartFollows

LEMMA FollowsNext ==
    ASSUME IInv, Follows, [Next]_vars
    PROVE  Follows'
<1>1. CASE Step
  BY <1>1, FollowsStep
<1>2. CASE Edit
  BY <1>2, EditFollows
<1>3. CASE RomsScanned
  BY <1>3, ScannedFollows
<1>4. CASE OnDone
  <2> DEFINE update == Call("update kickstart")
  <2>1. /\ Idle /\ todo' = <<update>> /\ scanned' = FALSE
        /\ UNCHANGED <<conf, changed, stored, screen, indexed, dirty, derived, typed>>
    BY <1>4 DEF OnDone
  <2>2. update \in Calls /\ update.do = "update kickstart" /\ Lull(update)
    BY CallsMade, LullKinds DEF Call
  <2> HIDE DEF update
  <2>3. <<update>> \in Seq(Calls) /\ Calm(<<update>>) /\ Quiet(<<update>>) /\ Has(<<update>>, update)
    <3>1. update.do \notin {"loaded", "choose ROM"}
      BY <2>2
    <3> QED BY <2>2, <3>1, OneQuiet, OneLeft
  <2>4. Derived' /\ SavedKept'
    BY <2>1, StateKept DEF Follows
  <2> QED BY <2>1, <2>3, <2>4, AsideTurn DEF update
<1>5. CASE DoUpdate
  <2>1. /\ Idle /\ todo' = <<>> /\ derived' = Model(conf["amiga_model"])
        /\ UNCHANGED <<conf, changed, stored, screen, indexed, scanned, typed>>
    BY <1>5 DEF DoUpdate, Idle
  <2>2. Derived'
    BY <2>1 DEF Derived
  <2>3. SavedKept'
    BY <2>1 DEF SavedKept, Follows
  <2>4. <<>> \in Seq(Calls) /\ Calm(<<>>) /\ Quiet(<<>>)
    BY NoneQuiet, NothingLeft
  <2> QED BY <2>1, <2>2, <2>3, <2>4, AsideTurn
<1>6. CASE UNCHANGED vars
  <2>1. /\ UNCHANGED <<conf, changed, stored, dirty, todo, screen, indexed, scanned, derived, typed>>
    BY <1>6 DEF vars
  <2>2. Loading' = Loading /\ RomInUse' = RomInUse
    BY <2>1, SameInUse DEF Loading
  <2>3. ModelFollows'
    BY <2>1, <2>2, Zenon
       DEF Follows, ModelFollows, Resting, Telling, ChoosingBoth, ChoosingSub, ShownAll, Picking, Clicked,
           Settled, After, Aim, Rest, Idle
  <2>4. RomFollows' /\ KickstartLoads'
    BY <2>1, <2>2 DEF Follows, KickstartFollows, RomFollows, KickstartLoads, Idle
  <2>5. InUse' /\ Derived' /\ SavedKept'
    BY <2>1, <2>2 DEF Follows, KickstartFollows, InUse, Derived, SavedKept
  <2> QED BY <2>3, <2>4, <2>5 DEF Follows, KickstartFollows
<1> QED BY <1>1, <1>2, <1>3, <1>4, <1>5, <1>6 DEF Next

LEMMA InitFollows == Init => Follows
<1> SUFFICES ASSUME Init
             PROVE  Follows
  OBVIOUS
<1>1. /\ conf["amiga_model"] = Unset /\ conf["kickstart_file"] = None
      /\ conf["x_kickstart_file"] = None
      /\ stored["amiga_model"] = Unset /\ stored["kickstart_file"] = None
      /\ screen.main = DefaultMain /\ screen.sub = Plain /\ screen.rom = "default" /\ ~screen.updating
      /\ todo = <<>> /\ indexed = {} /\ derived = <<DefaultMain, Plain>>
  BY KeyKinds DEF Init, Saved, Keys
<1>2. Calm(todo) /\ \A c : ~Has(todo, c)
  BY <1>1, NothingLeft
<1>3. Settled
  <2>1. Shown(ValueOf(DefaultMain)) = <<DefaultMain, Plain>>
    BY MainIsModel, ConfigurationAssumption
  <2> QED BY <1>1, <2>1 DEF Settled, ValueOf
<1>4. ModelFollows
  <2>1. Resting
    BY <1>1, <1>2, <1>3 DEF Resting, Aim, Aims, Loading
  <2> QED BY <2>1 DEF ModelFollows
<1>5. RomFollows
  BY <1>1 DEF RomFollows, RomType, None, Internal
<1>6. InUse
  <2>1. Known(Model(conf["amiga_model"])) = {}
    BY <1>1 DEF Known
  <2>2. RomInUse = None
    BY <1>1, <2>1 DEF RomInUse, RomFor, None, Internal
  <2> QED BY <1>1, <2>2 DEF InUse
<1>7. KickstartLoads
  BY <1>2 DEF KickstartLoads, Loading
<1>8. Derived
  BY <1>1 DEF Derived, Model
<1>9. SavedKept
  BY <1>1 DEF SavedKept
<1> QED BY <1>4, <1>5, <1>6, <1>7, <1>8, <1>9 DEF Follows, KickstartFollows

LEMMA FollowedAtRest == Follows => AtRest
<1> SUFFICES ASSUME Follows, Idle
             PROVE  /\ <<screen.main, screen.sub>> = Shown(conf["amiga_model"])
                    /\ screen.rom \in {"custom", RomType(conf["kickstart_file"])}
                    /\ ~screen.updating
                    /\ typed \/ scanned \/
                         conf["x_kickstart_file"] =
                             KickstartOf(conf["amiga_model"], conf["kickstart_file"], None).file
                    /\ dirty \/ derived = Model(conf["amiga_model"])
                    /\ SavedKept
  BY DEF AtRest, SavedKept
<1>1. Settled /\ ~screen.updating
  BY IdleRests DEF Follows
<1>2. /\ screen.rom \in {"custom", RomType(conf["kickstart_file"])}
      /\ typed \/ scanned \/ conf["x_kickstart_file"] = RomInUse
  BY NothingToDo DEF Follows
<1>3. KickstartOf(conf["amiga_model"], conf["kickstart_file"], None).file = RomInUse
  BY NamedInUse DEF RomInUse
<1> QED BY <1>1, <1>2, <1>3 DEF Settled, Follows, Derived

(***************************************************************************)
(* Whenever the announcements have come to rest, the choices, the ROM in   *)
(* use and the implicit values agree with the configuration, and one that  *)
(* counts as saved agrees with its file, for any models and files.         *)
(***************************************************************************)
THEOREM AllAgreeAtRest == Spec => []AtRest
<1>1. IInv /\ Follows /\ [Next]_vars => (IInv /\ Follows)'
  BY NextKeeps, FollowsNext
<1> QED BY <1>1, InitKeeps, InitFollows, FollowedAtRest, PTL DEF Spec
=============================================================================
