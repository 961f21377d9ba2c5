---------------------- MODULE MCLauncherConfiguration ----------------------
(* Values of the constants of LauncherConfiguration: a model that is not    *)
(* the first, one that boots from CD-ROM and has a sub-model, and one whose *)
(* sub-model comes before the plain one, as the A500's does.  One file has  *)
(* a model that is not known.                                               *)
EXTENDS LauncherConfiguration

MCSubModels ==
    [main \in {"A1000", "A500", "CD32"} |->
        CASE main = "A1000" -> <<Plain>>
          [] main = "A500" -> <<"512K", Plain>>
          [] main = "CD32" -> <<Plain, "FMV">>]

MCDefaultRoms ==
    [model \in {<<"A1000", "">>, <<"A500", "">>, <<"A500", "512K">>, <<"CD32", "">>, <<"CD32", "FMV">>} |->
        CASE model[1] = "A1000" -> <<"kick12">>
          [] model[1] = "A500" -> <<"kick13", "kick12">>
          [] OTHER -> <<>>]

File(model, rom, df0, cd0) ==
    [key \in {"amiga_model", "kickstart_file", "df0", "image0", "image1", "cd0", "cdimage0"} |->
        CASE key = "amiga_model" -> model
          [] key = "kickstart_file" -> rom
          [] key = "df0" -> df0
          [] key = "cd0" -> cd0
          [] OTHER -> ""]

NewFile == File(<<>>, "", "", "")
MCConfigFiles ==
    {NewFile, File(<<"A9000", "">>, "", "", ""),
     File(<<"A500", "512K">>, "own", "disk", "cd"), File(<<"CD32", "FMV">>, "internal", "disk", "")}

MCFloppyDrives == <<"df0">>
MCFloppyList == <<"image0", "image1">>
MCCDDrives == <<"cd0">>
MCCDList == <<"cdimage0">>
=============================================================================
