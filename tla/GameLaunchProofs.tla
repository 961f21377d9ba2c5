-------------------------- MODULE GameLaunchProofs --------------------------
(***************************************************************************)
(* Proofs about GameLaunch, for any games, launches and changes, however   *)
(* launches overlap, and also where they write to the same files through   *)
(* links: what is saved was changed by playing, what is restored is the    *)
(* latest that was saved, and the emulator gets the media asked for.       *)
(***************************************************************************)
EXTENDS GameLaunch, WellFoundedInduction, TLAPS

Fields == {"game", "netplay_game", "stop", "temp", "old", "dir", "todo", "played", "contested"}

(* While the emulator runs, a pristine file is as it was noted before. *)
Noted(l) ==
    pc[l] = "run" =>
        \A name \in DOMAIN job[l].temp : Contents(l)[name] \in Pristine =>
            name \in DOMAIN job[l].old /\ job[l].old[name] = Contents(l)[name]

(* What is about to be saved is not pristine. *)
ToSave(l) ==
    pc[l] = "save" =>
        \A name \in job[l].todo : name \in DOMAIN job[l].temp /\ Contents(l)[name] \notin Pristine

LaunchOK(l) ==
    pc[l] # "none" =>
        /\ DOMAIN job[l] = Fields
        /\ job[l].game \in Games /\ job[l].stop \in BOOLEAN
        /\ Noted(l) /\ ToSave(l)

IInv ==
    /\ TypeOK
    /\ DOMAIN job = Launches /\ DOMAIN onDisk = Linkable
    /\ \A l \in Launches : LaunchOK(l)
    /\ OnlyChangesSaved

(* What a step of another launch leaves of launch k: all but the history of *)
(* what others wrote to its files.                                         *)
Likewise(k) ==
    /\ DOMAIN job'[k] = DOMAIN job[k]
    /\ job'[k].game = job[k].game /\ job'[k].stop = job[k].stop
    /\ job'[k].temp = job[k].temp /\ job'[k].old = job[k].old
    /\ job'[k].dir = job[k].dir /\ job'[k].todo = job[k].todo
    /\ job'[k].played = job[k].played /\ job[k].contested \subseteq job'[k].contested

(* What a step may do to the files that are linked to. *)
DiskGoesOn ==
    /\ DOMAIN onDisk' = Linkable
    /\ \A s \in Linkable : onDisk'[s] = onDisk[s] \/ onDisk'[s] \notin Pristine

-----------------------------------------------------------------------------
LEMMA OntoValues ==
    ASSUME NEW f, NEW g
    PROVE  /\ DOMAIN Onto(f, g) = DOMAIN f \cup DOMAIN g
           /\ \A name \in DOMAIN f : Onto(f, g)[name] = f[name]
           /\ \A name \in DOMAIN g \ DOMAIN f : Onto(f, g)[name] = g[name]
  BY DEF Onto

LEMMA RestrictValues1 ==
    ASSUME NEW f, NEW S
    PROVE  DOMAIN Restrict(f, S) = S /\ \A name \in S : Restrict(f, S)[name] = f[name]
  BY DEF Restrict

LEMMA ContentsValues ==
    ASSUME NEW l
    PROVE  /\ DOMAIN Contents(l) = DOMAIN job[l].temp
           /\ \A name \in DOMAIN job[l].temp :
                 Contents(l)[name] = IF job[l].temp[name] \in Linkable THEN onDisk[job[l].temp[name]]
                                     ELSE job[l].temp[name]
  BY DEF Contents, Holding

LEMMA OverFields ==
    ASSUME NEW p, DOMAIN p = Fields
    PROVE  /\ DOMAIN Over(p) = Fields /\ Over(p).game = p.game /\ Over(p).stop = FALSE
  BY DEF Over, Fields

LEMMA StateDirKind ==
    ASSUME NEW l, job[l].game \in Games
    PROVE  StateDir(l) \in Dirs
  BY DEF StateDir, Dirs

(* What a launch does not do itself leaves its files as they are, or makes *)
(* them something that was played.                                         *)
LEMMA FilesGoOn ==
    ASSUME NEW k, DiskGoesOn, job'[k].temp = job[k].temp
    PROVE  \A name \in DOMAIN job[k].temp :
              Contents(k)'[name] = Contents(k)[name] \/ Contents(k)'[name] \notin Pristine
<1> SUFFICES ASSUME NEW name \in DOMAIN job[k].temp
             PROVE  Contents(k)'[name] = Contents(k)[name] \/ Contents(k)'[name] \notin Pristine
  OBVIOUS
<1>1. Contents(k)[name] = IF job[k].temp[name] \in Linkable THEN onDisk[job[k].temp[name]]
                          ELSE job[k].temp[name]
  BY ContentsValues
<1>2. Contents(k)'[name] = IF job[k].temp[name] \in Linkable THEN onDisk'[job[k].temp[name]]
                           ELSE job[k].temp[name]
  BY DEF Contents, Holding
<1> QED BY <1>1, <1>2 DEF DiskGoesOn

LEMMA OtherKeeps ==
    ASSUME IInv, NEW k \in Launches, DiskGoesOn, Likewise(k), pc'[k] = pc[k]
    PROVE  LaunchOK(k)'
<1> USE DEF Likewise
<1>1. LaunchOK(k)
  BY DEF IInv
<1>2. \A name \in DOMAIN job[k].temp :
          Contents(k)'[name] = Contents(k)[name] \/ Contents(k)'[name] \notin Pristine
  BY FilesGoOn
<1>3. Noted(k) => Noted(k)'
  BY <1>2 DEF Noted
<1>4. ToSave(k) => ToSave(k)'
  BY <1>2 DEF ToSave
<1> QED BY <1>1, <1>3, <1>4 DEF LaunchOK

(* A step of launch l keeps the invariant if it keeps what is of l. *)
LEMMA OthersLikewise ==
    ASSUME IInv, NEW l \in Launches, DiskGoesOn, LaunchOK(l)',
           \A k \in Launches \ {l} : Likewise(k) /\ pc'[k] = pc[k]
    PROVE  \A k \in Launches : LaunchOK(k)'
<1> SUFFICES ASSUME NEW k \in Launches PROVE LaunchOK(k)'
  OBVIOUS
<1>1. CASE k = l
  BY <1>1
<1>2. CASE k # l
  BY <1>2, OtherKeeps
<1> QED BY <1>1, <1>2

LEMMA OthersKeep ==
    ASSUME IInv, NEW l \in Launches, DiskGoesOn, LaunchOK(l)',
           \A k \in Launches \ {l} : job'[k] = job[k] /\ pc'[k] = pc[k]
    PROVE  \A k \in Launches : LaunchOK(k)'
<1>1. \A k \in Launches \ {l} : Likewise(k) /\ pc'[k] = pc[k]
  BY DEF Likewise
<1> QED BY <1>1, OthersLikewise

LEMMA SameDisk == ASSUME IInv, UNCHANGED onDisk PROVE DiskGoesOn
  BY DEF IInv, DiskGoesOn

(***************************************************************************)
(* What WriteFiles does, file by file: what is linked changes on disk, the *)
(* rest in the temporary directory.                                        *)
(***************************************************************************)
LEMMA WriteValues ==
    ASSUME IInv, NEW l \in Launches, NEW files, NEW update, DOMAIN update = Fields,
           WriteFiles(l, files, update)
    PROVE  /\ DOMAIN onDisk' = Linkable
           /\ \A s \in Linkable :
                 \/ s \notin Written(l, files) /\ onDisk'[s] = onDisk[s]
                 \/ \E name \in LinksTo(l, {s}) \cap DOMAIN files : onDisk'[s] = files[name]
           /\ DOMAIN job' = Launches /\ DOMAIN job'[l] = Fields
           /\ \A field \in Fields \ {"temp"} : job'[l][field] = update[field]
           /\ job'[l].temp = TempWith(l, files)
           /\ \A k \in Launches \ {l} :
                 /\ Likewise(k)
                 /\ pc[k] \in {"run", "save", "cleanup"} =>
                       LinksTo(k, Written(l, files)) \subseteq job'[k].contested
<1> DEFINE newtemp == TempWith(l, files)
           newdisk == DiskWith(l, files)
           srcs == Written(l, files)
           hit(k) == LinksTo(k, srcs)
<1>1. /\ onDisk' = newdisk
      /\ job' = [k \in Launches |->
            CASE k = l -> [update EXCEPT !.temp = newtemp]
              [] k # l /\ pc[k] \in {"run", "save", "cleanup"} -> [job[k] EXCEPT !.contested = @ \cup hit(k)]
              [] OTHER -> job[k]]
  BY DEF WriteFiles
<1>2. /\ DOMAIN newdisk = Linkable
      /\ \A s \in Linkable :
            \/ s \notin srcs /\ newdisk[s] = onDisk[s]
            \/ \E name \in LinksTo(l, {s}) \cap DOMAIN files : newdisk[s] = files[name]
  <2>1. ASSUME NEW s \in Linkable, s \in srcs
        PROVE  \E name \in LinksTo(l, {s}) \cap DOMAIN files : newdisk[s] = files[name]
    <3>1. \E name \in LinksTo(l, {s}) : name \in DOMAIN files
      BY <2>1 DEF Written, LinksTo
    <3>2. newdisk[s] = files[CHOOSE name \in LinksTo(l, {s}) : name \in DOMAIN files]
      BY <2>1 DEF DiskWith
    <3> QED BY <3>1, <3>2
  <2>2. \A s \in Linkable : s \notin srcs => newdisk[s] = onDisk[s]
    BY DEF DiskWith
  <2>3. DOMAIN newdisk = Linkable
    BY DEF DiskWith
  <2> QED BY <2>1, <2>2, <2>3
<1> HIDE DEF newtemp, newdisk, srcs, hit
<1>3. DOMAIN job' = Launches /\ job'[l] = [update EXCEPT !.temp = newtemp]
  BY <1>1
<1>4. /\ DOMAIN job'[l] = Fields /\ job'[l].temp = newtemp
      /\ \A field \in Fields \ {"temp"} : job'[l][field] = update[field]
  BY <1>3 DEF Fields
<1>5. ASSUME NEW k \in Launches \ {l}
      PROVE  /\ Likewise(k)
             /\ pc[k] \in {"run", "save", "cleanup"} => hit(k) \subseteq job'[k].contested
  <2>1. CASE pc[k] \in {"run", "save", "cleanup"}
    <3>1. job'[k] = [job[k] EXCEPT !.contested = job[k].contested \cup hit(k)]
      BY <1>1, <2>1
    <3>2. DOMAIN job[k] = Fields
      BY <2>1 DEF IInv, LaunchOK
    <3>3. job'[k].contested = job[k].contested \cup hit(k)
      BY <3>1, <3>2 DEF Fields
    <3> QED BY <3>1, <3>2, <3>3 DEF Likewise, Fields
  <2>2. CASE pc[k] \notin {"run", "save", "cleanup"}
    <3>1. job'[k] = job[k]
      BY <1>1, <2>2
    <3> QED BY <2>2, <3>1 DEF Likewise
  <2> QED BY <2>1, <2>2
<1> QED BY <1>1, <1>2, <1>3, <1>4, <1>5 DEF newtemp, srcs, hit

LEMMA TempValues ==
    ASSUME NEW l, NEW files
    PROVE  /\ DOMAIN TempWith(l, files) = DOMAIN job[l].temp \cup DOMAIN files
           /\ \A name \in DOMAIN files \ Links(l) : TempWith(l, files)[name] = files[name]
           /\ \A name \in DOMAIN job[l].temp :
                 name \in Links(l) \/ name \notin DOMAIN files => TempWith(l, files)[name] = job[l].temp[name]
<1> DEFINE moved == Restrict(files, DOMAIN files \ Links(l))
           temp == job[l].temp
<1>1. DOMAIN moved = DOMAIN files \ Links(l) /\ \A n \in DOMAIN files \ Links(l) : moved[n] = files[n]
  BY RestrictValues1
<1>2. Links(l) \subseteq DOMAIN temp
  BY DEF Links
<1>3. TempWith(l, files) = Onto(moved, temp)
  BY DEF TempWith
<1> HIDE DEF moved, temp
<1>4. /\ DOMAIN Onto(moved, temp) = DOMAIN moved \cup DOMAIN temp
      /\ \A n \in DOMAIN moved : Onto(moved, temp)[n] = moved[n]
      /\ \A n \in DOMAIN temp \ DOMAIN moved : Onto(moved, temp)[n] = temp[n]
  BY OntoValues
<1>5. DOMAIN moved \cup DOMAIN temp = DOMAIN temp \cup DOMAIN files
  BY <1>1, <1>2
<1> QED BY <1>1, <1>3, <1>4, <1>5 DEF temp

(***************************************************************************)
(* Files that are not pristine, written over those of a launch, leave      *)
(* what is pristine in it as it was.                                       *)
(***************************************************************************)
LEMMA WriteKeeps ==
    ASSUME IInv, NEW l \in Launches, pc[l] # "none",
           NEW files, \A name \in DOMAIN files : files[name] \notin Pristine,
           NEW update, DOMAIN update = Fields,
           WriteFiles(l, files, update)
    PROVE  /\ DiskGoesOn
           /\ DOMAIN job' = Launches /\ \A k \in Launches \ {l} : Likewise(k)
           /\ DOMAIN job'[l] = Fields
           /\ \A field \in Fields \ {"temp"} : job'[l][field] = update[field]
           /\ \A name \in DOMAIN job'[l].temp :
                 \/ Contents(l)'[name] \notin Pristine
                 \/ /\ name \in DOMAIN job[l].temp \ DOMAIN files
                    /\ Contents(l)'[name] = Contents(l)[name]
<1>1. /\ DOMAIN onDisk' = Linkable
      /\ \A s \in Linkable :
            \/ s \notin Written(l, files) /\ onDisk'[s] = onDisk[s]
            \/ \E name \in LinksTo(l, {s}) \cap DOMAIN files : onDisk'[s] = files[name]
      /\ DOMAIN job' = Launches /\ DOMAIN job'[l] = Fields
      /\ \A field \in Fields \ {"temp"} : job'[l][field] = update[field]
      /\ job'[l].temp = TempWith(l, files)
      /\ \A k \in Launches \ {l} : Likewise(k)
  BY WriteValues
<1>2. DiskGoesOn
  BY <1>1 DEF DiskGoesOn
<1>3. ASSUME NEW name \in DOMAIN job'[l].temp
      PROVE  \/ Contents(l)'[name] \notin Pristine
             \/ /\ name \in DOMAIN job[l].temp \ DOMAIN files
                /\ Contents(l)'[name] = Contents(l)[name]
  <2> DEFINE temp1 == TempWith(l, files)
  <2>1. Contents(l)'[name] = IF temp1[name] \in Linkable THEN onDisk'[temp1[name]] ELSE temp1[name]
    BY <1>1, <1>3 DEF Contents, Holding
  <2>2. /\ DOMAIN temp1 = DOMAIN job[l].temp \cup DOMAIN files
        /\ \A n \in DOMAIN files \ Links(l) : temp1[n] = files[n]
        /\ \A n \in DOMAIN job[l].temp : n \in Links(l) \/ n \notin DOMAIN files => temp1[n] = job[l].temp[n]
    BY TempValues
  <2>3. job'[l].temp = temp1
    BY <1>1
  <2> HIDE DEF temp1
  <2>4. CASE name \in DOMAIN files \ Links(l)
    BY <2>1, <2>2, <2>4, PlayAssumption DEF Pristine
  <2>5. CASE name \notin DOMAIN files \ Links(l)
    <3>1. name \in DOMAIN job[l].temp /\ temp1[name] = job[l].temp[name]
      BY <1>3, <2>2, <2>3, <2>5 DEF Links
    <3>2. Contents(l)[name] = IF job[l].temp[name] \in Linkable THEN onDisk[job[l].temp[name]]
                              ELSE job[l].temp[name]
      BY <3>1, ContentsValues
    <3>3. CASE job[l].temp[name] \notin Linkable
      BY <2>1, <2>5, <3>1, <3>2, <3>3 DEF Links
    <3>4. CASE job[l].temp[name] \in Linkable
      <4>1. name \in DOMAIN files => job[l].temp[name] \in Written(l, files)
        BY <3>1, <3>4 DEF Written, Links
      <4>2. \/ job[l].temp[name] \notin Written(l, files) /\ onDisk'[job[l].temp[name]] = onDisk[job[l].temp[name]]
            \/ onDisk'[job[l].temp[name]] \notin Pristine
        BY <1>1, <3>4
      <4> QED BY <2>1, <3>1, <3>2, <3>4, <4>1, <4>2
    <3> QED BY <3>3, <3>4
  <2> QED BY <2>4, <2>5
<1> QED BY <1>1, <1>2, <1>3
-----------------------------------------------------------------------------
(* A step keeps the invariant if what it does to the rest of the state has *)
(* the right types and it saves nothing pristine.                          *)
LEMMA KeepsAll ==
    ASSUME IInv,
           window' \in BOOLEAN, netplay' \in BOOLEAN, running' \in BOOLEAN, plays' \in 0..PlayLimit,
           DiskGoesOn, DOMAIN job' = Launches, \A k \in Launches : LaunchOK(k)',
           pc' \in [Launches -> Steps],
           DOMAIN saved' = Dirs, OnlyChangesSaved'
    PROVE  IInv'
  BY DEF IInv, TypeOK, LaunchOK, DiskGoesOn

LEMMA SavesNothing == ASSUME IInv, UNCHANGED saved PROVE DOMAIN saved' = Dirs /\ OnlyChangesSaved'
  BY DEF IInv, TypeOK, OnlyChangesSaved

(* One file is saved, and nothing else happens to the saved ones. *)
LEMMA SavedValues ==
    ASSUME IInv, NEW d \in Dirs, NEW name, NEW c,
           saved' = [saved EXCEPT ![d] = Onto(OneFile(name, c), @)]
    PROVE  /\ DOMAIN saved' = Dirs /\ \A e \in Dirs \ {d} : saved'[e] = saved[e]
           /\ DOMAIN saved'[d] = {name} \cup DOMAIN saved[d]
           /\ saved'[d][name] = c
           /\ \A m \in DOMAIN saved[d] \ {name} : saved'[d][m] = saved[d][m]
<1> DEFINE one == OneFile(name, c)
           before == saved[d]
<1>1. DOMAIN one = {name} /\ one[name] = c
  BY DEF OneFile
<1>2. DOMAIN saved' = Dirs /\ saved'[d] = Onto(one, before) /\ \A e \in Dirs \ {d} : saved'[e] = saved[e]
  BY DEF IInv, TypeOK
<1> HIDE DEF one, before
<1>3. /\ DOMAIN Onto(one, before) = DOMAIN one \cup DOMAIN before
      /\ \A m \in DOMAIN one : Onto(one, before)[m] = one[m]
      /\ \A m \in DOMAIN before \ DOMAIN one : Onto(one, before)[m] = before[m]
  BY OntoValues
<1>4. /\ DOMAIN saved'[d] = {name} \cup DOMAIN before
      /\ saved'[d][name] = c
      /\ \A m \in DOMAIN before \ {name} : saved'[d][m] = before[m]
  BY <1>1, <1>2, <1>3
<1> QED BY <1>2, <1>4 DEF before

(* A file that is not pristine is saved. *)
LEMMA SavesOne ==
    ASSUME IInv, NEW d, NEW name, NEW c, c \notin Pristine,
           saved' = [saved EXCEPT ![d] = Onto(OneFile(name, c), @)]
    PROVE  DOMAIN saved' = Dirs /\ OnlyChangesSaved'
<1>1. CASE d \in Dirs
  <2>1. /\ DOMAIN saved' = Dirs /\ \A e \in Dirs \ {d} : saved'[e] = saved[e]
        /\ DOMAIN saved'[d] = {name} \cup DOMAIN saved[d]
        /\ saved'[d][name] = c
        /\ \A m \in DOMAIN saved[d] \ {name} : saved'[d][m] = saved[d][m]
    BY <1>1, SavedValues
  <2> QED BY <2>1 DEF IInv, OnlyChangesSaved
<1>2. CASE d \notin Dirs
  BY <1>2 DEF IInv, TypeOK, OnlyChangesSaved
<1> QED BY <1>1, <1>2

LEMMA JobOf ==
    ASSUME IInv, NEW l \in Launches, NEW p, job' = [job EXCEPT ![l] = p]
    PROVE  DOMAIN job' = Launches /\ job'[l] = p /\ \A k \in Launches \ {l} : job'[k] = job[k]
  BY DEF IInv

LEMMA PcOf ==
    ASSUME IInv, NEW l \in Launches, NEW step \in Steps, pc' = [pc EXCEPT ![l] = step]
    PROVE  /\ pc' \in [Launches -> Steps]
           /\ pc'[l] = step /\ \A k \in Launches \ {l} : pc'[k] = pc[k]
  BY DEF IInv, TypeOK

(* A launch that neither runs the emulator nor saves needs little. *)
LEMMA Elsewhere ==
    ASSUME NEW l \in Launches, pc'[l] \notin {"run", "save"},
           DOMAIN job'[l] = Fields, job'[l].game \in Games, job'[l].stop \in BOOLEAN
    PROVE  LaunchOK(l)'
  BY DEF LaunchOK, Noted, ToSave

LEMMA Ends ==
    ASSUME IInv, NEW l \in Launches, pc[l] # "none", pc'[l] \notin {"run", "save"},
           job' = [job EXCEPT ![l] = Over(@)]
    PROVE  /\ DOMAIN job' = Launches /\ \A k \in Launches \ {l} : job'[k] = job[k]
           /\ LaunchOK(l)'
<1>1. job' = [job EXCEPT ![l] = Over(job[l])]
  OBVIOUS
<1>2. DOMAIN job[l] = Fields /\ job[l].game \in Games
  BY DEF IInv, LaunchOK
<1>3. DOMAIN job' = Launches /\ job'[l] = Over(job[l]) /\ \A k \in Launches \ {l} : job'[k] = job[k]
  BY <1>1, JobOf
<1>4. DOMAIN Over(job[l]) = Fields /\ Over(job[l]).game = job[l].game /\ Over(job[l]).stop = FALSE
  BY <1>2, OverFields
<1> QED BY <1>2, <1>3, <1>4, Elsewhere
-----------------------------------------------------------------------------
(* What is restored was saved, and so is not pristine; what a launch then  *)
(* notes is what it has, after the restored files were written.            *)
LEMMA RestoreKeeps ==
    ASSUME IInv, NEW l \in Launches, RestoreChanges(l)
    PROVE  IInv'
<1> DEFINE files == SavedFiles(l)
           now == Holding(TempWith(l, files), DiskWith(l, files))
           noted == [job[l] EXCEPT !.old = now, !.contested = Aliases(l)]
<1>1. DOMAIN job[l] = Fields /\ job[l].game \in Games /\ job[l].stop \in BOOLEAN /\ pc[l] = "changes"
  BY DEF IInv, LaunchOK, RestoreChanges
<1>2. \A name \in DOMAIN files : files[name] \notin Pristine
  BY <1>1, StateDirKind DEF IInv, OnlyChangesSaved, SavedFiles
<1>3. DOMAIN noted = Fields /\ noted.old = now
      /\ noted.game = job[l].game /\ noted.stop = job[l].stop
  BY <1>1 DEF Fields
<1>4. WriteFiles(l, files, noted)
  BY DEF RestoreChanges
<1>5. pc' = [pc EXCEPT ![l] = StopsAt(l, "run")] /\ StopsAt(l, "run") \in {"cleanup", "run"}
  BY DEF RestoreChanges, Goto, StopsAt
<1> HIDE DEF files, noted, now
<1>6. /\ DiskGoesOn
      /\ DOMAIN job' = Launches /\ \A k \in Launches \ {l} : Likewise(k)
      /\ DOMAIN job'[l] = Fields
      /\ \A field \in Fields \ {"temp"} : job'[l][field] = noted[field]
  BY <1>1, <1>2, <1>3, <1>4, WriteKeeps
<1>7. pc' \in [Launches -> Steps] /\ pc'[l] \in {"cleanup", "run"} /\ \A k \in Launches \ {l} : pc'[k] = pc[k]
  BY <1>5, PcOf DEF Steps
<1>8. job'[l].game = job[l].game /\ job'[l].stop = job[l].stop /\ job'[l].old = now
  BY <1>3, <1>6 DEF Fields
<1>9. Noted(l)'
  <2>1. now = Contents(l)'
    <3>1. job'[l].temp = TempWith(l, files)
      BY <1>1, <1>3, <1>4, WriteValues
    <3>2. onDisk' = DiskWith(l, files)
      BY <1>4 DEF WriteFiles
    <3> QED BY <3>1, <3>2 DEF now, Contents
  <2>2. DOMAIN Contents(l)' = DOMAIN job'[l].temp
    BY DEF Contents, Holding
  <2> QED BY <1>8, <2>1, <2>2 DEF Noted
<1>10. LaunchOK(l)'
  BY <1>1, <1>6, <1>7, <1>8, <1>9 DEF LaunchOK, ToSave
<1>11. \A k \in Launches : LaunchOK(k)'
  BY <1>6, <1>7, <1>10, OthersLikewise
<1>12. DOMAIN saved' = Dirs /\ OnlyChangesSaved'
  BY SavesNothing DEF RestoreChanges
<1> QED BY <1>6, <1>7, <1>11, <1>12, KeepsAll DEF RestoreChanges, IInv, TypeOK

LEMMA PlayKeeps ==
    ASSUME IInv, NEW l \in Launches, NEW name, Play(l, name)
    PROVE  IInv'
<1> DEFINE p == [job[l] EXCEPT !.played = @ \cup {name}]
           c == <<job[l].game, plays + 1>>
<1>1. DOMAIN job[l] = Fields /\ job[l].game \in Games /\ job[l].stop \in BOOLEAN /\ pc[l] = "run" /\ Noted(l)
  BY DEF IInv, LaunchOK, Play
<1>2. plays' = plays + 1 /\ plays' \in 1..PlayLimit
  BY PlayAssumption DEF Play, IInv, TypeOK
<1>3. c \notin Pristine
  BY <1>1, <1>2, PlayAssumption
<1>4. DOMAIN p = Fields /\ p.temp = job[l].temp /\ p.old = job[l].old
      /\ p.game = job[l].game /\ p.stop = job[l].stop
  BY <1>1 DEF Fields
<1>5. \/ WriteFiles(l, OneFile(name, c), p)
      \/ /\ job' = [job EXCEPT ![l] = [p EXCEPT !.temp = Restrict(@, DOMAIN @ \ {name})]]
         /\ UNCHANGED onDisk
  BY DEF Play
<1> HIDE DEF p, c
<1>6. /\ DiskGoesOn
      /\ DOMAIN job' = Launches /\ \A k \in Launches \ {l} : Likewise(k)
      /\ DOMAIN job'[l] = Fields
      /\ \A field \in Fields \ {"temp"} : job'[l][field] = p[field]
      /\ \A n \in DOMAIN job'[l].temp :
            \/ Contents(l)'[n] \notin Pristine
            \/ n \in DOMAIN job[l].temp /\ Contents(l)'[n] = Contents(l)[n]
  <2>1. CASE WriteFiles(l, OneFile(name, c), p)
    <3>1. \A n \in DOMAIN OneFile(name, c) : OneFile(name, c)[n] \notin Pristine
      BY <1>3 DEF OneFile
    <3> QED BY <1>1, <1>4, <2>1, <3>1, WriteKeeps
  <2>2. CASE /\ job' = [job EXCEPT ![l] = [p EXCEPT !.temp = Restrict(@, DOMAIN @ \ {name})]]
             /\ UNCHANGED onDisk
    <3> DEFINE temp1 == Restrict(job[l].temp, DOMAIN job[l].temp \ {name})
    <3>1. job' = [job EXCEPT ![l] = [p EXCEPT !.temp = temp1]]
      BY <1>4, <2>2
    <3>2. DOMAIN temp1 \subseteq DOMAIN job[l].temp /\ \A n \in DOMAIN temp1 : temp1[n] = job[l].temp[n]
      BY RestrictValues1
    <3> HIDE DEF temp1
    <3>3. /\ DOMAIN job' = Launches /\ \A k \in Launches \ {l} : job'[k] = job[k]
          /\ DOMAIN job'[l] = Fields /\ job'[l].temp = temp1
          /\ \A field \in Fields \ {"temp"} : job'[l][field] = p[field]
      BY <1>4, <3>1 DEF IInv, Fields
    <3>4. \A n \in DOMAIN temp1 : Contents(l)'[n] = Contents(l)[n]
      BY <2>2, <3>2, <3>3 DEF Contents, Holding
    <3>5. DiskGoesOn
      BY <2>2, SameDisk
    <3> QED BY <3>2, <3>3, <3>4, <3>5 DEF Likewise
  <2> QED BY <1>5, <2>1, <2>2
<1>7. job'[l].game = job[l].game /\ job'[l].stop = job[l].stop /\ job'[l].old = job[l].old
  BY <1>4, <1>6 DEF Fields
<1>8. pc' = pc
  BY DEF Play
<1>9. Noted(l)'
  BY <1>1, <1>6, <1>7 DEF Noted
<1>10. LaunchOK(l)'
  BY <1>1, <1>6, <1>7, <1>8, <1>9 DEF LaunchOK, ToSave
<1>11. \A k \in Launches : LaunchOK(k)'
  BY <1>6, <1>8, <1>10, OthersLikewise
<1>12. DOMAIN saved' = Dirs /\ OnlyChangesSaved'
  BY SavesNothing DEF Play
<1> QED BY <1>2, <1>6, <1>8, <1>11, <1>12, KeepsAll DEF Play, IInv, TypeOK

(* What is to be saved when the emulator exits differs from what was noted *)
(* before, and so was not pristine.                                        *)
LEMMA ExitKeeps ==
    ASSUME IInv, NEW l \in Launches, EmulatorExits(l)
    PROVE  IInv'
<1> DEFINE todo1 == Changed(job[l].old, Contents(l))
           p == [job[l] EXCEPT !.dir = StateDir(l), !.todo = todo1,
                          !.contested = @ \cup Contested(l)]
<1>1. DOMAIN job[l] = Fields /\ job[l].game \in Games /\ job[l].stop \in BOOLEAN /\ pc[l] = "run" /\ Noted(l)
  BY DEF IInv, LaunchOK, EmulatorExits
<1>2. \A name \in todo1 : name \in DOMAIN job[l].temp /\ Contents(l)[name] \notin Pristine
  <2>1. DOMAIN Contents(l) = DOMAIN job[l].temp
    BY ContentsValues
  <2> QED BY <1>1, <2>1 DEF Changed, Noted
<1>3. /\ DOMAIN p = Fields /\ p.todo = todo1 /\ p.temp = job[l].temp
      /\ p.game = job[l].game /\ p.stop = job[l].stop
  BY <1>1 DEF Fields
<1>4. job' = [job EXCEPT ![l] = p]
  BY <1>1 DEF EmulatorExits, IInv
<1> HIDE DEF todo1, p
<1>5. DOMAIN job' = Launches /\ job'[l] = p /\ \A k \in Launches \ {l} : job'[k] = job[k]
  BY <1>4, JobOf
<1>6. pc' \in [Launches -> Steps] /\ pc'[l] = "save" /\ \A k \in Launches \ {l} : pc'[k] = pc[k]
  BY PcOf DEF EmulatorExits, Goto, Steps
<1>7. Contents(l)' = Contents(l)
  <2>1. onDisk' = onDisk
    BY DEF EmulatorExits
  <2> QED BY <1>3, <1>5, <2>1 DEF Contents, Holding
<1>8. LaunchOK(l)'
  BY <1>1, <1>2, <1>3, <1>5, <1>6, <1>7 DEF LaunchOK, Noted, ToSave
<1>9. DiskGoesOn
  BY SameDisk DEF EmulatorExits
<1>10. \A k \in Launches : LaunchOK(k)'
  BY <1>5, <1>6, <1>8, <1>9, OthersKeep
<1>11. DOMAIN saved' = Dirs /\ OnlyChangesSaved'
  BY SavesNothing DEF EmulatorExits
<1> QED BY <1>5, <1>6, <1>9, <1>10, <1>11, KeepsAll DEF EmulatorExits, IInv, TypeOK

LEMMA SaveFileKeeps ==
    ASSUME IInv, NEW l \in Launches, SaveFile(l)
    PROVE  IInv'
<1>1. DOMAIN job[l] = Fields /\ job[l].game \in Games /\ job[l].stop \in BOOLEAN /\ pc[l] = "save" /\ ToSave(l)
  BY DEF IInv, LaunchOK, SaveFile
<1>2. PICK name \in job[l].todo :
        /\ saved' = [saved EXCEPT ![job[l].dir] = Onto(OneFile(name, Contents(l)[name]), @)]
        /\ job' = [job EXCEPT ![l].todo = @ \ {name}]
  BY DEF SaveFile
<1> DEFINE p == [job[l] EXCEPT !.todo = job[l].todo \ {name}]
<1>3. Contents(l)[name] \notin Pristine
  BY <1>1, <1>2 DEF ToSave
<1>4. DOMAIN saved' = Dirs /\ OnlyChangesSaved'
  <2> DEFINE d == job[l].dir
             c == Contents(l)[name]
  <2>1. saved' = [saved EXCEPT ![d] = Onto(OneFile(name, c), @)] /\ c \notin Pristine
    BY <1>2, <1>3
  <2> HIDE DEF d, c
  <2> QED BY <2>1, SavesOne
<1>5. /\ DOMAIN p = Fields /\ p.todo = job[l].todo \ {name} /\ p.temp = job[l].temp
      /\ p.game = job[l].game /\ p.stop = job[l].stop
  BY <1>1 DEF Fields
<1>6. job' = [job EXCEPT ![l] = p]
  BY <1>1, <1>2 DEF IInv
<1> HIDE DEF p
<1>7. DOMAIN job' = Launches /\ job'[l] = p /\ \A k \in Launches \ {l} : job'[k] = job[k]
  BY <1>6, JobOf
<1>8. pc' = pc /\ onDisk' = onDisk
  BY DEF SaveFile
<1>9. Contents(l)' = Contents(l)
  BY <1>5, <1>7, <1>8 DEF Contents, Holding
<1>10. LaunchOK(l)'
  BY <1>1, <1>5, <1>7, <1>8, <1>9 DEF LaunchOK, Noted, ToSave
<1>11. DiskGoesOn
  BY <1>8, SameDisk
<1>12. \A k \in Launches : LaunchOK(k)'
  BY <1>7, <1>8, <1>10, <1>11, OthersKeep
<1> QED BY <1>4, <1>7, <1>8, <1>11, <1>12, KeepsAll DEF SaveFile, IInv, TypeOK

LEMMA SaveRemovedKeeps ==
    ASSUME IInv, NEW l \in Launches, SaveRemoved(l)
    PROVE  IInv'
<1>1. DOMAIN job[l] = Fields /\ job[l].game \in Games /\ job[l].stop \in BOOLEAN /\ pc[l] = "save"
  BY DEF IInv, LaunchOK, SaveRemoved
<1>2. DiskGoesOn
  BY SameDisk DEF SaveRemoved
<1>3. CASE Goto(l, "cleanup") /\ UNCHANGED <<job, saved>>
  <2>1. pc' \in [Launches -> Steps] /\ pc'[l] = "cleanup" /\ \A k \in Launches \ {l} : pc'[k] = pc[k]
    BY <1>3, PcOf DEF Goto, Steps
  <2>2. LaunchOK(l)'
    BY <1>1, <1>3, <2>1, Elsewhere
  <2>3. \A k \in Launches : LaunchOK(k)'
    BY <1>2, <1>3, <2>1, <2>2, OthersKeep
  <2>4. DOMAIN saved' = Dirs /\ OnlyChangesSaved'
    BY <1>3, SavesNothing
  <2> QED BY <1>2, <1>3, <2>1, <2>3, <2>4, KeepsAll DEF SaveRemoved, IInv, TypeOK
<1>4. ASSUME NEW name \in Removed(job[l]), Goto(l, "failed"),
             saved' = [saved EXCEPT ![job[l].dir] = Onto(OneFile(name, Hollow), @)],
             job' = [job EXCEPT ![l] = Over(@)]
      PROVE  IInv'
  <2>1. pc' \in [Launches -> Steps] /\ pc'[l] = "failed" /\ \A k \in Launches \ {l} : pc'[k] = pc[k]
    BY <1>4, PcOf DEF Goto, Steps
  <2>2. DOMAIN job' = Launches /\ (\A k \in Launches \ {l} : job'[k] = job[k]) /\ LaunchOK(l)'
    BY <1>1, <1>4, <2>1, Ends
  <2>3. \A k \in Launches : LaunchOK(k)'
    BY <1>2, <2>1, <2>2, OthersKeep
  <2>4. DOMAIN saved' = Dirs /\ OnlyChangesSaved'
    <3> DEFINE d == job[l].dir
    <3>1. saved' = [saved EXCEPT ![d] = Onto(OneFile(name, Hollow), @)] /\ Hollow \notin Pristine
      BY <1>4, PlayAssumption
    <3> HIDE DEF d
    <3> QED BY <3>1, SavesOne
  <2> QED BY <1>2, <2>1, <2>2, <2>3, <2>4, KeepsAll DEF SaveRemoved, IInv, TypeOK
<1> QED BY <1>3, <1>4 DEF SaveRemoved

(* The steps of launch l that change no file that it plays, or end it. *)
LEMMA QuietKeeps ==
    ASSUME IInv, NEW l \in Launches,
           \/ \E g \in Games, asNetplay \in BOOLEAN : StartLocalGame(l, g, asNetplay)
           \/ Cancel(l) \/ CloseDialog(l) \/ Prepare(l) \/ ThreadFails(l) \/ Cleanup(l)
    PROVE  IInv'
<1>1. pc[l] # "none" => DOMAIN job[l] = Fields /\ job[l].game \in Games /\ job[l].stop \in BOOLEAN
  BY DEF IInv, LaunchOK
<1>2. DiskGoesOn /\ DOMAIN saved' = Dirs /\ OnlyChangesSaved'
  BY SameDisk, SavesNothing DEF StartLocalGame, Cancel, CloseDialog, Prepare, ThreadFails, Fail, Cleanup
<1>3. /\ window' \in BOOLEAN /\ netplay' \in BOOLEAN /\ running' \in BOOLEAN /\ plays' \in 0..PlayLimit
  BY DEF StartLocalGame, Cancel, CloseDialog, Prepare, ThreadFails, Fail, Cleanup, IInv, TypeOK
<1>4. SUFFICES /\ DOMAIN job' = Launches /\ \A k \in Launches \ {l} : job'[k] = job[k]
               /\ pc' \in [Launches -> Steps] /\ \A k \in Launches \ {l} : pc'[k] = pc[k]
               /\ LaunchOK(l)'
  BY <1>2, <1>3, OthersKeep, KeepsAll
<1>5. ASSUME NEW g \in Games, NEW asNetplay \in BOOLEAN, StartLocalGame(l, g, asNetplay)
      PROVE  /\ DOMAIN job' = Launches /\ \A k \in Launches \ {l} : job'[k] = job[k]
             /\ pc' \in [Launches -> Steps] /\ \A k \in Launches \ {l} : pc'[k] = pc[k]
             /\ LaunchOK(l)'
  <2> DEFINE p == [game |-> g, netplay_game |-> asNetplay, stop |-> FALSE,
                   temp |-> NoFiles, old |-> NoFiles, dir |-> Unset,
                   todo |-> {}, played |-> {}, contested |-> {}]
  <2>1. DOMAIN p = Fields /\ p.game = g /\ p.stop = FALSE /\ job' = [job EXCEPT ![l] = p]
    BY <1>5 DEF StartLocalGame, Fields
  <2> HIDE DEF p
  <2>2. DOMAIN job' = Launches /\ job'[l] = p /\ \A k \in Launches \ {l} : job'[k] = job[k]
    BY <2>1, JobOf
  <2>3. pc' \in [Launches -> Steps] /\ pc'[l] = "prepare" /\ \A k \in Launches \ {l} : pc'[k] = pc[k]
    BY <1>5, PcOf DEF StartLocalGame, Steps
  <2> QED BY <1>5, <2>1, <2>2, <2>3, Elsewhere
<1>6. CASE Cancel(l)
  <2>1. job' = [job EXCEPT ![l] = [job[l] EXCEPT !.stop = TRUE]] /\ pc' = pc /\ pc[l] \in {"prepare", "changes"}
    BY <1>6 DEF Cancel, IInv
  <2>2. DOMAIN job' = Launches /\ job'[l] = [job[l] EXCEPT !.stop = TRUE]
        /\ \A k \in Launches \ {l} : job'[k] = job[k]
    BY <2>1, JobOf
  <2>3. DOMAIN job'[l] = Fields /\ job'[l].game = job[l].game /\ job'[l].stop = TRUE
    BY <1>1, <2>1, <2>2 DEF Fields
  <2>4. LaunchOK(l)'
    BY <1>1, <2>1, <2>3, Elsewhere
  <2> QED BY <2>1, <2>2, <2>4 DEF IInv, TypeOK
<1>7. CASE CloseDialog(l)
  <2>1. pc' \in [Launches -> Steps] /\ pc'[l] = "ended" /\ \A k \in Launches \ {l} : pc'[k] = pc[k]
    BY <1>7, PcOf DEF CloseDialog, Steps
  <2>2. job' = job /\ pc[l] # "none"
    BY <1>7 DEF CloseDialog
  <2>3. LaunchOK(l)'
    BY <1>1, <2>1, <2>2, Elsewhere
  <2> QED BY <2>1, <2>2, <2>3 DEF IInv
<1>8. CASE Prepare(l)
  <2>1. PICK temp : job' = [job EXCEPT ![l].temp = temp]
    BY <1>8 DEF Prepare
  <2>2. job' = [job EXCEPT ![l] = [job[l] EXCEPT !.temp = temp]] /\ pc[l] = "prepare"
    BY <1>8, <2>1 DEF Prepare, IInv
  <2>3. DOMAIN job' = Launches /\ job'[l] = [job[l] EXCEPT !.temp = temp]
        /\ \A k \in Launches \ {l} : job'[k] = job[k]
    BY <2>2, JobOf
  <2>4. DOMAIN job'[l] = Fields /\ job'[l].game = job[l].game /\ job'[l].stop = job[l].stop
    BY <1>1, <2>2, <2>3 DEF Fields
  <2>5. pc' = [pc EXCEPT ![l] = StopsAt(l, "changes")] /\ StopsAt(l, "changes") \in {"cleanup", "changes"}
    BY <1>8 DEF Prepare, Goto, StopsAt
  <2>6. pc' \in [Launches -> Steps] /\ pc'[l] \in {"cleanup", "changes"} /\ \A k \in Launches \ {l} : pc'[k] = pc[k]
    BY <2>5, PcOf DEF Steps
  <2>7. LaunchOK(l)'
    BY <1>1, <2>2, <2>4, <2>6, Elsewhere
  <2> QED BY <2>3, <2>6, <2>7
<1>9. CASE ThreadFails(l)
  <2>1. pc' \in [Launches -> Steps] /\ pc'[l] = "failed" /\ \A k \in Launches \ {l} : pc'[k] = pc[k]
    BY <1>9, PcOf DEF ThreadFails, Fail, Goto, Steps
  <2>2. job' = [job EXCEPT ![l] = Over(@)] /\ pc[l] # "none"
    BY <1>9 DEF ThreadFails, Fail
  <2> QED BY <2>1, <2>2, Ends
<1>10. CASE Cleanup(l)
  <2> DEFINE over == Over(job[l])
             p == [over EXCEPT !.played = {}]
  <2>1. pc' \in [Launches -> Steps] /\ pc'[l] = "complete" /\ \A k \in Launches \ {l} : pc'[k] = pc[k]
    BY <1>10, PcOf DEF Cleanup, Goto, Steps
  <2>2. job' = [job EXCEPT ![l] = p] /\ pc[l] # "none"
    BY <1>10 DEF Cleanup, IInv
  <2>3. DOMAIN over = Fields /\ over.game = job[l].game /\ over.stop = FALSE
    BY <1>1, <2>2, OverFields
  <2> HIDE DEF over
  <2>4. DOMAIN p = Fields /\ p.game = job[l].game /\ p.stop = FALSE
    BY <2>3 DEF Fields
  <2> HIDE DEF p
  <2>5. DOMAIN job' = Launches /\ job'[l] = p /\ \A k \in Launches \ {l} : job'[k] = job[k]
    BY <2>2, JobOf
  <2>6. LaunchOK(l)'
    BY <1>1, <2>1, <2>2, <2>4, <2>5, Elsewhere
  <2> QED BY <2>1, <2>5, <2>6
<1> QED BY <1>5, <1>6, <1>7, <1>8, <1>9, <1>10
-----------------------------------------------------------------------------
LEMMA InitOK == ASSUME Init PROVE IInv
<1>1. TypeOK
  <2>1. plays \in 0..PlayLimit
    BY PlayAssumption DEF Init
  <2>2. pc \in [Launches -> Steps]
    BY DEF Init, Steps
  <2>3. \A l \in Launches : pc[l] = "none"
    BY DEF Init
  <2> QED BY <2>1, <2>2, <2>3 DEF Init, TypeOK
<1>2. DOMAIN job = Launches /\ DOMAIN onDisk = Linkable /\ \A l \in Launches : LaunchOK(l)
  BY DEF Init, LaunchOK
<1>3. OnlyChangesSaved
  <2>1. \A d \in Dirs : saved[d] = NoFiles
    BY DEF Init
  <2>2. DOMAIN NoFiles = {}
    BY DEF NoFiles
  <2> QED BY <2>1, <2>2 DEF OnlyChangesSaved
<1> QED BY <1>1, <1>2, <1>3 DEF IInv

LEMMA NextKeeps ==
    ASSUME IInv, [Next]_vars
    PROVE  IInv'
<1>1. ASSUME UNCHANGED <<pc, job, onDisk, saved>>,
             window' \in BOOLEAN, netplay' \in BOOLEAN, running' \in BOOLEAN, plays' \in 0..PlayLimit
      PROVE  IInv'
  <2>1. DiskGoesOn /\ DOMAIN saved' = Dirs /\ OnlyChangesSaved'
    BY <1>1, SameDisk, SavesNothing
  <2>2. \A k \in Launches : LaunchOK(k)'
    BY <1>1, <2>1, OtherKeeps DEF Likewise
  <2> QED BY <1>1, <2>1, <2>2, KeepsAll DEF IInv, TypeOK
<1>2. CASE UNCHANGED vars
  BY <1>1, <1>2 DEF vars, IInv, TypeOK
<1>3. CASE Select \/ OpenNetplay \/ CloseNetplay \/ Restart
  BY <1>1, <1>3 DEF Select, OpenNetplay, CloseNetplay, Restart, IInv, TypeOK
<1>4. ASSUME NEW l \in Launches,
             \/ \E g \in Games, asNetplay \in BOOLEAN : StartLocalGame(l, g, asNetplay)
             \/ Cancel(l) \/ CloseDialog(l) \/ Thread(l)
             \/ \E name \in Media : Play(l, name)
      PROVE  IInv'
  <2>1. CASE \E name \in Media : Play(l, name)
    BY <2>1, PlayKeeps
  <2>2. CASE Thread(l)
    BY <2>2, QuietKeeps, RestoreKeeps, ExitKeeps, SaveFileKeeps, SaveRemovedKeeps DEF Thread
  <2> QED BY <1>4, <2>1, <2>2, QuietKeeps
<1> QED BY <1>2, <1>3, <1>4 DEF Next

LEMMA Invariant == Spec => []IInv
<1>1. Init => IInv
  BY InitOK
<1>2. IInv /\ [Next]_vars => IInv'
  BY NextKeeps
<1> QED BY <1>1, <1>2, PTL DEF Spec

(***************************************************************************)
(* A launch always has a step it is at, a configuration and a stop flag,   *)
(* and the directories of saved files are those SaveHandler knows.         *)
(***************************************************************************)
THEOREM LaunchTypeCorrect == Spec => []TypeOK
<1>1. IInv => TypeOK
  BY DEF IInv
<1> QED BY <1>1, Invariant, PTL

(***************************************************************************)
(* Whatever launches restore, play and save at once, in one directory or   *)
(* in several, through links or not, a file that nobody changed by playing *)
(* is never saved (GameChangeHandler.init and update).                     *)
(***************************************************************************)
THEOREM OnlyChangesAreSaved == Spec => []OnlyChangesSaved
<1>1. IInv => OnlyChangesSaved
  BY DEF IInv
<1> QED BY <1>1, Invariant, PTL
-----------------------------------------------------------------------------
(***************************************************************************)
(* What a launch prepares: pristine files, and under every name but those  *)
(* of drives one that the configuration brings under it.  conf is what was *)
(* asked for, p what the stages have made of it, also one that has failed. *)
(***************************************************************************)
Keys == {"roms", "drives", "images", "cds", "cd_images", "cd_files", "hds", "save_disk"}
TempNames == OwnNames \cup {"Save Disk.adf"} \cup {BaseName[s] : s \in Sources}

Fits(conf, name, content) ==
    content \in Pristine /\ (name \in OwnNames \/ content \in Namesakes(conf, name))

Shaped(p, conf) ==
    /\ DOMAIN p = {"conf", "temp", "ok"} /\ Keys \subseteq DOMAIN p.conf
    /\ DOMAIN p.temp \subseteq TempNames
    /\ \A name \in DOMAIN p.temp : Fits(conf, name, p.temp[name])

(* A value of the configuration stands for s, in place or copied. *)
Placed(p, value, s) ==
    \/ value = s /\ s \in Sources \cup {Unset, Internal}
    \/ s \in Sources /\ value = Temp(BaseName[s]) /\ BaseName[s] \in DOMAIN p.temp

LEMMA TempIs ==
    /\ \A a, b : Temp(a) = Temp(b) => a = b
    /\ \A name \in TempNames : Temp(name) \notin Sources \cup {Unset, Internal}
  BY ConfAssumption DEF Temp, TempNames

LEMMA OpensTemp ==
    ASSUME NEW p, NEW name \in DOMAIN p.temp
    PROVE  Opens(p, Temp(name)) = p.temp[name]
<1>1. (CHOOSE n \in DOMAIN p.temp : Temp(name) = Temp(n)) = name
  BY TempIs
<1> QED BY <1>1 DEF Opens

LEMMA OpensItself ==
    ASSUME NEW p, NEW conf, Shaped(p, conf), NEW s \in Sources \cup {Unset, Internal}
    PROVE  Opens(p, s) = s
<1>1. ~\E name \in DOMAIN p.temp : s = Temp(name)
  BY TempIs DEF Shaped
<1> QED BY <1>1 DEF Opens

LEMMA PlacedOpens ==
    ASSUME NEW p, NEW conf, Shaped(p, conf), NEW value, NEW s, Placed(p, value, s)
    PROVE  OpensMedium(p, conf, value, s)
<1>1. CASE value = s /\ s \in Sources \cup {Unset, Internal}
  BY <1>1, OpensItself DEF OpensMedium
<1>2. CASE s \in Sources /\ value = Temp(BaseName[s]) /\ BaseName[s] \in DOMAIN p.temp
  <2>1. Opens(p, value) = p.temp[BaseName[s]]
    BY <1>2, OpensTemp
  <2>2. BaseName[s] \notin OwnNames
    BY <1>2, NameAssumption
  <2>3. p.temp[BaseName[s]] \in Namesakes(conf, BaseName[s])
    BY <1>2, <2>2 DEF Shaped, Fits
  <2> QED BY <1>2, <2>1, <2>3 DEF OpensMedium
<1> QED BY <1>1, <1>2 DEF Placed

(* Files that fit are put with what is there. *)
LEMMA PutsFiles ==
    ASSUME NEW conf, NEW p, Shaped(p, conf), NEW files, DOMAIN files \subseteq TempNames,
           \A name \in DOMAIN files : Fits(conf, name, files[name]),
           NEW q, DOMAIN q = DOMAIN p, Keys \subseteq DOMAIN q.conf, q.temp = Onto(files, p.temp)
    PROVE  /\ Shaped(q, conf)
           /\ DOMAIN q.temp = DOMAIN files \cup DOMAIN p.temp
           /\ \A name \in DOMAIN files : q.temp[name] = files[name]
           /\ \A name \in DOMAIN p.temp \ DOMAIN files : q.temp[name] = p.temp[name]
<1> DEFINE temp == p.temp
           all == q.temp
<1>1. all = Onto(files, temp)
  OBVIOUS
<1>2. DOMAIN temp \subseteq TempNames /\ \A name \in DOMAIN temp : Fits(conf, name, temp[name])
  BY DEF Shaped
<1> HIDE DEF temp, all
<1>3. /\ DOMAIN all = DOMAIN files \cup DOMAIN temp
      /\ \A name \in DOMAIN files : all[name] = files[name]
      /\ \A name \in DOMAIN temp \ DOMAIN files : all[name] = temp[name]
  <2>1. /\ DOMAIN Onto(files, temp) = DOMAIN files \cup DOMAIN temp
        /\ \A name \in DOMAIN files : Onto(files, temp)[name] = files[name]
        /\ \A name \in DOMAIN temp \ DOMAIN files : Onto(files, temp)[name] = temp[name]
    BY OntoValues, Zenon
  <2> QED BY ONLY <1>1, <2>1
<1>4. DOMAIN all \subseteq TempNames /\ \A name \in DOMAIN all : Fits(conf, name, all[name])
  BY <1>2, <1>3
<1>5. Shaped(q, conf)
  BY <1>4 DEF Shaped, all
<1> QED BY <1>3, <1>5 DEF all, temp

(* There is a last place. *)
LEMMA LastOf ==
    ASSUME NEW n \in Nat, NEW places \in SUBSET (0..n), places # {}
    PROVE  LastAt(places) \in places /\ \A j \in places : j <= LastAt(places)
<1> DEFINE Bound(i) == \A j \in places : j <= i
           bounds == {i \in Nat : Bound(i)}
<1>1. n \in bounds /\ bounds \subseteq Nat
  OBVIOUS
<1> DEFINE less == OpToRel(<, Nat)
<1>2. IsWellFoundedOn(less, Nat)
  BY NatLessThanWellFounded
<1>3. \A i, m \in Nat : i < m => <<i, m>> \in less
  BY Zenon DEF OpToRel
<1> HIDE DEF less
<1>4. PICK m \in bounds : \A i \in bounds : m <= i
  <2>1. bounds # {}
    BY <1>1
  <2>2. \E m \in bounds : \A i \in bounds : ~(<<i, m>> \in less)
    BY <1>1, <1>2, <2>1, WFMin
  <2>3. PICK m \in bounds : \A i \in bounds : ~(<<i, m>> \in less)
    BY <2>2
  <2>4. \A i \in bounds : ~(i < m)
    BY <1>1, <1>3, <2>3
  <2>5. \A i \in bounds : m <= i
    BY <1>1, <2>4
  <2> QED BY <2>5
<1>5. m \in places
  <2> SUFFICES ASSUME m \notin places PROVE FALSE
    OBVIOUS
  <2>1. PICK j \in places : j \in 0..n
    OBVIOUS
  <2>2. m # 0 /\ m - 1 \in Nat
    BY <2>1, <1>1
  <2>3. m - 1 \in bounds
    BY <1>1, <2>2
  <2> QED BY <1>1, <1>4, <2>3
<1>6. \E i \in places : Bound(i)
  BY <1>4, <1>5
<1> QED BY <1>6 DEF LastAt

LEMMA BroughtIs ==
    ASSUME NEW conf
    PROVE  /\ Brought(conf) \subseteq Sources
           /\ \A s \in Brought(conf) : BaseName[s] \in TempNames /\ Fits(conf, BaseName[s], s)
  BY DEF Brought, TempNames, Fits, Namesakes, Pristine

(* copy_game_file for some entries of a list. *)
LEMMA CopiesFiles ==
    ASSUME NEW conf, NEW p, Shaped(p, conf), NEW n \in Nat, NEW list, DOMAIN list = 1..n,
           NEW srcs \in SUBSET Range(list), srcs \subseteq Found => srcs \subseteq Brought(conf),
           NEW q, q = CopyAll(p, list, srcs)
    PROVE  /\ Shaped(q, conf) /\ q.conf = p.conf
           /\ DOMAIN p.temp \subseteq DOMAIN q.temp
           /\ q.ok => /\ p.ok /\ srcs \subseteq Found
                      /\ \A s \in srcs : BaseName[s] \in DOMAIN q.temp
<1>1. CASE srcs \subseteq Found
  <2> DEFINE names == {BaseName[s] : s \in srcs}
             Called(name) == {i \in DOMAIN list : list[i] \in srcs /\ BaseName[list[i]] = name}
             files == [name \in names |-> list[LastAt(Called(name))]]
             temp == p.temp
  <2>1. q = [p EXCEPT !.temp = Onto(files, temp)]
    BY <1>1 DEF CopyAll, Shaped
  <2>2. \A name \in names : files[name] \in srcs /\ BaseName[files[name]] = name
    <3> SUFFICES ASSUME NEW s \in srcs
                 PROVE  files[BaseName[s]] \in srcs /\ BaseName[files[BaseName[s]]] = BaseName[s]
      OBVIOUS
    <3> DEFINE called == Called(BaseName[s])
    <3>1. PICK i \in DOMAIN list : list[i] = s
      BY DEF Range
    <3>2. called \in SUBSET (0..n) /\ called # {}
      BY <3>1
    <3>3. files[BaseName[s]] = list[LastAt(called)]
      OBVIOUS
    <3>4. \A j \in called : list[j] \in srcs /\ BaseName[list[j]] = BaseName[s]
      OBVIOUS
    <3> HIDE DEF called, files
    <3>5. LastAt(called) \in called
      BY <3>2, LastOf
    <3> QED BY <3>3, <3>4, <3>5
  <2>3. DOMAIN files = names
    OBVIOUS
  <2> HIDE DEF files
  <2>4. /\ DOMAIN q = DOMAIN p /\ q.temp = Onto(files, temp) /\ q.conf = p.conf /\ q.ok = p.ok
    BY <2>1 DEF Shaped
  <2>5. DOMAIN files \subseteq TempNames /\ \A name \in DOMAIN files : Fits(conf, name, files[name])
    <3> SUFFICES ASSUME NEW name \in DOMAIN files PROVE name \in TempNames /\ Fits(conf, name, files[name])
      OBVIOUS
    <3>1. files[name] \in Brought(conf) /\ BaseName[files[name]] = name
      BY <1>1, <2>2, <2>3
    <3> QED BY <3>1, BroughtIs
  <2>6. Keys \subseteq DOMAIN q.conf
    BY <2>4 DEF Shaped
  <2>7. q.temp = Onto(files, p.temp)
    BY <2>4
  <2> HIDE DEF temp
  <2>8. /\ Shaped(q, conf)
        /\ DOMAIN q.temp = DOMAIN files \cup DOMAIN p.temp
    <3>1. Shaped(p, conf)
      OBVIOUS
    <3> QED BY ONLY <2>4, <2>5, <2>6, <2>7, <3>1, PutsFiles
  <2> QED BY <1>1, <2>3, <2>4, <2>8
<1>2. CASE ~(srcs \subseteq Found)
  <2>1. q = [p EXCEPT !.ok = FALSE]
    BY <1>2 DEF CopyAll, Failed
  <2> QED BY <2>1 DEF Shaped
<1> QED BY <1>1, <1>2

(* What a list says after its files were copied. *)
LEMMA CopiedPlaced ==
    ASSUME NEW p, NEW list, \A i \in DOMAIN list : list[i] \in Sources \cup {Unset, Internal},
           NEW srcs, srcs \subseteq Sources,
           \A s \in srcs \cap Range(list) : BaseName[s] \in DOMAIN p.temp
    PROVE  /\ DOMAIN Copied(list, srcs) = DOMAIN list
           /\ \A i \in DOMAIN list : Placed(p, Copied(list, srcs)[i], list[i])
  BY DEF Copied, Placed, Range

(* Empty entries stay empty, others do not become so. *)
LEMMA CopiedUnset ==
    ASSUME NEW list, NEW srcs, srcs \subseteq Sources
    PROVE  /\ DOMAIN Copied(list, srcs) = DOMAIN list
           /\ \A i \in DOMAIN list : Copied(list, srcs)[i] = Unset <=> list[i] = Unset
<1>1. \A s \in srcs : Temp(BaseName[s]) # Unset /\ s # Unset
  <2>1. \A s \in srcs : BaseName[s] \in TempNames /\ s # Unset
    BY ConfAssumption DEF TempNames
  <2>2. \A name \in TempNames : Temp(name) # Unset
    BY TempIs
  <2> QED BY <2>1, <2>2
<1> QED BY <1>1 DEF Copied

LEMMA ListValues ==
    ASSUME NEW images, NEW drives
    PROVE  /\ DOMAIN ListFromDrives(images, drives) = DOMAIN images
           /\ \A i \in DOMAIN images :
                 ListFromDrives(images, drives)[i] \in Range(images) \cup Range(drives) \cup {Unset}
<1>1. \A i : NthInserted(drives, i) # {} => (CHOOSE j \in NthInserted(drives, i) : TRUE) \in DOMAIN drives
  BY DEF NthInserted
<1> QED BY <1>1 DEF ListFromDrives, Range

(* A list is filled with what was copied as it is with what is to be.      *)
LEMMA ListCopied ==
    ASSUME NEW images, NEW drives \in Seq(Sources \cup {Unset}), NEW srcs, srcs \subseteq Sources
    PROVE  \A i \in DOMAIN images :
              ListFromDrives(Copied(images, srcs), Copied(drives, srcs))[i]
                  = Copied(ListFromDrives(images, drives), srcs)[i]
<1>1. /\ DOMAIN Copied(drives, srcs) = DOMAIN drives
      /\ \A i \in DOMAIN drives : Copied(drives, srcs)[i] = Unset <=> drives[i] = Unset
      /\ DOMAIN Copied(images, srcs) = DOMAIN images
      /\ \A i \in DOMAIN images : Copied(images, srcs)[i] = Unset <=> images[i] = Unset
  BY CopiedUnset
<1>2. AllUnset(Copied(images, srcs)) <=> AllUnset(images)
  BY <1>1 DEF AllUnset
<1>3. CASE ~AllUnset(images)
  BY <1>1, <1>2, <1>3, ListValues DEF ListFromDrives, Copied
<1>4. CASE AllUnset(images)
  <2> SUFFICES ASSUME NEW i \in DOMAIN images
               PROVE  ListFromDrives(Copied(images, srcs), Copied(drives, srcs))[i]
                          = Copied(ListFromDrives(images, drives), srcs)[i]
    OBVIOUS
  <2>1. NthInserted(Copied(drives, srcs), i) = NthInserted(drives, i)
    <3>1. \A j \in DOMAIN drives :
             {k \in 1..j : Copied(drives, srcs)[k] # Unset} = {k \in 1..j : drives[k] # Unset}
      BY <1>1
    <3> QED BY <1>1, <3>1 DEF NthInserted
  <2>2. NthInserted(drives, i) # {} => (CHOOSE j \in NthInserted(drives, i) : TRUE) \in DOMAIN drives
    BY DEF NthInserted
  <2> DEFINE j == CHOOSE j \in NthInserted(drives, i) : TRUE
  <2>3. ListFromDrives(Copied(images, srcs), Copied(drives, srcs))[i]
            = IF NthInserted(drives, i) = {} THEN Unset ELSE Copied(drives, srcs)[j]
    BY <1>1, <1>2, <1>4, <2>1 DEF ListFromDrives
  <2>4. ListFromDrives(images, drives)[i] = IF NthInserted(drives, i) = {} THEN Unset ELSE drives[j]
    BY <1>4 DEF ListFromDrives
  <2>5. i \in DOMAIN ListFromDrives(images, drives)
    BY ListValues
  <2> HIDE DEF j
  <2>6. Unset \notin srcs
    BY ConfAssumption
  <2> QED BY <2>2, <2>3, <2>4, <2>5, <2>6 DEF Copied, j
<1> QED BY <1>3, <1>4

LEMMA DriveDirs ==
    /\ \A i \in 0..9 : DriveDir[i] \in OwnNames /\ DriveDir[i] # "DH0/S"
    /\ \A i, j \in 0..9 : DriveDir[i] = DriveDir[j] => i = j
<1>1. DOMAIN DriveDir = 0..9
  BY DEF DriveDir
<1>2. /\ DriveDir[0] = "DH0" /\ DriveDir[1] = "DH1" /\ DriveDir[2] = "DH2" /\ DriveDir[3] = "DH3"
      /\ DriveDir[4] = "DH4" /\ DriveDir[5] = "DH5" /\ DriveDir[6] = "DH6" /\ DriveDir[7] = "DH7"
      /\ DriveDir[8] = "DH8" /\ DriveDir[9] = "DH9"
  BY DEF DriveDir
<1>3. \A i \in 0..9 : i \in {0, 1, 2, 3, 4, 5, 6, 7, 8, 9}
  OBVIOUS
<1>4. \A i \in 0..9 : DriveDir[i] \in OwnNames
  BY <1>1 DEF OwnNames, Range
<1>5. \A i \in 0..9 : DriveDir[i] # "DH0/S"
  BY <1>2, <1>3
<1>6. \A i, j \in 0..9 : DriveDir[i] = DriveDir[j] => i = j
  BY <1>2, <1>3
<1> QED BY <1>4, <1>5, <1>6

(* What the configuration of a launch now says. *)
RomsIn(p, conf) ==
    \A i \in DOMAIN conf.roms :
        /\ RomFiles(conf)[i] \in Found \cup {Internal}
        /\ Placed(p, p.conf.roms[i].file, RomFiles(conf)[i])

DrivesIn(p, conf, key) == \A i \in DOMAIN conf[key] : Placed(p, p.conf[key][i], conf[key][i])

ImagesIn(p, conf, key, of) ==
    LET want == ListFromDrives(conf[key], conf[of])
    IN  \A i \in DOMAIN want : want[i] # Unset => Placed(p, p.conf[key][i], want[i])

(* A drive is in place or has its directory. *)
DriveReady(p, value, s) ==
    \/ value = s /\ s \in Sources \cup {Unset}
    \/ \E name \in DOMAIN p.temp : name # "DH0/S" /\ value = Temp(name) /\ p.temp[name] = s
HdsIn(p, conf) ==
    /\ DOMAIN p.conf.hds = DOMAIN conf.hds
    /\ \A i \in DOMAIN conf.hds : conf.hds[i].kind # "none" =>
        /\ p.conf.hds[i].kind # "none"
        /\ IF i \in Downloads(conf) THEN Placed(p, p.conf.hds[i].src, conf.hds[i].src)
           ELSE DriveReady(p, p.conf.hds[i].src, conf.hds[i].src)

Ready(p, conf) ==
    /\ DrivesIn(p, conf, "drives") /\ DrivesIn(p, conf, "cds")
    /\ ImagesIn(p, conf, "images", "drives") /\ ImagesIn(p, conf, "cd_images", "cds")
    /\ HdsIn(p, conf) /\ RomsIn(p, conf)

LEMMA ConfIs ==
    ASSUME NEW conf \in Asked
    PROVE  /\ Keys \subseteq DOMAIN conf
           /\ \A key \in {"drives", "images", "cds", "cd_images"} : conf[key] \in Seq(Sources \cup {Unset})
           /\ \A key \in {"drives", "images", "cd_files"} : Range(conf[key]) \cap Sources \subseteq Brought(conf)
           /\ conf.cd_files \in Seq(Sources)
           /\ conf.roms \in Seq([file : Sources \cup {Unset, Internal}, defaults : Seq(Sources)])
           /\ \A i \in DOMAIN conf.hds :
                 i \in 0..9 /\ conf.hds[i] \in [kind : HardDriveKinds, src : Sources \cup {Unset}]
  BY ConfAssumption DEF Keys, Brought

(* A key of the configuration gets a new value. *)
LEMMA ConfWith ==
    ASSUME NEW conf, NEW p, Shaped(p, conf), NEW key \in Keys, NEW value, NEW q,
           DOMAIN q = DOMAIN p, q.temp = p.temp, q.ok = p.ok, q.conf = [p.conf EXCEPT ![key] = value]
    PROVE  /\ Shaped(q, conf) /\ q.temp = p.temp /\ q.ok = p.ok /\ q.conf[key] = value
           /\ \A k \in Keys \ {key} : q.conf[k] = p.conf[k]
  BY DEF Shaped

(* Files put into the temporary directory leave what refers to others. *)
LEMMA InCarries ==
    ASSUME NEW p, NEW q, DOMAIN p.temp \subseteq DOMAIN q.temp, NEW conf
    PROVE  /\ q.conf.roms = p.conf.roms /\ RomsIn(p, conf) => RomsIn(q, conf)
           /\ \A key \in Keys :
                 q.conf[key] = p.conf[key] /\ DrivesIn(p, conf, key) => DrivesIn(q, conf, key)
           /\ \A key, of \in Keys :
                 q.conf[key] = p.conf[key] /\ ImagesIn(p, conf, key, of) => ImagesIn(q, conf, key, of)
<1>1. \A value, s : Placed(p, value, s) => Placed(q, value, s)
  BY DEF Placed
<1>2. q.conf.roms = p.conf.roms /\ RomsIn(p, conf) => RomsIn(q, conf)
  BY <1>1 DEF RomsIn
<1>3. \A key \in Keys : q.conf[key] = p.conf[key] /\ DrivesIn(p, conf, key) => DrivesIn(q, conf, key)
  BY <1>1 DEF DrivesIn
<1>4. \A key, of \in Keys :
         q.conf[key] = p.conf[key] /\ ImagesIn(p, conf, key, of) => ImagesIn(q, conf, key, of)
  BY <1>1 DEF ImagesIn
<1> QED BY <1>2, <1>3, <1>4

(* prepare_roms: every ROM is there or the launch has failed. *)
LEMMA RomsPrepared ==
    ASSUME NEW conf \in Asked, NEW p, Shaped(p, conf), p.conf = conf, NEW q, q = PrepareRoms(p)
    PROVE  /\ Shaped(q, conf) /\ (q.ok => p.ok /\ RomsIn(q, conf))
           /\ \A k \in Keys \ {"roms"} : q.conf[k] = conf[k]
<1> DEFINE roms == conf.roms
           file == RomFiles(conf)
           srcs == Range(file) \ {Internal}
           dest == Copied(file, srcs)
           value == [i \in DOMAIN roms |-> [file |-> dest[i], defaults |-> roms[i].defaults]]
           r == CopyAll(p, file, srcs)
<1>1. q = [r EXCEPT !.conf["roms"] = value]
  BY DEF PrepareRoms
<1>2. DOMAIN file = DOMAIN conf.roms /\ DOMAIN value = DOMAIN conf.roms
  BY DEF RomFiles
<1>3. \A i \in DOMAIN conf.roms : value[i].file = dest[i]
  OBVIOUS
<1>4. \A i \in DOMAIN file : file[i] = Internal \/ file[i] \in srcs
  BY DEF Range
<1>5. PICK n \in Nat : DOMAIN file = 1..n
  BY <1>2, ConfIs
<1>6. srcs \subseteq Found => srcs \subseteq Brought(conf)
  BY ConfAssumption DEF Brought
<1>7. srcs \in SUBSET Range(file)
  OBVIOUS
<1> HIDE DEF file, value, srcs
<1>8. /\ Shaped(r, conf) /\ r.conf = p.conf
      /\ r.ok => p.ok /\ srcs \subseteq Found /\ \A s \in srcs : BaseName[s] \in DOMAIN r.temp
  BY <1>5, <1>6, <1>7, CopiesFiles
<1> HIDE DEF r, dest
<1>9. /\ Shaped(q, conf) /\ q.temp = r.temp /\ q.ok = r.ok /\ q.conf["roms"] = value
      /\ \A k \in Keys \ {"roms"} : q.conf[k] = r.conf[k]
  <2>1. /\ DOMAIN q = DOMAIN r /\ q.temp = r.temp /\ q.ok = r.ok
        /\ q.conf = [r.conf EXCEPT !["roms"] = value]
    BY <1>1, <1>8 DEF Shaped
  <2> DEFINE key == "roms"
  <2>2. key \in Keys /\ q.conf = [r.conf EXCEPT ![key] = value]
    BY <2>1 DEF Keys
  <2> HIDE DEF key
  <2>3. /\ Shaped(q, conf) /\ q.conf[key] = value
        /\ \A k \in Keys \ {key} : q.conf[k] = r.conf[k]
    BY ONLY <1>8, <2>1, <2>2, ConfWith
  <2> QED BY <2>1, <2>3 DEF key
<1>10. ASSUME q.ok
       PROVE  RomsIn(q, conf)
  <2>1. srcs \subseteq Found /\ \A s \in srcs : BaseName[s] \in DOMAIN q.temp
    BY <1>8, <1>9, <1>10
  <2>2. Found \subseteq Sources
    BY ConfAssumption
  <2>3. \A i \in DOMAIN file : file[i] \in Found \cup {Internal}
    BY <1>4, <2>1
  <2>4. \A i \in DOMAIN file : file[i] \in Sources \cup {Unset, Internal}
    BY <2>2, <2>3
  <2>5. srcs \subseteq Sources
    BY <2>1, <2>2
  <2>6. \A i \in DOMAIN file : Placed(q, dest[i], file[i])
    BY <2>1, <2>4, <2>5, CopiedPlaced DEF dest
  <2>7. \A i \in DOMAIN conf.roms : q.conf.roms[i].file = dest[i]
    BY <1>3, <1>9
  <2> QED BY <1>2, <2>3, <2>6, <2>7 DEF RomsIn, file
<1> QED BY <1>8, <1>9, <1>10

(* A file of the launcher's own goes to the temporary directory. *)
LEMMA PutsOwn ==
    ASSUME NEW conf, NEW p, Shaped(p, conf), NEW name \in TempNames, NEW content,
           Fits(conf, name, content), NEW q, q = PutFile(p, name, content)
    PROVE  /\ Shaped(q, conf) /\ q.ok = p.ok /\ q.conf = p.conf
           /\ DOMAIN p.temp \subseteq DOMAIN q.temp
           /\ \A n \in DOMAIN p.temp \ {name} : q.temp[n] = p.temp[n]
<1> DEFINE files == OneFile(name, content)
<1>1. DOMAIN files = {name} /\ files[name] = content
  BY DEF OneFile
<1>2. q = [p EXCEPT !.temp = Onto(files, p.temp)]
  BY DEF PutFile, Shaped
<1> HIDE DEF files
<1>3. DOMAIN q = DOMAIN p /\ q.temp = Onto(files, p.temp) /\ q.conf = p.conf /\ q.ok = p.ok
  BY <1>2 DEF Shaped
<1>4. Keys \subseteq DOMAIN q.conf
  BY <1>3 DEF Shaped
<1>5. DOMAIN files \subseteq TempNames /\ \A n \in DOMAIN files : Fits(conf, n, files[n])
  BY <1>1
<1>6. /\ Shaped(q, conf)
      /\ DOMAIN q.temp = DOMAIN files \cup DOMAIN p.temp
      /\ \A n \in DOMAIN p.temp \ DOMAIN files : q.temp[n] = p.temp[n]
  BY <1>3, <1>4, <1>5, PutsFiles
<1> QED BY <1>1, <1>3, <1>6

(* The save disk goes to a place of its own in the list. *)
LEMMA SaveDiskAdded ==
    ASSUME NEW conf, NEW p, Shaped(p, conf), p.conf["save_disk"] = conf.save_disk,
           NEW n \in Nat, DOMAIN p.conf.images = 1..n, NEW q, q = AddSaveDisk(p)
    PROVE  /\ Shaped(q, conf) /\ q.ok = p.ok
           /\ DOMAIN p.temp \subseteq DOMAIN q.temp
           /\ \A k \in Keys \ {"images"} : q.conf[k] = p.conf[k]
           /\ \A i \in DOMAIN p.conf.images : p.conf.images[i] # Unset =>
                 q.conf.images[i] = p.conf.images[i]
<1> DEFINE used == {i \in DOMAIN p.conf.images : p.conf.images[i] # Unset}
           next == 1 + LastAt(used \cup {0})
           images == p.conf.images
           disk == OneFile(next, Temp("Save Disk.adf"))
           r == PutFile(p, "Save Disk.adf", SaveDiskData)
<1>1. CASE p.conf.save_disk
  <2>1. q = [r EXCEPT !.conf.images = Onto(disk, @)]
    BY <1>1 DEF AddSaveDisk
  <2>2. next \notin used
    <3> DEFINE last == LastAt(used \cup {0})
    <3>1. used \cup {0} \in SUBSET (0..n) /\ used \cup {0} # {}
      OBVIOUS
    <3> HIDE DEF last
    <3>2. last \in used \cup {0} /\ \A j \in used \cup {0} : j <= last
      BY <3>1, LastOf DEF last
    <3>3. last \in Int
      BY <3>2
    <3>4. 1 + last \notin used
      BY <3>2, <3>3
    <3>5. next = 1 + last
      BY DEF last
    <3> HIDE DEF next, used
    <3> QED BY <3>4, <3>5
  <2>3. DOMAIN disk = {next}
    BY DEF OneFile
  <2>4. "Save Disk.adf" \in TempNames /\ Fits(conf, "Save Disk.adf", SaveDiskData)
    BY <1>1 DEF TempNames, Fits, Namesakes, Pristine
  <2>5. /\ Shaped(r, conf) /\ r.ok = p.ok /\ r.conf = p.conf
        /\ DOMAIN p.temp \subseteq DOMAIN r.temp
    <3> DEFINE name == "Save Disk.adf"
    <3>1. r = PutFile(p, name, SaveDiskData) /\ name \in TempNames /\ Fits(conf, name, SaveDiskData)
      BY <2>4
    <3> HIDE DEF r, name
    <3> QED BY <3>1, PutsOwn
  <2> HIDE DEF r, next, disk
  <2>6. /\ DOMAIN q = DOMAIN r /\ q.temp = r.temp /\ q.ok = r.ok
        /\ q.conf = [r.conf EXCEPT !["images"] = Onto(disk, images)]
    BY <2>1, <2>5 DEF Shaped
  <2>7. "images" \in Keys
    BY DEF Keys
  <2>8. /\ Shaped(q, conf) /\ q.conf["images"] = Onto(disk, images)
        /\ \A k \in Keys \ {"images"} : q.conf[k] = r.conf[k]
    BY <2>5, <2>6, <2>7 DEF Shaped
  <2>9. \A i \in DOMAIN images \ DOMAIN disk : Onto(disk, images)[i] = images[i]
    <3> HIDE DEF images
    <3> QED BY ONLY OntoValues
  <2> QED BY <2>2, <2>3, <2>5, <2>6, <2>8, <2>9
<1>2. CASE ~p.conf.save_disk
  <2>1. q = p
    BY <1>2 DEF AddSaveDisk
  <2> QED BY <2>1
<1> QED BY <1>1, <1>2

(* prepare_floppies: what is in the drives and in the list of images. *)
LEMMA FloppiesPrepared ==
    ASSUME NEW conf \in Asked, NEW p, Shaped(p, conf), p.conf["save_disk"] = conf["save_disk"],
           p.conf["drives"] = conf["drives"], p.conf["images"] = conf["images"],
           NEW q, q = PrepareFloppies(p)
    PROVE  /\ Shaped(q, conf) /\ DOMAIN p.temp \subseteq DOMAIN q.temp
           /\ q.ok => /\ p.ok
                      /\ DrivesIn(q, conf, "drives") /\ ImagesIn(q, conf, "images", "drives")
           /\ \A k \in Keys \ {"drives", "images"} : q.conf[k] = p.conf[k]
<1> DEFINE drives == conf.drives
           images == ListFromDrives(conf.images, drives)
           srcs == ToCopy(p.conf, drives) \cup ToCopy(p.conf, images)
           list == drives \o images
           r == CopyAll(p, list, srcs)
           t == [r EXCEPT !.conf.drives = Copied(drives, srcs), !.conf.images = Copied(images, srcs)]
<1>1. q = AddSaveDisk(t)
  BY DEF PrepareFloppies
<1>2. /\ drives \in Seq(Sources \cup {Unset}) /\ conf.images \in Seq(Sources \cup {Unset})
      /\ Range(drives) \cap Sources \subseteq Brought(conf)
      /\ Range(conf.images) \cap Sources \subseteq Brought(conf)
  BY ConfIs
<1>3. /\ DOMAIN images = DOMAIN conf.images
      /\ \A i \in DOMAIN images : images[i] \in Range(conf.images) \cup Range(drives) \cup {Unset}
  BY ListValues
<1>4. Range(drives) \subseteq Sources \cup {Unset} /\ Range(conf.images) \subseteq Sources \cup {Unset}
  BY <1>2 DEF Range
<1>5. images \in Seq(Sources \cup {Unset})
  <2>1. PICK n \in Nat : DOMAIN images = 1..n
    BY <1>2, <1>3
  <2>2. images = [i \in DOMAIN images |-> images[i]]
    <3>1. conf.images = [i \in DOMAIN conf.images |-> conf.images[i]]
      BY <1>2
    <3>2. CASE AllUnset(conf.images)
      <4>1. images = [i \in DOMAIN conf.images |->
                        IF NthInserted(drives, i) = {} THEN Unset
                        ELSE drives[CHOOSE j \in NthInserted(drives, i) : TRUE]]
        BY <3>2 DEF ListFromDrives
      <4> HIDE DEF images
      <4> QED BY <4>1
    <3>3. CASE ~AllUnset(conf.images)
      BY <3>1, <3>3 DEF ListFromDrives
    <3> QED BY <3>2, <3>3
  <2>3. \A i \in 1..n : images[i] \in Sources \cup {Unset}
    BY <1>3, <1>4, <2>1
  <2> HIDE DEF images
  <2> QED BY <2>1, <2>2, <2>3
<1> HIDE DEF drives, images
<1>6. Range(images) \cap Sources \subseteq Brought(conf)
  <2> SUFFICES ASSUME NEW i \in DOMAIN images, images[i] \in Sources PROVE images[i] \in Brought(conf)
    BY DEF Range
  <2>1. images[i] # Unset
    BY ConfAssumption
  <2>2. images[i] \in Range(conf.images) \cup Range(drives)
    BY <1>3, <2>1
  <2> QED BY <1>2, <2>2
<1>7. /\ srcs \subseteq (Range(drives) \cup Range(images)) \cap Sources
      /\ srcs \subseteq Brought(conf)
  <2>1. Range(images) \subseteq Sources \cup {Unset}
    BY <1>5 DEF Range
  <2> QED BY <1>2, <1>4, <1>6, <2>1 DEF ToCopy
<1> HIDE DEF srcs
<1>8. /\ list \in Seq(Sources \cup {Unset})
      /\ Range(drives) \cup Range(images) \subseteq Range(list)
  <2>1. list \in Seq(Sources \cup {Unset})
    BY <1>2, <1>5
  <2>2. ASSUME NEW i \in DOMAIN drives PROVE drives[i] \in Range(list)
    <3>1. i \in DOMAIN list /\ list[i] = drives[i]
      BY <1>2, <1>5, <2>2
    <3> QED BY <3>1 DEF Range
  <2>3. ASSUME NEW i \in DOMAIN images PROVE images[i] \in Range(list)
    <3>1. Len(drives) + i \in DOMAIN list /\ list[Len(drives) + i] = images[i]
      BY <1>2, <1>5, <2>3
    <3> QED BY <3>1 DEF Range
  <2> HIDE DEF list
  <2> QED BY <2>1, <2>2, <2>3 DEF Range
<1> HIDE DEF list
<1>9. PICK n \in Nat : DOMAIN list = 1..n
  BY <1>8
<1>10. /\ Shaped(r, conf) /\ r.conf = p.conf /\ DOMAIN p.temp \subseteq DOMAIN r.temp
       /\ r.ok => p.ok /\ \A s \in srcs : BaseName[s] \in DOMAIN r.temp
  <2>1. srcs \in SUBSET Range(list)
    BY <1>7, <1>8
  <2> QED BY <1>7, <1>9, <2>1, CopiesFiles
<1> HIDE DEF r
<1>11. /\ Shaped(t, conf) /\ t.temp = r.temp /\ t.ok = r.ok
       /\ t.conf["drives"] = Copied(drives, srcs) /\ t.conf["images"] = Copied(images, srcs)
       /\ \A k \in Keys \ {"drives", "images"} : t.conf[k] = p.conf[k]
  <2>1. /\ DOMAIN t = DOMAIN r /\ t.temp = r.temp /\ t.ok = r.ok
        /\ t.conf = [[r.conf EXCEPT !["drives"] = Copied(drives, srcs)] EXCEPT !["images"] = Copied(images, srcs)]
    BY <1>10 DEF Shaped
  <2>2. {"drives", "images"} \subseteq Keys
    BY DEF Keys
  <2> HIDE DEF t
  <2> QED BY <1>10, <2>1, <2>2 DEF Shaped
<1> HIDE DEF t
<1>12. ASSUME r.ok
       PROVE  /\ \A i \in DOMAIN drives : Placed(t, Copied(drives, srcs)[i], drives[i])
              /\ \A i \in DOMAIN images : Placed(t, Copied(images, srcs)[i], images[i])
  <2>1. \A i \in DOMAIN drives : drives[i] \in Sources \cup {Unset, Internal}
    BY <1>2
  <2>2. \A i \in DOMAIN images : images[i] \in Sources \cup {Unset, Internal}
    BY <1>5
  <2>3. srcs \subseteq Sources
    BY <1>7
  <2>4. \A s \in srcs : BaseName[s] \in DOMAIN t.temp
    BY <1>10, <1>11, <1>12
  <2>5. \A i \in DOMAIN drives : Placed(t, Copied(drives, srcs)[i], drives[i])
    BY <2>1, <2>3, <2>4, CopiedPlaced
  <2>6. \A i \in DOMAIN images : Placed(t, Copied(images, srcs)[i], images[i])
    BY <2>2, <2>3, <2>4, CopiedPlaced
  <2> QED BY <2>5, <2>6
<1>13. /\ DOMAIN Copied(images, srcs) = DOMAIN images
       /\ \A i \in DOMAIN images : Copied(images, srcs)[i] = Unset <=> images[i] = Unset
  BY <1>7, CopiedUnset
<1>14. /\ Shaped(q, conf) /\ q.ok = t.ok /\ DOMAIN t.temp \subseteq DOMAIN q.temp
       /\ \A k \in Keys \ {"images"} : q.conf[k] = t.conf[k]
       /\ \A i \in DOMAIN images : images[i] # Unset => q.conf.images[i] = t.conf.images[i]
  <2>1. PICK m \in Nat : DOMAIN images = 1..m
    BY <1>5
  <2>2. DOMAIN t.conf.images = 1..m
    BY <1>11, <1>13, <2>1
  <2>3. t.conf["save_disk"] = conf.save_disk
    BY <1>11 DEF Keys
  <2>4. /\ Shaped(q, conf) /\ q.ok = t.ok
        /\ DOMAIN t.temp \subseteq DOMAIN q.temp
        /\ \A k \in Keys \ {"images"} : q.conf[k] = t.conf[k]
        /\ \A i \in DOMAIN t.conf.images : t.conf.images[i] # Unset =>
              q.conf.images[i] = t.conf.images[i]
    BY <1>1, <1>11, <2>2, <2>3, SaveDiskAdded
  <2> QED BY <1>11, <1>13, <2>4
<1>15. ASSUME q.ok
       PROVE  DrivesIn(q, conf, "drives") /\ ImagesIn(q, conf, "images", "drives")
  <2>1. r.ok
    BY <1>11, <1>14, <1>15
  <2>2. \A value, s : Placed(t, value, s) => Placed(q, value, s)
    BY <1>14 DEF Placed
  <2>3. q.conf["drives"] = Copied(drives, srcs)
    BY <1>11, <1>14 DEF Keys
  <2>4. DrivesIn(q, conf, "drives")
    BY <1>12, <2>1, <2>2, <2>3 DEF DrivesIn, drives
  <2>5. ImagesIn(q, conf, "images", "drives")
    BY <1>11, <1>12, <1>14, <2>1, <2>2 DEF ImagesIn, drives, images
  <2> QED BY <2>4, <2>5
<1> QED BY <1>10, <1>11, <1>14, <1>15

(* prepare_cdroms: either all or none of the CDs of a configuration are    *)
(* among its copied files.                                                 *)
LEMMA CdromsPrepared ==
    ASSUME NEW conf \in Asked, NEW p, Shaped(p, conf),
           p.conf["cds"] = conf["cds"], p.conf["cd_images"] = conf["cd_images"],
           p.conf["cd_files"] = conf["cd_files"],
           NEW q, q = PrepareCdroms(p)
    PROVE  /\ Shaped(q, conf) /\ DOMAIN p.temp \subseteq DOMAIN q.temp
           /\ q.ok => /\ p.ok
                      /\ DrivesIn(q, conf, "cds") /\ ImagesIn(q, conf, "cd_images", "cds")
           /\ \A k \in Keys \ {"cds", "cd_images"} : q.conf[k] = p.conf[k]
<1> DEFINE files == conf.cd_files
           srcs == Range(files)
           moved == IF files = <<>> THEN {} ELSE Sources
           drives == conf.cds
           cds == Copied(drives, moved)
           images == ListFromDrives(conf.cd_images, drives)
           list == ListFromDrives(Copied(conf.cd_images, moved), cds)
           r == CopyAll(p, files, srcs)
<1>1. q = [r EXCEPT !.conf.cds = cds, !.conf.cd_images = ListFromDrives(Copied(@, moved), cds)]
  BY DEF PrepareCdroms
<1>2. /\ drives \in Seq(Sources \cup {Unset}) /\ conf.cd_images \in Seq(Sources \cup {Unset})
      /\ files \in Seq(Sources) /\ Range(files) \cap Sources \subseteq Brought(conf)
  BY ConfIs
<1>3. files # <<>> => Range(drives) \cup Range(conf.cd_images) \subseteq srcs \cup {Unset}
  BY ConfAssumption
<1>4. /\ DOMAIN images = DOMAIN conf.cd_images
      /\ \A i \in DOMAIN images : images[i] \in Range(conf.cd_images) \cup Range(drives) \cup {Unset}
  BY ListValues
<1>5. moved \subseteq Sources /\ (moved # {} => moved = Sources /\ files # <<>>)
  OBVIOUS
<1>6. \A i \in DOMAIN images : list[i] = Copied(images, moved)[i]
  BY <1>2, <1>4, <1>5, ListCopied
<1>7. \A i \in DOMAIN images : images[i] \in Sources \cup {Unset, Internal}
  BY <1>2, <1>4 DEF Range
<1>8. \A i \in DOMAIN drives : drives[i] \in Sources \cup {Unset, Internal}
  BY <1>2
<1>9. \A s \in moved : s \in Range(images) \cup Range(drives) => s \in srcs
  <2>1. Unset \notin Sources
    BY ConfAssumption
  <2>2. Range(images) \subseteq Range(conf.cd_images) \cup Range(drives) \cup {Unset}
    BY <1>4 DEF Range
  <2> QED BY <1>3, <1>5, <2>1, <2>2
<1>10. PICK n \in Nat : DOMAIN files = 1..n
  BY <1>2
<1>11. srcs \subseteq Sources /\ srcs \subseteq Brought(conf)
  BY <1>2 DEF Range
<1>12. /\ Shaped(r, conf) /\ r.conf = p.conf /\ DOMAIN p.temp \subseteq DOMAIN r.temp
       /\ r.ok => p.ok /\ \A s \in srcs : BaseName[s] \in DOMAIN r.temp
  <2>1. srcs \in SUBSET Range(files)
    OBVIOUS
  <2> HIDE DEF srcs, files
  <2> QED BY <1>10, <1>11, <2>1, CopiesFiles
<1> HIDE DEF r, cds, list, images, moved, drives, srcs, files
<1>13. /\ DOMAIN q = DOMAIN r /\ q.temp = r.temp /\ q.ok = r.ok
       /\ q.conf["cds"] = cds /\ q.conf["cd_images"] = list
       /\ Keys \subseteq DOMAIN q.conf
       /\ \A k \in Keys \ {"cds", "cd_images"} : q.conf[k] = p.conf[k]
  <2> DEFINE with == [r EXCEPT !.conf = [r.conf EXCEPT !.cds = cds]]
  <2>1. q = [with EXCEPT !.conf = [with.conf EXCEPT !.cd_images = list]]
    <3>1. r.conf.cd_images = conf.cd_images
      BY <1>12
    <3>2. list = ListFromDrives(Copied(r.conf.cd_images, moved), cds)
      BY <3>1 DEF list
    <3> QED BY <1>1, <3>2
  <2>2. /\ DOMAIN with = DOMAIN r /\ with.temp = r.temp /\ with.ok = r.ok
        /\ with.conf = [p.conf EXCEPT !["cds"] = cds]
    BY <1>12 DEF Shaped
  <2> HIDE DEF with
  <2>3. /\ DOMAIN q = DOMAIN r /\ q.temp = r.temp /\ q.ok = r.ok
        /\ q.conf = [[p.conf EXCEPT !["cds"] = cds] EXCEPT !["cd_images"] = list]
    <3>1. DOMAIN with = {"conf", "temp", "ok"}
      BY <1>12, <2>2 DEF Shaped
    <3>2. /\ DOMAIN q = DOMAIN with /\ q.temp = with.temp /\ q.ok = with.ok
          /\ q.conf = [with.conf EXCEPT !["cd_images"] = list]
      BY <2>1, <3>1
    <3> QED BY <2>2, <3>2
  <2>4. {"cds", "cd_images"} \subseteq Keys
    BY DEF Keys
  <2> QED BY <2>3, <2>4 DEF Shaped
<1>14. Shaped(q, conf)
  BY <1>12, <1>13 DEF Shaped
<1>15. ASSUME q.ok
       PROVE  DrivesIn(q, conf, "cds") /\ ImagesIn(q, conf, "cd_images", "cds")
  <2>1. \A s \in srcs : BaseName[s] \in DOMAIN q.temp
    BY <1>12, <1>13, <1>15
  <2>2. \A s \in moved \cap Range(drives) : BaseName[s] \in DOMAIN q.temp
    BY <1>9, <2>1
  <2>3. \A s \in moved \cap Range(images) : BaseName[s] \in DOMAIN q.temp
    BY <1>9, <2>1
  <2>4. \A i \in DOMAIN drives : Placed(q, Copied(drives, moved)[i], drives[i])
    BY <1>5, <1>8, <2>2, CopiedPlaced
  <2>5. \A i \in DOMAIN images : Placed(q, Copied(images, moved)[i], images[i])
    BY <1>5, <1>7, <2>3, CopiedPlaced
  <2>6. DrivesIn(q, conf, "cds")
    BY <1>13, <2>4 DEF DrivesIn, drives, cds
  <2>7. ImagesIn(q, conf, "cd_images", "cds")
    BY <1>6, <1>13, <2>5 DEF ImagesIn, images, drives
  <2> QED BY <2>6, <2>7
<1> QED BY <1>12, <1>13, <1>14, <1>15

(* prepare_hard_drives: the directories are those of their drives alone;   *)
(* what is downloaded may replace a file.                                  *)
LEMMA HardDrivesPrepared ==
    ASSUME NEW conf \in Asked, NEW p, Shaped(p, conf), p.conf["hds"] = conf["hds"],
           NEW q, q = PrepareHardDrives(p)
    PROVE  /\ Shaped(q, conf) /\ DOMAIN p.temp \subseteq DOMAIN q.temp
           /\ q.ok => p.ok /\ HdsIn(q, conf)
           /\ \A k \in Keys \ {"hds"} : q.conf[k] = p.conf[k]
<1> DEFINE hds == p.conf.hds
           copies == {i \in DOMAIN hds : hds[i].kind \in Unpacked \cup {"url"}}
           dest == [i \in copies |-> IF hds[i].kind \in Unpacked THEN DriveDir[i] ELSE BaseName[hds[i].src]]
           Called(name) == {i \in copies : dest[i] = name}
           files == [name \in Range(dest) |-> hds[LastAt(Called(name))].src]
           value == [i \in DOMAIN hds |->
                        IF i \in copies THEN [hds[i] EXCEPT !.src = Temp(dest[i])] ELSE hds[i]]
           temp == p.temp
           states == p.conf.save_states /\ (p.conf.unsafe_save_states
                                              \/ \A i \in DOMAIN hds : hds[i].kind \notin Unpacked)
           found == \A i \in copies : hds[i].src \in Found
<1>1. q = IF found
          THEN [p EXCEPT !.temp = Onto(files, temp), !.conf.hds = value, !.conf.save_states = states]
          ELSE Failed(p)
  BY DEF PrepareHardDrives
<1>0. hds = conf.hds
  OBVIOUS
<1> HIDE DEF found
<1>2. \A i \in DOMAIN hds : i \in 0..9 /\ hds[i] \in [kind : HardDriveKinds, src : Sources \cup {Unset}]
  BY <1>0, ConfIs
<1>3. /\ DOMAIN dest = copies /\ copies \subseteq DOMAIN hds
      /\ \A i \in copies : dest[i] = IF hds[i].kind \in Unpacked THEN DriveDir[i] ELSE BaseName[hds[i].src]
      /\ \A i \in copies : hds[i].kind \in Unpacked \/ hds[i].kind = "url"
      /\ \A i \in DOMAIN hds : hds[i].kind = "url" => i \in copies
  OBVIOUS
<1>4. Unset \notin Found /\ Found \subseteq Sources
  BY ConfAssumption
<1> HIDE DEF dest
<1>5. /\ DOMAIN files = Range(dest)
      /\ \A name \in DOMAIN files : \E i \in copies : dest[i] = name /\ files[name] = hds[i].src
  <2> SUFFICES ASSUME NEW name \in Range(dest)
               PROVE  \E i \in copies : dest[i] = name /\ files[name] = hds[i].src
    OBVIOUS
  <2> DEFINE called == Called(name)
             last == LastAt(called)
  <2>1. called # {}
    BY <1>3 DEF Range
  <2>2. called \in SUBSET (0..9)
    BY <1>2, <1>3
  <2>3. files[name] = hds[last].src
    OBVIOUS
  <2>4. last \in called
    <3> HIDE DEF called
    <3> QED BY <2>1, <2>2, LastOf
  <2>5. last \in copies /\ dest[last] = name
    BY <2>4
  <2> QED BY <2>3, <2>5
<1>6. /\ DOMAIN value = DOMAIN hds
      /\ \A i \in DOMAIN hds \ copies : value[i] = hds[i]
      /\ \A i \in copies : value[i].kind = hds[i].kind /\ value[i].src = Temp(dest[i])
  <2>1. \A i \in copies : value[i] = [hds[i] EXCEPT !.src = Temp(dest[i])]
    OBVIOUS
  <2>2. \A i \in copies : DOMAIN hds[i] = {"kind", "src"}
    BY <1>2
  <2>4. \A h, s : DOMAIN h = {"kind", "src"} =>
           [h EXCEPT !.src = s].kind = h.kind /\ [h EXCEPT !.src = s].src = s
    OBVIOUS
  <2> HIDE DEF hds, copies, value
  <2>3. \A i \in copies : value[i].kind = hds[i].kind /\ value[i].src = Temp(dest[i])
    BY <2>1, <2>2, <2>4
  <2> QED BY <2>3 DEF value, copies, hds
<1>7. \A i \in copies : hds[i].kind = "url" => (hds[i].src \in Sources => hds[i].src \in Brought(conf))
  BY <1>0, <1>3 DEF Brought, Downloads
<1>8. Downloads(conf) = {i \in DOMAIN hds : hds[i].kind = "url"}
  BY <1>0 DEF Downloads
<1>17. \A i \in DOMAIN hds : hds[i].kind = "url" => hds[i].kind \notin Unpacked
  BY DEF Unpacked
<1> HIDE DEF files, value, states, found, temp, hds, copies
<1>9. CASE found
  <2>1. /\ DOMAIN q = DOMAIN p /\ q.temp = Onto(files, temp) /\ q.ok = p.ok
        /\ q.conf = [[p.conf EXCEPT !["hds"] = value] EXCEPT !.save_states = states]
    BY <1>1, <1>9 DEF Shaped
  <2>2. /\ q.conf["hds"] = value /\ Keys \subseteq DOMAIN q.conf
        /\ \A k \in Keys \ {"hds"} : q.conf[k] = p.conf[k]
    <3>1. "hds" \in Keys /\ "save_states" \notin Keys
      BY DEF Keys
    <3> QED BY <2>1, <3>1 DEF Shaped
  <2>3. \A i \in copies : i \in 0..9 /\ hds[i].src \in Found /\ hds[i].src \in Sources
    BY <1>2, <1>3, <1>4, <1>9 DEF found
  <2>4. \A i \in copies : hds[i].kind \in Unpacked => dest[i] \in OwnNames /\ dest[i] # "DH0/S"
    BY <1>3, <2>3, DriveDirs
  <2>5. \A i \in copies : hds[i].kind = "url" =>
           dest[i] = BaseName[hds[i].src] /\ dest[i] \notin OwnNames
    BY <1>3, <1>17, <2>3, NameAssumption
  <2>6. \A i \in copies : dest[i] \in TempNames /\ Fits(conf, dest[i], hds[i].src)
    <3> SUFFICES ASSUME NEW i \in copies PROVE dest[i] \in TempNames /\ Fits(conf, dest[i], hds[i].src)
      OBVIOUS
    <3>1. CASE hds[i].kind \in Unpacked
      BY <2>3, <2>4, <3>1 DEF TempNames, Fits, Pristine
    <3>2. CASE hds[i].kind = "url"
      BY <1>7, <2>3, <2>5, <3>2, BroughtIs
    <3> QED BY <1>3, <3>1, <3>2
  <2>7. DOMAIN files \subseteq TempNames /\ \A name \in DOMAIN files : Fits(conf, name, files[name])
    BY <1>5, <2>6
  <2>8. /\ Shaped(q, conf)
        /\ DOMAIN q.temp = DOMAIN files \cup DOMAIN p.temp
        /\ \A name \in DOMAIN files : q.temp[name] = files[name]
    <3>1. q.temp = Onto(files, p.temp) /\ DOMAIN q = DOMAIN p
      BY <2>1 DEF temp
    <3>2. Shaped(p, conf)
      OBVIOUS
    <3>3. Keys \subseteq DOMAIN q.conf
      BY <2>2
    <3>4. DOMAIN files \subseteq TempNames
      BY <2>7
    <3>5. \A name \in DOMAIN files : Fits(conf, name, files[name])
      BY <2>7
    <3>6. q.temp = Onto(files, p.temp)
      BY <3>1
    <3>7. DOMAIN q = DOMAIN p
      BY <3>1
    <3>8. Shaped(q, conf)
      BY ONLY <3>2, <3>3, <3>4, <3>5, <3>6, <3>7, PutsFiles
    <3>9. DOMAIN Onto(files, p.temp) = DOMAIN files \cup DOMAIN p.temp
      BY OntoValues, Zenon
    <3>10. \A name \in DOMAIN files : Onto(files, p.temp)[name] = files[name]
      BY OntoValues, Zenon
    <3> QED BY <3>6, <3>8, <3>9, <3>10
  <2>9. \A i \in copies : dest[i] \in DOMAIN files
    BY <1>3, <1>5 DEF Range
  <2>10. \A i \in copies : hds[i].kind \in Unpacked => q.temp[dest[i]] = hds[i].src
    <3> SUFFICES ASSUME NEW i \in copies, hds[i].kind \in Unpacked PROVE files[dest[i]] = hds[i].src
      BY <2>8, <2>9
    <3>1. PICK j \in copies : dest[j] = dest[i] /\ files[dest[i]] = hds[j].src
      BY <1>5, <2>9
    <3>2. hds[j].kind \in Unpacked
      BY <1>3, <2>4, <2>5, <3>1
    <3>3. dest[i] = DriveDir[i] /\ dest[j] = DriveDir[j]
      BY <1>3, <3>2
    <3>4. i \in 0..9 /\ j \in 0..9 /\ DriveDir[i] = DriveDir[j]
      BY <2>3, <3>1, <3>3
    <3>5. i = j
      BY <3>4, DriveDirs
    <3> QED BY <3>1, <3>5
  <2>11. HdsIn(q, conf)
    <3>1. DOMAIN q.conf.hds = DOMAIN conf.hds
      BY <1>0, <1>6, <2>2
    <3> SUFFICES ASSUME NEW i \in DOMAIN hds, hds[i].kind # "none"
                 PROVE  /\ q.conf.hds[i].kind # "none"
                        /\ IF i \in Downloads(conf) THEN Placed(q, q.conf.hds[i].src, hds[i].src)
                           ELSE DriveReady(q, q.conf.hds[i].src, hds[i].src)
      BY <1>0, <3>1 DEF HdsIn
    <3>2. CASE i \in copies /\ hds[i].kind \in Unpacked
      <4>1. q.conf.hds[i].kind # "none" /\ q.conf.hds[i].src = Temp(dest[i])
        BY <1>6, <2>2, <3>2
      <4>2. i \notin Downloads(conf)
        BY <1>8, <1>17, <3>2
      <4>3. dest[i] \in DOMAIN q.temp /\ dest[i] # "DH0/S" /\ q.temp[dest[i]] = hds[i].src
        BY <2>4, <2>8, <2>9, <2>10, <3>2
      <4> QED BY <4>1, <4>2, <4>3 DEF DriveReady
    <3>3. CASE i \in copies /\ hds[i].kind = "url"
      <4>1. q.conf.hds[i].kind # "none" /\ q.conf.hds[i].src = Temp(dest[i])
        BY <1>6, <2>2, <3>3
      <4>2. i \in Downloads(conf)
        BY <1>8, <3>3
      <4>3. dest[i] = BaseName[hds[i].src] /\ hds[i].src \in Sources /\ dest[i] \in DOMAIN q.temp
        BY <2>3, <2>5, <2>8, <2>9, <3>3
      <4> QED BY <4>1, <4>2, <4>3 DEF Placed
    <3>4. CASE i \notin copies
      <4>1. i \notin Downloads(conf)
        BY <1>3, <1>8, <3>4
      <4>2. q.conf.hds[i] = hds[i] /\ hds[i].src \in Sources \cup {Unset}
        BY <1>2, <1>6, <2>2, <3>4
      <4> QED BY <4>1, <4>2 DEF DriveReady
    <3> QED BY <1>3, <3>2, <3>3, <3>4
  <2> QED BY <2>1, <2>2, <2>8, <2>11
<1>10. CASE ~found
  <2>1. q = [p EXCEPT !.ok = FALSE]
    BY <1>1, <1>10 DEF Failed
  <2> QED BY <2>1 DEF Shaped
<1> QED BY <1>9, <1>10

(* copy_hd_files: what is written to boot from takes no drive's place.     *)
LEMMA HdFilesCopied ==
    ASSUME NEW conf \in Asked, NEW p, Shaped(p, conf), NEW q, q = CopyHdFiles(p)
    PROVE  /\ Shaped(q, conf) /\ DOMAIN p.temp \subseteq DOMAIN q.temp
           /\ q.ok => p.ok /\ (HdsIn(p, conf) => HdsIn(q, conf))
           /\ \A k \in Keys \ {"hds"} : q.conf[k] = p.conf[k]
<1> DEFINE name == "DH0/S"
           hds == p.conf.hds
           boot == [kind |-> "boot", src |-> Temp("DH0")]
           r == PutFile(p, name, StartupFiles)
           value == [hds EXCEPT ![0] = IF @.kind = "none" THEN boot ELSE @]
<1>1. CASE q = p
  BY <1>1
<1>2. CASE q = Failed(p)
  <2>1. q = [p EXCEPT !.ok = FALSE]
    BY <1>2 DEF Failed
  <2> QED BY <2>1 DEF Shaped
<1>3. CASE q = [r EXCEPT !.conf.hds[0] = IF @.kind = "none" THEN boot ELSE @]
  <2>1. name \in TempNames /\ Fits(conf, name, StartupFiles)
    BY DEF TempNames, OwnNames, Fits, Pristine
  <2>2. /\ Shaped(r, conf) /\ r.ok = p.ok /\ r.conf = p.conf
        /\ DOMAIN p.temp \subseteq DOMAIN r.temp
        /\ \A n \in DOMAIN p.temp \ {name} : r.temp[n] = p.temp[n]
    <3>1. r = PutFile(p, name, StartupFiles)
      OBVIOUS
    <3> HIDE DEF r, name
    <3> QED BY <2>1, <3>1, PutsOwn
  <2> HIDE DEF r
  <2>3. /\ DOMAIN q = DOMAIN r /\ q.temp = r.temp /\ q.ok = r.ok
        /\ q.conf = [r.conf EXCEPT !["hds"] = value]
    BY <1>3, <2>2 DEF Shaped
  <2>4. /\ DOMAIN value = DOMAIN hds
        /\ \A i \in DOMAIN hds : hds[i].kind # "none" => value[i] = hds[i]
    OBVIOUS
  <2> HIDE DEF value, hds
  <2>5. /\ Shaped(q, conf) /\ q.conf["hds"] = value
        /\ \A k \in Keys \ {"hds"} : q.conf[k] = r.conf[k]
    <3>1. "hds" \in Keys
      BY DEF Keys
    <3> QED BY <2>2, <2>3, <3>1 DEF Shaped
  <2>6. \A v, s : /\ DriveReady(p, v, s) => DriveReady(q, v, s)
                  /\ Placed(p, v, s) => Placed(q, v, s)
    BY <2>2, <2>3 DEF DriveReady, Placed
  <2>7. HdsIn(p, conf) => HdsIn(q, conf)
    BY <2>4, <2>5, <2>6 DEF HdsIn, hds
  <2> QED BY <2>2, <2>3, <2>5, <2>7
<1> QED
  <2>1. q = p \/ q = Failed(p) \/ q = [r EXCEPT !.conf.hds[0] = IF @.kind = "none" THEN boot ELSE @]
    <3> HIDE DEF boot, r
    <3>1. CASE p.conf.boot = "none"
      BY <3>1 DEF CopyHdFiles
    <3>2. CASE p.conf.boot = "whdload" /\ "DH0" \notin DOMAIN p.temp
      BY <3>2 DEF CopyHdFiles
    <3>3. CASE p.conf.boot # "none" /\ ~(p.conf.boot = "whdload" /\ "DH0" \notin DOMAIN p.temp)
      BY <3>3 DEF CopyHdFiles, r, boot
    <3> QED BY <3>1, <3>2, <3>3
  <2> QED BY <1>1, <1>2, <1>3, <2>1

(* What every stage put in place is in place in the end. *)
LEMMA AllPrepared ==
    ASSUME NEW g \in Games
    PROVE  /\ Shaped(Prepared[g], Conf[g])
           /\ Prepared[g].ok => Ready(Prepared[g], Conf[g])
<1> DEFINE conf == Conf[g]
           p0 == [conf |-> conf, temp |-> NoFiles, ok |-> TRUE]
           p1 == PrepareRoms(p0)
           p2 == PrepareFloppies(p1)
           p3 == PrepareCdroms(p2)
           p4 == PrepareHardDrives(p3)
           p5 == CopyHdFiles(p4)
<1>1. Prepared[g] = p5 /\ conf \in Asked
  BY DEF Prepared, Asked
<1>2. Shaped(p0, conf) /\ p0.conf = conf
  BY <1>1, ConfIs DEF Shaped, NoFiles
<1> HIDE DEF conf, p0
<1>3. /\ Shaped(p1, conf) /\ (p1.ok => p0.ok /\ RomsIn(p1, conf))
      /\ \A k \in Keys \ {"roms"} : p1.conf[k] = conf[k]
  BY <1>1, <1>2, RomsPrepared
<1> HIDE DEF p1
<1>4. /\ Shaped(p2, conf) /\ DOMAIN p1.temp \subseteq DOMAIN p2.temp
      /\ p2.ok => /\ p1.ok
                  /\ DrivesIn(p2, conf, "drives") /\ ImagesIn(p2, conf, "images", "drives")
      /\ \A k \in Keys \ {"drives", "images"} : p2.conf[k] = p1.conf[k]
  <2>1. /\ p1.conf["drives"] = conf["drives"] /\ p1.conf["images"] = conf["images"]
        /\ p1.conf["save_disk"] = conf["save_disk"]
    BY <1>3 DEF Keys
  <2> QED BY <1>1, <1>3, <2>1, FloppiesPrepared
<1> HIDE DEF p2
<1>5. /\ Shaped(p3, conf) /\ DOMAIN p2.temp \subseteq DOMAIN p3.temp
      /\ p3.ok => /\ p2.ok
                  /\ DrivesIn(p3, conf, "cds") /\ ImagesIn(p3, conf, "cd_images", "cds")
      /\ \A k \in Keys \ {"cds", "cd_images"} : p3.conf[k] = p2.conf[k]
  <2>1. /\ p2.conf["cds"] = conf["cds"] /\ p2.conf["cd_images"] = conf["cd_images"]
        /\ p2.conf["cd_files"] = conf["cd_files"]
    BY <1>3, <1>4 DEF Keys
  <2> QED BY <1>1, <1>4, <2>1, CdromsPrepared
<1> HIDE DEF p3
<1>6. /\ Shaped(p4, conf) /\ DOMAIN p3.temp \subseteq DOMAIN p4.temp
      /\ p4.ok => p3.ok /\ HdsIn(p4, conf)
      /\ \A k \in Keys \ {"hds"} : p4.conf[k] = p3.conf[k]
  <2>1. p3.conf["hds"] = conf["hds"]
    BY <1>3, <1>4, <1>5 DEF Keys
  <2> QED BY <1>1, <1>5, <2>1, HardDrivesPrepared
<1> HIDE DEF p4
<1>7. /\ Shaped(p5, conf) /\ DOMAIN p4.temp \subseteq DOMAIN p5.temp
      /\ p5.ok => p4.ok /\ (HdsIn(p4, conf) => HdsIn(p5, conf))
      /\ \A k \in Keys \ {"hds"} : p5.conf[k] = p4.conf[k]
  BY <1>1, <1>6, HdFilesCopied
<1> HIDE DEF p5
<1> SUFFICES ASSUME p5.ok PROVE Ready(p5, conf)
  BY <1>1, <1>7 DEF conf
<1>8. p5.ok /\ p4.ok /\ p3.ok /\ p2.ok /\ p1.ok
  BY <1>3, <1>4, <1>5, <1>6, <1>7
<1>9. /\ DOMAIN p1.temp \subseteq DOMAIN p5.temp /\ DOMAIN p2.temp \subseteq DOMAIN p5.temp
      /\ DOMAIN p3.temp \subseteq DOMAIN p5.temp
  BY <1>4, <1>5, <1>6, <1>7
<1>10. RomsIn(p5, conf)
  <2>1. p5.conf["roms"] = p1.conf["roms"]
    BY <1>4, <1>5, <1>6, <1>7 DEF Keys
  <2> QED BY <1>3, <1>8, <1>9, <2>1, InCarries
<1>11. DrivesIn(p5, conf, "drives") /\ ImagesIn(p5, conf, "images", "drives")
  <2>1. p5.conf["drives"] = p2.conf["drives"] /\ p5.conf["images"] = p2.conf["images"]
    BY <1>5, <1>6, <1>7 DEF Keys
  <2>2. "drives" \in Keys /\ "images" \in Keys
    BY DEF Keys
  <2> QED BY <1>4, <1>8, <1>9, <2>1, <2>2, InCarries
<1>12. DrivesIn(p5, conf, "cds") /\ ImagesIn(p5, conf, "cd_images", "cds")
  <2>1. p5.conf["cds"] = p3.conf["cds"] /\ p5.conf["cd_images"] = p3.conf["cd_images"]
    BY <1>6, <1>7 DEF Keys
  <2>2. "cds" \in Keys /\ "cd_images" \in Keys
    BY DEF Keys
  <2> QED BY <1>5, <1>8, <1>9, <2>1, <2>2, InCarries
<1> QED BY <1>6, <1>7, <1>8, <1>10, <1>11, <1>12 DEF Ready

LEMMA PreparedUntouched ==
    ASSUME NEW g \in Games
    PROVE  \A name \in DOMAIN Prepared[g].temp : Prepared[g].temp[name] \in Pristine
  BY AllPrepared DEF Shaped, Fits
-----------------------------------------------------------------------------
(***************************************************************************)
(* A change makes something that was nowhere before.                       *)
(***************************************************************************)
Future == {<<g, m>> : g \in Games, m \in (plays + 1)..PlayLimit}

FilesDated(l) ==
    pc[l] # "none" =>
        /\ \A name \in DOMAIN job[l].temp : job[l].temp[name] \notin Future
        /\ \A name \in DOMAIN job[l].old : job[l].old[name] \notin Future

DiskDated == \A s \in Linkable : onDisk[s] \notin Future
SavedDated == \A d \in Dirs : \A name \in DOMAIN saved[d] : saved[d][name] \notin Future

Dated == DiskDated /\ SavedDated /\ \A l \in Launches : FilesDated(l)

LEMMA FutureShrinks ==
    ASSUME IInv, plays' = plays \/ (plays' = plays + 1)
    PROVE  Future' \subseteq Future
<1>1. plays \in Int /\ PlayLimit \in Int
  BY PlayAssumption DEF IInv, TypeOK
<1>2. \A m \in (plays' + 1)..PlayLimit : m \in (plays + 1)..PlayLimit
  BY <1>1
<1> QED BY <1>2 DEF Future

LEMMA PristineDated ==
    ASSUME IInv
    PROVE  Pristine \cap Future = {} /\ Hollow \notin Future
<1>1. \A m \in (plays + 1)..PlayLimit : m \in 1..PlayLimit
  BY PlayAssumption DEF IInv, TypeOK
<1> QED BY <1>1, PlayAssumption DEF Future

LEMMA ContentsDated ==
    ASSUME Dated, NEW l \in Launches, pc[l] # "none"
    PROVE  \A name \in DOMAIN job[l].temp : Contents(l)[name] \notin Future
  BY ContentsValues DEF Dated, DiskDated, FilesDated

LEMMA OtherDated ==
    ASSUME IInv, Dated, Future' \subseteq Future, NEW k \in Launches, Likewise(k), pc'[k] = pc[k]
    PROVE  FilesDated(k)'
  BY DEF Dated, FilesDated, Likewise

LEMMA WriteDated ==
    ASSUME IInv, Dated, Future' \subseteq Future, NEW l \in Launches, pc[l] # "none",
           NEW files, \A name \in DOMAIN files : files[name] \notin Future',
           NEW update, DOMAIN update = Fields, WriteFiles(l, files, update)
    PROVE  /\ DiskDated'
           /\ \A name \in DOMAIN job'[l].temp : job'[l].temp[name] \notin Future'
           /\ \A name \in DOMAIN Contents(l)' : Contents(l)'[name] \notin Future'
<1>1. /\ \A s \in Linkable :
            \/ s \notin Written(l, files) /\ onDisk'[s] = onDisk[s]
            \/ \E name \in LinksTo(l, {s}) \cap DOMAIN files : onDisk'[s] = files[name]
      /\ job'[l].temp = TempWith(l, files)
  BY WriteValues
<1>2. \A s \in Linkable : onDisk'[s] \notin Future'
  BY <1>1 DEF Dated, DiskDated
<1>3. \A name \in DOMAIN job'[l].temp : job'[l].temp[name] \notin Future'
  <2>1. \A name \in DOMAIN job[l].temp : job[l].temp[name] \notin Future
    BY DEF Dated, FilesDated
  <2>2. Links(l) \subseteq DOMAIN job[l].temp
    BY DEF Links
  <2>3. /\ DOMAIN TempWith(l, files) = DOMAIN job[l].temp \cup DOMAIN files
        /\ \A name \in DOMAIN files \ Links(l) : TempWith(l, files)[name] = files[name]
        /\ \A name \in DOMAIN job[l].temp :
              name \in Links(l) \/ name \notin DOMAIN files => TempWith(l, files)[name] = job[l].temp[name]
    BY TempValues
  <2> QED BY <1>1, <2>1, <2>2, <2>3
<1>4. \A name \in DOMAIN Contents(l)' : Contents(l)'[name] \notin Future'
  BY <1>2, <1>3 DEF Contents, Holding
<1> QED BY <1>2, <1>3, <1>4 DEF DiskDated

(* What the steps of a launch that write no file do to the files there are. *)
LEMMA QuietDated ==
    ASSUME IInv, Dated, UNCHANGED <<onDisk, saved, plays>>, NEW l \in Launches,
           \A k \in Launches \ {l} : job'[k] = job[k] /\ pc'[k] = pc[k],
           FilesDated(l)'
    PROVE  Dated'
<1>1. Future' \subseteq Future
  BY FutureShrinks
<1>2. \A k \in Launches : FilesDated(k)'
  BY <1>1, OtherDated DEF Likewise
<1> QED BY <1>1, <1>2 DEF Dated, DiskDated, SavedDated

LEMMA RestoreDated ==
    ASSUME IInv, Dated, NEW l \in Launches, RestoreChanges(l)
    PROVE  Dated'
<1> DEFINE files == SavedFiles(l)
           now == Holding(TempWith(l, files), DiskWith(l, files))
           noted == [job[l] EXCEPT !.old = now, !.contested = Aliases(l)]
<1>1. DOMAIN job[l] = Fields /\ job[l].game \in Games /\ pc[l] = "changes"
  BY DEF IInv, LaunchOK, RestoreChanges
<1>2. UNCHANGED <<saved, plays>> /\ Future' \subseteq Future
  BY FutureShrinks DEF RestoreChanges
<1>3. \A name \in DOMAIN files : files[name] \notin Future'
  BY <1>1, <1>2, StateDirKind DEF Dated, SavedDated, SavedFiles
<1>4. DOMAIN noted = Fields /\ noted.old = now
  BY <1>1 DEF Fields
<1>5. WriteFiles(l, files, noted)
  BY DEF RestoreChanges
<1>6. now = Contents(l)'
  <2>1. job'[l].temp = TempWith(l, files)
    BY <1>4, <1>5, WriteValues
  <2>2. onDisk' = DiskWith(l, files)
    BY <1>5 DEF WriteFiles
  <2> QED BY <2>1, <2>2 DEF Contents
<1> HIDE DEF files, now, noted
<1>7. /\ DiskDated'
      /\ \A name \in DOMAIN job'[l].temp : job'[l].temp[name] \notin Future'
      /\ \A name \in DOMAIN Contents(l)' : Contents(l)'[name] \notin Future'
  BY <1>1, <1>2, <1>3, <1>4, <1>5, WriteDated
<1>8. job'[l].old = now /\ \A k \in Launches \ {l} : Likewise(k)
  BY <1>4, <1>5, WriteValues DEF Fields
<1>9. FilesDated(l)'
  BY <1>6, <1>7, <1>8 DEF FilesDated
<1>10. \A k \in Launches \ {l} : pc'[k] = pc[k]
  BY DEF RestoreChanges, Goto, IInv, TypeOK
<1>11. \A k \in Launches : FilesDated(k)'
  BY <1>2, <1>8, <1>9, <1>10, OtherDated
<1> QED BY <1>2, <1>7, <1>11 DEF Dated, SavedDated

LEMMA PlayDated ==
    ASSUME IInv, Dated, NEW l \in Launches, NEW name, Play(l, name)
    PROVE  Dated'
<1> DEFINE p == [job[l] EXCEPT !.played = @ \cup {name}]
           c == <<job[l].game, plays + 1>>
<1>1. DOMAIN job[l] = Fields /\ job[l].game \in Games /\ pc[l] = "run" /\ DOMAIN p = Fields
      /\ p.old = job[l].old /\ p.temp = job[l].temp
  BY DEF IInv, LaunchOK, Play, Fields
<1>2. UNCHANGED <<saved, pc>> /\ plays' = plays + 1 /\ Future' \subseteq Future
  BY FutureShrinks DEF Play
<1>3. c \notin Future'
  <2>1. plays + 1 \notin (plays' + 1)..PlayLimit
    BY <1>2, PlayAssumption DEF IInv, TypeOK
  <2> QED BY <2>1 DEF Future
<1>4. \/ WriteFiles(l, OneFile(name, c), p)
      \/ /\ job' = [job EXCEPT ![l] = [p EXCEPT !.temp = Restrict(@, DOMAIN @ \ {name})]]
         /\ UNCHANGED onDisk
  BY DEF Play
<1> HIDE DEF p, c
<1>5. CASE WriteFiles(l, OneFile(name, c), p)
  <2>1. \A n \in DOMAIN OneFile(name, c) : OneFile(name, c)[n] \notin Future'
    BY <1>3 DEF OneFile
  <2>2. DiskDated' /\ \A n \in DOMAIN job'[l].temp : job'[l].temp[n] \notin Future'
    BY <1>1, <1>2, <1>5, <2>1, WriteDated
  <2>3. job'[l].old = job[l].old /\ \A k \in Launches \ {l} : Likewise(k)
    BY <1>1, <1>5, WriteValues DEF Fields
  <2>4. FilesDated(l)'
    BY <1>1, <1>2, <2>2, <2>3 DEF FilesDated, Dated
  <2>5. \A k \in Launches : FilesDated(k)'
    BY <1>2, <2>3, <2>4, OtherDated
  <2> QED BY <1>2, <2>2, <2>5 DEF Dated, SavedDated
<1>6. CASE /\ job' = [job EXCEPT ![l] = [p EXCEPT !.temp = Restrict(@, DOMAIN @ \ {name})]]
           /\ UNCHANGED onDisk
  <2> DEFINE temp1 == Restrict(job[l].temp, DOMAIN job[l].temp \ {name})
  <2>1. job' = [job EXCEPT ![l] = [p EXCEPT !.temp = temp1]]
    BY <1>1, <1>6
  <2>2. DOMAIN temp1 \subseteq DOMAIN job[l].temp /\ \A n \in DOMAIN temp1 : temp1[n] = job[l].temp[n]
    BY RestrictValues1
  <2> HIDE DEF temp1
  <2>3. /\ \A k \in Launches \ {l} : Likewise(k)
        /\ job'[l].temp = temp1 /\ job'[l].old = job[l].old
    BY <1>1, <2>1 DEF IInv, Fields, Likewise
  <2>4. FilesDated(l)'
    BY <1>1, <1>2, <2>2, <2>3 DEF FilesDated, Dated
  <2>5. \A k \in Launches : FilesDated(k)'
    BY <1>2, <2>3, <2>4, OtherDated
  <2> QED BY <1>2, <1>6, <2>5 DEF Dated, DiskDated, SavedDated
<1> QED BY <1>4, <1>5, <1>6

LEMMA SavesDated ==
    ASSUME IInv, Dated, UNCHANGED plays, NEW d, NEW name, NEW c, c \notin Future,
           saved' = [saved EXCEPT ![d] = Onto(OneFile(name, c), @)]
    PROVE  SavedDated'
<1>1. Future' = Future
  BY DEF Future
<1>2. CASE d \in Dirs
  <2>1. /\ DOMAIN saved' = Dirs /\ \A e \in Dirs \ {d} : saved'[e] = saved[e]
        /\ DOMAIN saved'[d] = {name} \cup DOMAIN saved[d]
        /\ saved'[d][name] = c
        /\ \A m \in DOMAIN saved[d] \ {name} : saved'[d][m] = saved[d][m]
    BY <1>2, SavedValues
  <2> QED BY <1>1, <2>1 DEF Dated, SavedDated
<1>3. CASE d \notin Dirs
  BY <1>1, <1>3 DEF IInv, TypeOK, Dated, SavedDated
<1> QED BY <1>2, <1>3

(* What a launch that ends keeps of its files: nothing. *)
LEMMA OverFiles ==
    ASSUME NEW p, DOMAIN p = Fields
    PROVE  /\ DOMAIN Over(p) = Fields
           /\ Over(p).temp = NoFiles /\ Over(p).old = NoFiles /\ Over(p).todo = {}
           /\ Over(p).dir = p.dir /\ Over(p).contested = p.contested
           /\ p.dir # Unset => Over(p).played = p.played
  BY DEF Over, Fields

LEMMA SavingDated ==
    ASSUME IInv, Dated, NEW l \in Launches, SaveFile(l) \/ SaveRemoved(l)
    PROVE  Dated'
<1>1. DOMAIN job[l] = Fields /\ pc[l] = "save" /\ ToSave(l)
  BY DEF IInv, LaunchOK, SaveFile, SaveRemoved
<1>2. UNCHANGED <<onDisk, plays>> /\ Future' = Future
  BY DEF SaveFile, SaveRemoved, Future
<1>3. SUFFICES /\ SavedDated' /\ FilesDated(l)'
               /\ \A k \in Launches \ {l} : job'[k] = job[k] /\ pc'[k] = pc[k]
  <2>1. \A k \in Launches : FilesDated(k)'
    BY <1>2, <1>3, OtherDated DEF Likewise
  <2> QED BY <1>2, <1>3, <2>1 DEF Dated, DiskDated
<1>4. CASE SaveFile(l)
  <2>1. PICK name \in job[l].todo :
          /\ saved' = [saved EXCEPT ![job[l].dir] = Onto(OneFile(name, Contents(l)[name]), @)]
          /\ job' = [job EXCEPT ![l].todo = @ \ {name}]
    BY <1>4 DEF SaveFile
  <2> DEFINE d == job[l].dir
             c == Contents(l)[name]
  <2>2. saved' = [saved EXCEPT ![d] = Onto(OneFile(name, c), @)] /\ c \notin Future
    BY <1>1, <2>1, ContentsDated DEF ToSave
  <2> HIDE DEF d, c
  <2>3. SavedDated'
    BY <1>2, <2>2, SavesDated
  <2>4. /\ \A k \in Launches \ {l} : job'[k] = job[k]
        /\ job'[l].temp = job[l].temp /\ job'[l].old = job[l].old
    BY <1>1, <2>1 DEF IInv, Fields
  <2>5. FilesDated(l)' /\ pc' = pc
    BY <1>1, <1>2, <1>4, <2>4 DEF FilesDated, Dated, SaveFile
  <2> QED BY <2>3, <2>4, <2>5
<1>5. CASE SaveRemoved(l)
  <2>1. CASE Goto(l, "cleanup") /\ UNCHANGED <<job, saved>>
    BY <1>1, <1>2, <2>1 DEF Dated, SavedDated, FilesDated, Goto, IInv, TypeOK
  <2>2. ASSUME NEW name \in Removed(job[l]), Goto(l, "failed"),
               saved' = [saved EXCEPT ![job[l].dir] = Onto(OneFile(name, Hollow), @)],
               job' = [job EXCEPT ![l] = Over(@)]
        PROVE  /\ SavedDated' /\ FilesDated(l)'
               /\ \A k \in Launches \ {l} : job'[k] = job[k] /\ pc'[k] = pc[k]
    <3> DEFINE d == job[l].dir
    <3>1. saved' = [saved EXCEPT ![d] = Onto(OneFile(name, Hollow), @)] /\ Hollow \notin Future
      BY <2>2, PristineDated
    <3> HIDE DEF d
    <3>2. SavedDated'
      BY <1>2, <3>1, SavesDated
    <3>3. job'[l] = Over(job[l]) /\ \A k \in Launches \ {l} : job'[k] = job[k]
      BY <2>2, JobOf
    <3>4. job'[l].temp = NoFiles /\ job'[l].old = NoFiles
      BY <1>1, <3>3, OverFiles
    <3> QED BY <2>2, <3>2, <3>3, <3>4 DEF FilesDated, NoFiles, Goto, IInv, TypeOK
  <2> QED BY <1>5, <2>1, <2>2 DEF SaveRemoved
<1> QED BY <1>4, <1>5

LEMMA StepDated ==
    ASSUME IInv, Dated, NEW l \in Launches,
           \/ \E g \in Games, asNetplay \in BOOLEAN : StartLocalGame(l, g, asNetplay)
           \/ Cancel(l) \/ CloseDialog(l) \/ Prepare(l) \/ ThreadFails(l) \/ EmulatorExits(l) \/ Cleanup(l)
    PROVE  Dated'
<1>1. pc[l] # "none" => DOMAIN job[l] = Fields /\ job[l].game \in Games
  BY DEF IInv, LaunchOK
<1>2. UNCHANGED <<onDisk, saved, plays>> /\ Future' = Future
  BY DEF StartLocalGame, Cancel, CloseDialog, Prepare, ThreadFails, Fail, EmulatorExits, Cleanup, Future
<1>3. \A k \in Launches \ {l} : pc'[k] = pc[k]
  BY DEF StartLocalGame, Cancel, CloseDialog, Prepare, ThreadFails, Fail, EmulatorExits, Cleanup, Goto,
         IInv, TypeOK
<1>4. SUFFICES FilesDated(l)' /\ \A k \in Launches \ {l} : job'[k] = job[k]
  BY <1>2, <1>3, QuietDated
<1>5. ASSUME NEW g \in Games, NEW asNetplay \in BOOLEAN, StartLocalGame(l, g, asNetplay)
      PROVE  FilesDated(l)' /\ \A k \in Launches \ {l} : job'[k] = job[k]
  BY <1>5 DEF StartLocalGame, FilesDated, NoFiles, IInv
<1>6. CASE Cancel(l) \/ CloseDialog(l) \/ EmulatorExits(l)
  <2>1. /\ pc[l] # "none"
        /\ job'[l].temp = job[l].temp /\ job'[l].old = job[l].old
        /\ \A k \in Launches \ {l} : job'[k] = job[k]
    BY <1>1, <1>6 DEF Cancel, CloseDialog, EmulatorExits, IInv, Fields
  <2> QED BY <1>2, <2>1 DEF FilesDated, Dated
<1>7. CASE Prepare(l)
  <2> DEFINE all == Prepared[job[l].game].temp
  <2>1. PICK left \in SUBSET DOMAIN all : job' = [job EXCEPT ![l].temp = Restrict(all, DOMAIN all \ left)]
    BY <1>7 DEF Prepare
  <2> DEFINE temp == Restrict(all, DOMAIN all \ left)
  <2>2. \A name \in DOMAIN all : all[name] \in Pristine
    BY <1>1, <1>7, PreparedUntouched DEF Prepare
  <2> HIDE DEF all
  <2>3. DOMAIN temp = DOMAIN all \ left /\ \A name \in DOMAIN temp : temp[name] = all[name]
    BY RestrictValues1
  <2>4. \A name \in DOMAIN temp : temp[name] \notin Future
    BY <2>2, <2>3, PristineDated
  <2>5. job' = [job EXCEPT ![l] = [job[l] EXCEPT !.temp = temp]] /\ pc[l] # "none"
    BY <1>7, <2>1 DEF IInv, Prepare
  <2> HIDE DEF temp
  <2>6. /\ job'[l].temp = temp /\ job'[l].old = job[l].old
        /\ \A k \in Launches \ {l} : job'[k] = job[k]
    BY <1>1, <2>5 DEF IInv, Fields
  <2> QED BY <1>2, <2>4, <2>5, <2>6 DEF FilesDated, Dated
<1>8. CASE ThreadFails(l)
  <2>1. job' = [job EXCEPT ![l] = Over(job[l])] /\ pc[l] # "none"
    BY <1>8 DEF ThreadFails, Fail
  <2>2. job'[l] = Over(job[l]) /\ \A k \in Launches \ {l} : job'[k] = job[k]
    BY <2>1, JobOf
  <2>3. job'[l].temp = NoFiles /\ job'[l].old = NoFiles
    BY <1>1, <2>1, <2>2, OverFiles
  <2> QED BY <2>2, <2>3 DEF FilesDated, NoFiles
<1>9. CASE Cleanup(l)
  <2> DEFINE over == Over(job[l])
  <2>1. job' = [job EXCEPT ![l] = [over EXCEPT !.played = {}]] /\ pc[l] # "none"
    BY <1>9 DEF Cleanup, IInv
  <2>2. DOMAIN over = Fields /\ over.temp = NoFiles /\ over.old = NoFiles
    BY <1>1, <2>1, OverFiles
  <2> HIDE DEF over
  <2>3. /\ job'[l].temp = NoFiles /\ job'[l].old = NoFiles
        /\ \A k \in Launches \ {l} : job'[k] = job[k]
    BY <2>1, <2>2 DEF IInv, Fields
  <2> QED BY <2>3 DEF FilesDated, NoFiles
<1> QED BY <1>5, <1>6, <1>7, <1>8, <1>9

LEMMA NextDated == IInv /\ Dated /\ [Next]_vars => Dated'
<1> SUFFICES ASSUME IInv, Dated, [Next]_vars PROVE Dated'
  OBVIOUS
<1>1. ASSUME UNCHANGED <<pc, job, onDisk, saved, plays>> PROVE Dated'
  BY <1>1 DEF Dated, DiskDated, SavedDated, FilesDated, Future
<1>2. CASE Select \/ OpenNetplay \/ CloseNetplay \/ Restart \/ UNCHANGED vars
  BY <1>1, <1>2 DEF Select, OpenNetplay, CloseNetplay, Restart, vars
<1>3. ASSUME NEW l \in Launches, Thread(l) \/ \E name \in Media : Play(l, name) PROVE Dated'
  BY <1>3, RestoreDated, PlayDated, SavingDated, StepDated DEF Thread
<1> QED BY <1>2, <1>3, StepDated DEF Next

LEMMA InitDated == Init => Dated
<1> SUFFICES ASSUME Init PROVE Dated
  OBVIOUS
<1>1. IInv
  BY InitOK
<1>2. DiskDated
  BY <1>1, PristineDated, PlayAssumption DEF Init, DiskDated, Pristine
<1> QED BY <1>2 DEF Init, Dated, SavedDated, FilesDated, NoFiles
-----------------------------------------------------------------------------
(***************************************************************************)
(* What was saved well last stays what will be restored, but for files a   *)
(* launch is saving, failed to save, raced for or shared.                  *)
(***************************************************************************)
Disturbs(k, d, name) ==
    pc[k] # "none" /\ job[k].dir = d /\ name \in job[k].played \cup job[k].contested

Match(d, name) == name \in DOMAIN saved[d] /\ saved[d][name] = finished[d][name]

Saves(l) == pc[l] \in {"save", "cleanup"} /\ job[l].dir # Unset

(* A launch has a directory once its emulator has run, and only then has   *)
(* it anything to save.                                                    *)
DirKind(l) ==
    pc[l] # "none" =>
        /\ job[l].dir \in Dirs \cup {Unset}
        /\ (pc[l] \in {"prepare", "changes", "run"} => job[l].dir = Unset)
        /\ (pc[l] = "save" => job[l].dir # Unset)
        /\ (pc[l] \in {"prepare", "changes"} => job[l].played = {})

(* While the emulator runs, exactly what was played differs from what was  *)
(* noted before, as far as nobody else writes to it.                       *)
Playing(l) ==
    pc[l] = "run" =>
        /\ Removed(job[l]) \subseteq job[l].played
        /\ Aliases(l) \subseteq job[l].contested
        /\ \A name \in DOMAIN job[l].temp \ job[l].contested :
              IF name \in job[l].played
              THEN name \in DOMAIN job[l].old => Contents(l)[name] # job[l].old[name]
              ELSE name \in DOMAIN job[l].old /\ job[l].old[name] = Contents(l)[name]

(* What was played is still to be saved, or has been saved, or was deleted *)
(* and nothing has happened to what was saved of it before.                *)
Saving(l) ==
    Saves(l) =>
        /\ job[l].todo \subseteq job[l].played \cup job[l].contested
        /\ (pc[l] = "cleanup" => job[l].todo = {})
        /\ Removed(job[l]) \subseteq job[l].played
        /\ \A name \in job[l].played \ job[l].contested :
              (\A k \in Launches \ {l} : ~Disturbs(k, job[l].dir, name)) =>
                  IF name \in DOMAIN job[l].temp
                  THEN \/ name \in job[l].todo
                       \/ /\ name \in DOMAIN saved[job[l].dir]
                          /\ saved[job[l].dir][name] = Contents(l)[name]
                  ELSE name \in DOMAIN finished[job[l].dir] => Match(job[l].dir, name)

(* Of two launches that save one file to one directory one knows.          *)
Rivals(l, k) ==
    Saves(l) /\ Saves(k) /\ job[k].dir = job[l].dir =>
        job[l].played \cap job[k].played \subseteq job[l].contested \cup job[k].contested

Kept ==
    \A d \in Dirs : \A name \in DOMAIN finished[d] :
        (\A k \in Launches : ~Disturbs(k, d, name)) => Match(d, name)

Latest ==
    /\ DOMAIN finished = Dirs
    /\ \A l \in Launches : DirKind(l) /\ Playing(l) /\ Saving(l)
    /\ \A l \in Launches : \A k \in Launches \ {l} : Rivals(l, k)
    /\ Kept

(* A step leaves the files of launch k alone that it does not contest. *)
Calm(k) ==
    pc[k] \in {"run", "save", "cleanup"} =>
        \A name \in DOMAIN job[k].temp \ job'[k].contested : Contents(k)'[name] = Contents(k)[name]

(* A step does nothing about a file in a directory. *)
SameAt(d, name) ==
    /\ name \in DOMAIN saved'[d] <=> name \in DOMAIN saved[d]
    /\ name \in DOMAIN finished'[d] <=> name \in DOMAIN finished[d]
    /\ (name \in DOMAIN saved[d] => saved'[d][name] = saved[d][name])
    /\ (name \in DOMAIN finished[d] => finished'[d][name] = finished[d][name])

(* What a step of j does about a file, it disturbs. *)
Settled(j, d, name) == ~Disturbs(j, d, name)' => ~Disturbs(j, d, name) /\ SameAt(d, name)

LEMMA StillDisturbs ==
    ASSUME NEW k \in Launches, Likewise(k), pc'[k] = pc[k], NEW d, NEW name, Disturbs(k, d, name)
    PROVE  Disturbs(k, d, name)'
  BY DEF Disturbs, Likewise

LEMMA OtherLatest ==
    ASSUME IInv, Latest, NEW j \in Launches, NEW l \in Launches \ {j},
           \A k \in Launches \ {j} : Likewise(k) /\ pc'[k] = pc[k],
           Calm(l), NEW d, d = job[l].dir,
           Saves(l) => \A name \in job[l].played \ job'[l].contested : Settled(j, d, name)
    PROVE  DirKind(l)' /\ Playing(l)' /\ Saving(l)'
<1>1. DirKind(l) /\ Playing(l) /\ Saving(l) /\ Likewise(l) /\ pc'[l] = pc[l]
  BY DEF Latest
<1>2. DirKind(l)'
  BY <1>1 DEF DirKind, Likewise
<1>3. Removed(job[l])' = Removed(job[l])
  BY <1>1 DEF Removed, Likewise
<1>4. Aliases(l)' = Aliases(l)
  BY <1>1 DEF Aliases, LinksTo, Links, Likewise
<1>5. ASSUME pc[l] = "run" PROVE Playing(l)'
  <2>1. \A name \in DOMAIN job'[l].temp \ job'[l].contested :
            name \in DOMAIN job[l].temp \ job[l].contested /\ Contents(l)'[name] = Contents(l)[name]
    BY <1>1, <1>5 DEF Calm, Likewise
  <2>2. Removed(job[l])' \subseteq job'[l].played
    BY <1>1, <1>3, <1>5 DEF Playing, Likewise
  <2>3. Aliases(l)' \subseteq job'[l].contested
    BY <1>1, <1>4, <1>5 DEF Playing, Likewise
  <2>4. job'[l].played = job[l].played /\ job'[l].old = job[l].old
    BY <1>1 DEF Likewise
  <2>5. \A name \in DOMAIN job[l].temp \ job[l].contested :
              IF name \in job[l].played
              THEN name \in DOMAIN job[l].old => Contents(l)[name] # job[l].old[name]
              ELSE name \in DOMAIN job[l].old /\ job[l].old[name] = Contents(l)[name]
    BY <1>1, <1>5 DEF Playing
  <2> QED BY <2>1, <2>2, <2>3, <2>4, <2>5 DEF Playing
<1>6. ASSUME Saves(l) PROVE Saving(l)'
  <2>1. /\ job'[l].temp = job[l].temp /\ job'[l].dir = d /\ job'[l].todo = job[l].todo
        /\ job'[l].played = job[l].played /\ job[l].contested \subseteq job'[l].contested
    BY <1>1 DEF Likewise
  <2>2. /\ job[l].todo \subseteq job[l].played \cup job[l].contested
        /\ (pc[l] = "cleanup" => job[l].todo = {})
        /\ Removed(job[l]) \subseteq job[l].played
    BY <1>1, <1>6 DEF Saving
  <2>3. ASSUME NEW name \in job[l].played \ job'[l].contested,
               \A k \in Launches \ {l} : ~Disturbs(k, d, name)'
        PROVE  IF name \in DOMAIN job[l].temp
               THEN \/ name \in job[l].todo
                    \/ name \in DOMAIN saved'[d] /\ saved'[d][name] = Contents(l)'[name]
               ELSE name \in DOMAIN finished'[d] => Match(d, name)'
    <3>1. SameAt(d, name) /\ ~Disturbs(j, d, name)
      BY <1>6, <2>3 DEF Settled
    <3>2. ASSUME NEW k \in Launches \ {l} PROVE ~Disturbs(k, d, name)
      <4>1. CASE k = j
        BY <3>1, <4>1
      <4>2. CASE k # j
        BY <2>3, <4>2, StillDisturbs
      <4> QED BY <4>1, <4>2
    <3>3. IF name \in DOMAIN job[l].temp
          THEN \/ name \in job[l].todo
               \/ name \in DOMAIN saved[d] /\ saved[d][name] = Contents(l)[name]
          ELSE name \in DOMAIN finished[d] => Match(d, name)
      BY <1>1, <1>6, <2>1, <2>3, <3>2 DEF Saving
    <3>4. name \in DOMAIN job[l].temp => Contents(l)'[name] = Contents(l)[name]
      BY <1>6, <2>3 DEF Calm, Saves
    <3> QED BY <3>1, <3>3, <3>4 DEF SameAt, Match
  <2>4. \A name \in job'[l].played \ job'[l].contested :
              (\A k \in Launches \ {l} : ~Disturbs(k, d, name)') =>
                  IF name \in DOMAIN job'[l].temp
                  THEN \/ name \in job'[l].todo
                       \/ name \in DOMAIN saved'[d] /\ saved'[d][name] = Contents(l)'[name]
                  ELSE name \in DOMAIN finished'[d] => Match(d, name)'
    BY <2>1, <2>3
  <2>5. /\ job'[l].todo \subseteq job'[l].played \cup job'[l].contested
        /\ (pc'[l] = "cleanup" => job'[l].todo = {})
        /\ Removed(job[l])' \subseteq job'[l].played
    BY <1>1, <1>3, <2>1, <2>2
  <2> QED BY <2>1, <2>4, <2>5 DEF Saving, Match, Disturbs
<1>7. Saves(l)' => Saves(l)
  BY <1>1 DEF Saves, Likewise
<1>8. Playing(l)'
  BY <1>1, <1>5 DEF Playing
<1>9. Saving(l)'
  BY <1>6, <1>7 DEF Saving
<1> QED BY <1>2, <1>8, <1>9

LEMMA KeptStays ==
    ASSUME IInv, Latest, NEW j \in Launches,
           \A k \in Launches \ {j} : Likewise(k) /\ pc'[k] = pc[k],
           NEW d \in Dirs, NEW name \in DOMAIN finished'[d],
           \A k \in Launches : ~Disturbs(k, d, name)', Settled(j, d, name)
    PROVE  Match(d, name)'
<1>1. SameAt(d, name) /\ ~Disturbs(j, d, name)
  BY DEF Settled
<1>2. ASSUME NEW k \in Launches PROVE ~Disturbs(k, d, name)
  <2>1. CASE k = j
    BY <1>1, <2>1
  <2>2. CASE k # j
    BY <2>2, StillDisturbs
  <2> QED BY <2>1, <2>2
<1> QED BY <1>1, <1>2 DEF Latest, Kept, SameAt, Match

(* What launch j may do about its rivals: go on, or know what it races for. *)
LEMMA RivalsStay ==
    ASSUME IInv, Latest, NEW j \in Launches,
           \A k \in Launches \ {j} : Likewise(k) /\ pc'[k] = pc[k],
           Saves(j)' =>
              \/ /\ Saves(j) /\ job'[j].dir = job[j].dir
                 /\ job'[j].played \subseteq job[j].played /\ job[j].contested \subseteq job'[j].contested
              \/ \A k \in Launches \ {j} : Saves(k) /\ job[k].dir = job'[j].dir =>
                    job'[j].played \cap job[k].played \subseteq job'[j].contested
    PROVE  \A l \in Launches : \A k \in Launches \ {l} : Rivals(l, k)'
<1>1. \A l \in Launches : \A k \in Launches \ {l} : Rivals(l, k)
  BY DEF Latest
<1>2. \A k \in Launches \ {j} :
         /\ Saves(k)' <=> Saves(k)
         /\ job'[k].dir = job[k].dir /\ job'[k].played = job[k].played
         /\ job[k].contested \subseteq job'[k].contested
  BY DEF Saves, Likewise
<1>3. ASSUME NEW k \in Launches \ {j}, Saves(j)', Saves(k)', job'[k].dir = job'[j].dir
      PROVE  job'[j].played \cap job'[k].played \subseteq job'[j].contested \cup job'[k].contested
  <2>1. CASE /\ Saves(j) /\ job'[j].dir = job[j].dir
             /\ job'[j].played \subseteq job[j].played /\ job[j].contested \subseteq job'[j].contested
    <3>1. job[j].played \cap job[k].played \subseteq job[j].contested \cup job[k].contested
      BY <1>1, <1>2, <1>3, <2>1 DEF Rivals
    <3> QED BY <1>2, <2>1, <3>1
  <2>2. CASE Saves(k) /\ job[k].dir = job'[j].dir =>
                    job'[j].played \cap job[k].played \subseteq job'[j].contested
    BY <1>2, <1>3, <2>2
  <2> QED BY <1>3, <2>1, <2>2
<1>4. SUFFICES ASSUME NEW l \in Launches, NEW k \in Launches \ {l},
                      Saves(l)', Saves(k)', job'[k].dir = job'[l].dir
               PROVE  job'[l].played \cap job'[k].played \subseteq job'[l].contested \cup job'[k].contested
  BY DEF Rivals
<1>5. CASE l = j
  BY <1>3, <1>4, <1>5
<1>6. CASE k = j
  BY <1>3, <1>4, <1>6
<1>7. CASE l # j /\ k # j
  <2>1. job[l].played \cap job[k].played \subseteq job[l].contested \cup job[k].contested
    BY <1>1, <1>2, <1>4, <1>7 DEF Rivals
  <2> QED BY <1>2, <1>4, <1>7, <2>1
<1> QED BY <1>5, <1>6, <1>7

(* A step of j keeps what is said of all if it disturbs what it changes.    *)
LEMMA LatestFrom ==
    ASSUME IInv, Latest, NEW j \in Launches, DOMAIN finished' = Dirs,
           \A k \in Launches \ {j} : Likewise(k) /\ pc'[k] = pc[k] /\ Calm(k),
           \A d \in Dirs : \A name : Settled(j, d, name),
           DirKind(j)', Playing(j)', Saving(j)',
           Saves(j)' =>
              \/ /\ Saves(j) /\ job'[j].dir = job[j].dir
                 /\ job'[j].played \subseteq job[j].played /\ job[j].contested \subseteq job'[j].contested
              \/ \A k \in Launches \ {j} : Saves(k) /\ job[k].dir = job'[j].dir =>
                    job'[j].played \cap job[k].played \subseteq job'[j].contested
    PROVE  Latest'
<1>1. ASSUME NEW l \in Launches \ {j} PROVE DirKind(l)' /\ Playing(l)' /\ Saving(l)'
  <2> PICK d : d = job[l].dir
    OBVIOUS
  <2>1. Saves(l) => d \in Dirs
    BY DEF Saves, Latest, DirKind
  <2>2. Saves(l) => \A name \in job[l].played \ job'[l].contested : Settled(j, d, name)
    BY <2>1
  <2>3. Calm(l) /\ \A k \in Launches \ {j} : Likewise(k) /\ pc'[k] = pc[k]
    OBVIOUS
  <2> QED BY <1>1, <2>2, <2>3, OtherLatest
<1>2. \A l \in Launches : DirKind(l)' /\ Playing(l)' /\ Saving(l)'
  BY <1>1
<1>3. \A l \in Launches : \A k \in Launches \ {l} : Rivals(l, k)'
  BY RivalsStay
<1>4. Kept'
  BY KeptStays DEF Kept
<1> QED BY <1>2, <1>3, <1>4 DEF Latest

(* What is written is what the files then hold, but where two of them are   *)
(* links to one source, and nothing else changes that is not contested.    *)
LEMMA WriteContents ==
    ASSUME IInv, NEW l \in Launches,
           NEW files, \A name \in DOMAIN files : files[name] \notin Pristine,
           NEW update, DOMAIN update = Fields, WriteFiles(l, files, update)
    PROVE  /\ DOMAIN job'[l].temp = DOMAIN job[l].temp \cup DOMAIN files
           /\ Aliases(l)' = Aliases(l)
           /\ \A name \in DOMAIN files \ Aliases(l) : Contents(l)'[name] = files[name]
           /\ \A name \in DOMAIN job[l].temp \ (DOMAIN files \cup Aliases(l)) :
                 Contents(l)'[name] = Contents(l)[name]
           /\ \A k \in Launches \ {l} : Calm(k)
<1> DEFINE temp1 == TempWith(l, files)
<1>1. /\ DOMAIN onDisk' = Linkable
      /\ \A s \in Linkable :
            \/ s \notin Written(l, files) /\ onDisk'[s] = onDisk[s]
            \/ \E name \in LinksTo(l, {s}) \cap DOMAIN files : onDisk'[s] = files[name]
      /\ job'[l].temp = temp1
      /\ \A k \in Launches \ {l} :
            /\ Likewise(k)
            /\ pc[k] \in {"run", "save", "cleanup"} => LinksTo(k, Written(l, files)) \subseteq job'[k].contested
  BY WriteValues
<1>2. /\ DOMAIN temp1 = DOMAIN job[l].temp \cup DOMAIN files
      /\ \A name \in DOMAIN files \ Links(l) : temp1[name] = files[name]
      /\ \A name \in DOMAIN job[l].temp : name \in Links(l) \/ name \notin DOMAIN files => temp1[name] = job[l].temp[name]
  BY TempValues
<1>3. \A name \in DOMAIN files : files[name] \notin Linkable
  BY PlayAssumption DEF Pristine
<1> HIDE DEF temp1
<1>4. Links(l) \subseteq DOMAIN job[l].temp
  BY DEF Links
<1>5. Links(l)' = Links(l) /\ \A name \in Links(l) : temp1[name] = job[l].temp[name]
  <2>1. \A name \in Links(l) : temp1[name] = job[l].temp[name]
    BY <1>2, <1>4
  <2>2. \A name \in DOMAIN temp1 : temp1[name] \in Linkable <=> name \in Links(l)
    BY <1>2, <1>3 DEF Links
  <2>3. Links(l)' = {name \in DOMAIN temp1 : temp1[name] \in Linkable}
    BY <1>1 DEF Links
  <2> QED BY <1>2, <1>4, <2>1, <2>2, <2>3
<1>6. Aliases(l)' = Aliases(l)
  <2>1. ASSUME NEW name \in Links(l) PROVE LinksTo(l, {job[l].temp[name]})' = LinksTo(l, {job[l].temp[name]})
    BY <1>1, <1>5 DEF LinksTo
  <2> QED BY <1>5, <2>1 DEF Aliases
<1>7. \A name \in DOMAIN temp1 :
          Contents(l)'[name] = IF temp1[name] \in Linkable THEN onDisk'[temp1[name]] ELSE temp1[name]
  BY <1>1 DEF Contents, Holding
<1>8. ASSUME NEW name \in DOMAIN files \ Aliases(l) PROVE Contents(l)'[name] = files[name]
  <2>1. CASE name \notin Links(l)
    BY <1>2, <1>3, <1>7, <1>8, <2>1
  <2>2. CASE name \in Links(l)
    <3> PICK s : s = job[l].temp[name]
      OBVIOUS
    <3>1. s \in Linkable /\ s \in Written(l, files)
      BY <1>8, <2>2 DEF Links, Written
    <3>2. LinksTo(l, {s}) = {name}
      BY <1>8, <2>2 DEF Aliases
    <3>3. onDisk'[s] = files[name]
      BY <1>1, <3>1, <3>2
    <3> QED BY <1>2, <1>5, <1>7, <2>2, <3>1, <3>3, <1>8
  <2> QED BY <2>1, <2>2
<1>9. ASSUME NEW name \in DOMAIN job[l].temp \ (DOMAIN files \cup Aliases(l))
      PROVE  Contents(l)'[name] = Contents(l)[name]
  <2>1. temp1[name] = job[l].temp[name] /\ name \in DOMAIN temp1
    BY <1>2, <1>9
  <2>2. Contents(l)[name] = IF job[l].temp[name] \in Linkable THEN onDisk[job[l].temp[name]] ELSE job[l].temp[name]
    BY <1>9, ContentsValues
  <2>3. CASE job[l].temp[name] \notin Linkable
    BY <1>7, <2>1, <2>2, <2>3
  <2>4. CASE job[l].temp[name] \in Linkable
    <3> PICK s : s = job[l].temp[name]
      OBVIOUS
    <3>1. name \in Links(l) /\ LinksTo(l, {s}) = {name}
      BY <1>9, <2>4 DEF Links, Aliases
    <3>2. onDisk'[s] = onDisk[s]
      BY <1>1, <1>9, <2>4, <3>1
    <3> QED BY <1>7, <2>1, <2>2, <2>4, <3>2
  <2> QED BY <2>3, <2>4
<1>10. ASSUME NEW k \in Launches \ {l} PROVE Calm(k)
  <2> SUFFICES ASSUME pc[k] \in {"run", "save", "cleanup"},
                      NEW name \in DOMAIN job[k].temp \ job'[k].contested
               PROVE  Contents(k)'[name] = Contents(k)[name]
    BY DEF Calm
  <2>1. job'[k].temp = job[k].temp /\ LinksTo(k, Written(l, files)) \subseteq job'[k].contested
    BY <1>1 DEF Likewise
  <2>2. Contents(k)[name] = IF job[k].temp[name] \in Linkable THEN onDisk[job[k].temp[name]] ELSE job[k].temp[name]
    BY ContentsValues
  <2>3. Contents(k)'[name] = IF job[k].temp[name] \in Linkable THEN onDisk'[job[k].temp[name]] ELSE job[k].temp[name]
    BY <2>1 DEF Contents, Holding
  <2>4. ASSUME job[k].temp[name] \in Linkable PROVE onDisk'[job[k].temp[name]] = onDisk[job[k].temp[name]]
    <3>1. job[k].temp[name] \notin Written(l, files)
      BY <2>1, <2>4 DEF LinksTo, Links
    <3> PICK s : s = job[k].temp[name]
      OBVIOUS
    <3>2. \A name2 \in LinksTo(l, {s}) \cap DOMAIN files : s \in Written(l, files)
      BY DEF LinksTo, Written
    <3> QED BY <1>1, <2>4, <3>1, <3>2
  <2> QED BY <2>2, <2>3, <2>4
<1> QED BY <1>1, <1>2, <1>6, <1>8, <1>9, <1>10

(* Without a write the files of a launch stay. *)
LEMMA SameContents ==
    ASSUME NEW k, UNCHANGED onDisk, job'[k].temp = job[k].temp
    PROVE  Contents(k)' = Contents(k)
  BY DEF Contents, Holding

LEMMA OthersCalm ==
    ASSUME NEW l, UNCHANGED onDisk, \A k \in Launches \ {l} : job'[k] = job[k]
    PROVE  \A k \in Launches \ {l} : Likewise(k) /\ Calm(k)
  BY SameContents DEF Likewise, Calm

(* Without a directory, before it or after it, a step disturbs nothing. *)
LEMMA Quiet ==
    ASSUME IInv, Latest, NEW j \in Launches, UNCHANGED <<saved, finished>>,
           \/ pc[j] = "none" \/ job[j].dir = Unset
           \/ /\ pc'[j] # "none" /\ job'[j].dir = job[j].dir
              /\ job[j].played \cup job[j].contested \subseteq job'[j].played \cup job'[j].contested
    PROVE  \A d \in Dirs : \A name : Settled(j, d, name)
  BY PlayAssumption DEF Settled, Disturbs, SameAt

LEMMA RestoreLatest ==
    ASSUME IInv, Dated, Latest, NEW l \in Launches, RestoreChanges(l)
    PROVE  Latest'
<1> DEFINE files == SavedFiles(l)
           now == Holding(TempWith(l, files), DiskWith(l, files))
           noted == [job[l] EXCEPT !.old = now, !.contested = Aliases(l)]
<1>1. DOMAIN job[l] = Fields /\ job[l].game \in Games /\ pc[l] = "changes"
      /\ job[l].dir = Unset /\ job[l].played = {}
  BY DEF IInv, LaunchOK, RestoreChanges, Latest, DirKind
<1>2. UNCHANGED <<saved, finished>>
  BY DEF RestoreChanges
<1>3. \A name \in DOMAIN files : files[name] \notin Pristine
  BY <1>1, StateDirKind DEF IInv, OnlyChangesSaved, SavedFiles
<1>4. DOMAIN noted = Fields /\ noted.old = now /\ noted.contested = Aliases(l)
      /\ noted.played = {} /\ noted.dir = Unset
  BY <1>1 DEF Fields
<1>5. WriteFiles(l, files, noted)
  BY DEF RestoreChanges
<1>6. now = Contents(l)'
  <2>1. job'[l].temp = TempWith(l, files)
    BY <1>4, <1>5, WriteValues
  <2>2. onDisk' = DiskWith(l, files)
    BY <1>5 DEF WriteFiles
  <2> QED BY <2>1, <2>2 DEF Contents
<1> HIDE DEF files, now, noted
<1>7. \A field \in Fields \ {"temp"} : job'[l][field] = noted[field]
  BY <1>4, <1>5, WriteValues
<1>8. \A k \in Launches \ {l} : Likewise(k)
  BY <1>4, <1>5, WriteValues
<1>9. Aliases(l)' = Aliases(l) /\ \A k \in Launches \ {l} : Calm(k)
  BY <1>3, <1>4, <1>5, WriteContents
<1>10. job'[l].old = now /\ job'[l].contested = Aliases(l) /\ job'[l].played = {} /\ job'[l].dir = Unset
  BY <1>4, <1>7 DEF Fields
<1>11. pc'[l] \in {"cleanup", "run"} /\ \A k \in Launches \ {l} : pc'[k] = pc[k]
  BY DEF RestoreChanges, Goto, StopsAt, IInv, TypeOK
<1>12. DOMAIN Contents(l)' = DOMAIN job'[l].temp
  BY DEF Contents, Holding
<1>13. DirKind(l)' /\ Saving(l)' /\ ~Saves(l)'
  BY <1>10, <1>11 DEF DirKind, Saving, Saves
<1>14. Playing(l)'
  BY <1>6, <1>9, <1>10, <1>12 DEF Playing, Removed
<1>15. \A d \in Dirs : \A name : Settled(l, d, name)
  BY <1>1, <1>2, Quiet
<1>16. DOMAIN finished' = Dirs
  BY <1>2 DEF Latest
<1> QED BY <1>8, <1>9, <1>11, <1>13, <1>14, <1>15, <1>16, LatestFrom

LEMMA PlayLatest ==
    ASSUME IInv, Dated, Latest, NEW l \in Launches, NEW name, Play(l, name)
    PROVE  Latest'
<1> DEFINE p == [job[l] EXCEPT !.played = @ \cup {name}]
           c == <<job[l].game, plays + 1>>
<1>1. DOMAIN job[l] = Fields /\ job[l].game \in Games /\ pc[l] = "run" /\ job[l].dir = Unset /\ Playing(l)
  BY DEF IInv, LaunchOK, Play, Latest, DirKind
<1>2. UNCHANGED <<saved, finished, pc>>
  BY DEF Play
<1>3. DOMAIN p = Fields /\ p.old = job[l].old /\ p.temp = job[l].temp /\ p.dir = Unset
      /\ p.played = job[l].played \cup {name} /\ p.contested = job[l].contested
  BY <1>1 DEF Fields
<1>4. c \notin Pristine /\ \A n \in DOMAIN job[l].old : job[l].old[n] # c
  <2>1. plays + 1 \in 1..PlayLimit /\ plays + 1 \in (plays + 1)..PlayLimit
    BY PlayAssumption DEF Play, IInv, TypeOK
  <2>2. c \in Future
    BY <1>1, <2>1 DEF Future
  <2>3. \A n \in DOMAIN job[l].old : job[l].old[n] \notin Future
    BY <1>1 DEF Dated, FilesDated
  <2> QED BY <1>1, <2>1, <2>2, <2>3, PlayAssumption
<1>5. \/ WriteFiles(l, OneFile(name, c), p)
      \/ /\ job' = [job EXCEPT ![l] = [p EXCEPT !.temp = Restrict(@, DOMAIN @ \ {name})]]
         /\ UNCHANGED onDisk
  BY DEF Play
<1> HIDE DEF p, c
<1>6. /\ \A k \in Launches \ {l} : Likewise(k) /\ Calm(k)
      /\ job'[l].old = job[l].old /\ job'[l].dir = Unset
      /\ job'[l].played = job[l].played \cup {name} /\ job'[l].contested = job[l].contested
      /\ Aliases(l)' \subseteq Aliases(l)
      /\ DOMAIN job[l].temp \ {name} \subseteq DOMAIN job'[l].temp
      /\ DOMAIN job'[l].temp \subseteq DOMAIN job[l].temp \cup {name}
      /\ name \in DOMAIN job'[l].temp \ Aliases(l) => Contents(l)'[name] = c
      /\ \A n \in DOMAIN job[l].temp \ (Aliases(l) \cup {name}) : Contents(l)'[n] = Contents(l)[n]
  <2>1. CASE WriteFiles(l, OneFile(name, c), p)
    <3> DEFINE files == OneFile(name, c)
    <3>1. DOMAIN files = {name} /\ files[name] = c
      BY DEF OneFile
    <3>2. WriteFiles(l, files, p)
      BY <2>1
    <3> HIDE DEF files
    <3>3. \A n \in DOMAIN files : files[n] \notin Pristine
      BY <1>4, <3>1
    <3>4. /\ \A field \in Fields \ {"temp"} : job'[l][field] = p[field]
          /\ \A k \in Launches \ {l} : Likewise(k)
      BY <1>3, <3>2, WriteValues
    <3>5. /\ DOMAIN job'[l].temp = DOMAIN job[l].temp \cup DOMAIN files
          /\ Aliases(l)' = Aliases(l)
          /\ \A n \in DOMAIN files \ Aliases(l) : Contents(l)'[n] = files[n]
          /\ \A n \in DOMAIN job[l].temp \ (DOMAIN files \cup Aliases(l)) : Contents(l)'[n] = Contents(l)[n]
          /\ \A k \in Launches \ {l} : Calm(k)
      BY <1>3, <3>2, <3>3, WriteContents
    <3>6. /\ job'[l].old = p.old /\ job'[l].dir = p.dir
          /\ job'[l].played = p.played /\ job'[l].contested = p.contested
      BY <3>4 DEF Fields
    <3> QED BY <1>3, <3>1, <3>4, <3>5, <3>6
  <2>2. CASE /\ job' = [job EXCEPT ![l] = [p EXCEPT !.temp = Restrict(@, DOMAIN @ \ {name})]]
             /\ UNCHANGED onDisk
    <3> DEFINE temp1 == Restrict(job[l].temp, DOMAIN job[l].temp \ {name})
    <3>1. job' = [job EXCEPT ![l] = [p EXCEPT !.temp = temp1]]
      BY <1>3, <2>2
    <3>2. DOMAIN temp1 = DOMAIN job[l].temp \ {name} /\ \A n \in DOMAIN temp1 : temp1[n] = job[l].temp[n]
      BY RestrictValues1
    <3> HIDE DEF temp1
    <3>3. /\ \A k \in Launches \ {l} : job'[k] = job[k]
          /\ job'[l].temp = temp1 /\ job'[l].old = p.old /\ job'[l].dir = p.dir
          /\ job'[l].played = p.played /\ job'[l].contested = p.contested
      BY <1>3, <3>1 DEF IInv, Fields
    <3>4. \A k \in Launches \ {l} : Likewise(k) /\ Calm(k)
      BY <2>2, <3>3, OthersCalm
    <3>5. \A n \in DOMAIN temp1 : Contents(l)'[n] = Contents(l)[n]
      BY <2>2, <3>2, <3>3 DEF Contents, Holding
    <3>6. Aliases(l)' \subseteq Aliases(l)
      BY <3>2, <3>3 DEF Aliases, LinksTo, Links
    <3> QED BY <1>3, <3>2, <3>3, <3>4, <3>5, <3>6
  <2> QED BY <1>5, <2>1, <2>2
<1>7. DirKind(l)' /\ Saving(l)' /\ ~Saves(l)'
  BY <1>1, <1>2, <1>6 DEF DirKind, Saving, Saves
<1>8. Playing(l)'
  <2>1. Removed(job[l])' \subseteq job'[l].played
    BY <1>1, <1>6 DEF Playing, Removed
  <2>2. Aliases(l)' \subseteq job'[l].contested
    BY <1>1, <1>6 DEF Playing
  <2>3. ASSUME NEW n \in DOMAIN job'[l].temp \ job'[l].contested
        PROVE  IF n \in job'[l].played
               THEN n \in DOMAIN job'[l].old => Contents(l)'[n] # job'[l].old[n]
               ELSE n \in DOMAIN job'[l].old /\ job'[l].old[n] = Contents(l)'[n]
    <3>1. n \notin Aliases(l)
      BY <1>1, <1>6, <2>3 DEF Playing
    <3>2. CASE n = name
      BY <1>4, <1>6, <2>3, <3>1, <3>2
    <3>3. CASE n # name
      <4>1. n \in DOMAIN job[l].temp \ job[l].contested /\ Contents(l)'[n] = Contents(l)[n]
        BY <1>6, <2>3, <3>1, <3>3
      <4>2. IF n \in job[l].played
            THEN n \in DOMAIN job[l].old => Contents(l)[n] # job[l].old[n]
            ELSE n \in DOMAIN job[l].old /\ job[l].old[n] = Contents(l)[n]
        BY <1>1, <4>1 DEF Playing
      <4> QED BY <1>6, <3>3, <4>1, <4>2
    <3> QED BY <3>2, <3>3
  <2> QED BY <2>1, <2>2, <2>3 DEF Playing
<1>9. \A d \in Dirs : \A n : Settled(l, d, n)
  BY <1>1, <1>2, Quiet
<1>10. DOMAIN finished' = Dirs /\ \A k \in Launches \ {l} : pc'[k] = pc[k]
  BY <1>2 DEF Latest
<1> QED BY <1>6, <1>7, <1>8, <1>9, <1>10, LatestFrom

(* When the emulator exits, what was played is what is to be saved, and    *)
(* what another launch saves to the directory too is known.                *)
LEMMA ExitLatest ==
    ASSUME IInv, Latest, NEW l \in Launches, EmulatorExits(l)
    PROVE  Latest'
<1> DEFINE todo1 == Changed(job[l].old, Contents(l))
           more == job[l].contested \cup Contested(l)
           p == [job[l] EXCEPT !.dir = StateDir(l), !.todo = todo1, !.contested = more]
<1>1. DOMAIN job[l] = Fields /\ job[l].game \in Games /\ pc[l] = "run" /\ job[l].dir = Unset /\ Playing(l)
  BY DEF IInv, LaunchOK, EmulatorExits, Latest, DirKind
<1>2. UNCHANGED <<saved, finished, onDisk>>
  BY DEF EmulatorExits
<1> PICK d : d = StateDir(l)
  OBVIOUS
<1>3. d \in Dirs /\ d # Unset
  BY <1>1, StateDirKind, PlayAssumption
<1>4. /\ DOMAIN p = Fields /\ p.todo = todo1 /\ p.temp = job[l].temp /\ p.old = job[l].old
      /\ p.played = job[l].played /\ p.contested = more /\ p.dir = d
  BY <1>1 DEF Fields
<1>5. job' = [job EXCEPT ![l] = p]
  BY <1>1 DEF EmulatorExits, IInv
<1> HIDE DEF p
<1>6. DOMAIN job' = Launches /\ job'[l] = p /\ \A k \in Launches \ {l} : job'[k] = job[k]
  BY <1>5, JobOf
<1>7. pc' \in [Launches -> Steps] /\ pc'[l] = "save" /\ \A k \in Launches \ {l} : pc'[k] = pc[k]
  BY PcOf DEF EmulatorExits, Goto, Steps
<1>8. \A k \in Launches \ {l} : Likewise(k) /\ Calm(k)
  BY <1>2, <1>6, OthersCalm
<1>9. Contents(l)' = Contents(l) /\ DOMAIN Contents(l) = DOMAIN job[l].temp
  BY <1>2, <1>4, <1>6, SameContents, ContentsValues
<1>10. \A n \in DOMAIN job[l].temp : n \in todo1 <=> n \notin DOMAIN job[l].old \/ job[l].old[n] # Contents(l)[n]
  BY <1>9 DEF Changed
<1>11. todo1 \subseteq DOMAIN job[l].temp
  BY <1>9 DEF Changed
<1> HIDE DEF todo1
<1>12. \A e \in Dirs : \A n : Settled(l, e, n)
  BY <1>1, <1>2, Quiet
<1>13. DirKind(l)' /\ Playing(l)'
  BY <1>3, <1>4, <1>6, <1>7 DEF DirKind, Playing
<1>14. Saving(l)'
  <2>1. Removed(job[l])' \subseteq job'[l].played
    BY <1>1, <1>4, <1>6 DEF Playing, Removed
  <2>2. todo1 \subseteq job[l].played \cup more
    BY <1>1, <1>10, <1>11 DEF Playing
  <2>3. ASSUME NEW n \in job[l].played \ more, \A k \in Launches \ {l} : ~Disturbs(k, d, n)'
        PROVE  IF n \in DOMAIN job[l].temp
               THEN n \in todo1
               ELSE n \in DOMAIN finished[d] => Match(d, n)
    <3>1. CASE n \in DOMAIN job[l].temp
      BY <1>1, <1>10, <2>3, <3>1 DEF Playing
    <3>2. CASE n \notin DOMAIN job[l].temp
      <4>1. \A k \in Launches \ {l} : ~Disturbs(k, d, n)
        BY <1>7, <1>8, <2>3, StillDisturbs
      <4>2. ~Disturbs(l, d, n)
        BY <1>1, <1>3 DEF Disturbs
      <4>3. \A k \in Launches : ~Disturbs(k, d, n)
        BY <4>1, <4>2
      <4> QED BY <1>3, <3>2, <4>3 DEF Latest, Kept
    <3> QED BY <3>1, <3>2
  <2>4. /\ job'[l].dir = d /\ job'[l].todo = todo1 /\ job'[l].temp = job[l].temp
        /\ job'[l].played = job[l].played /\ job'[l].contested = more
    BY <1>4, <1>6
  <2>5. ASSUME NEW n \in job'[l].played \ job'[l].contested, \A k \in Launches \ {l} : ~Disturbs(k, d, n)'
        PROVE  IF n \in DOMAIN job'[l].temp
               THEN n \in job'[l].todo
               ELSE n \in DOMAIN finished'[d] => Match(d, n)'
    BY <1>2, <2>3, <2>4, <2>5 DEF Match
  <2> HIDE DEF more
  <2> QED BY <1>7, <2>1, <2>2, <2>4, <2>5 DEF Saving, Match, Disturbs
<1>15. \A k \in Launches \ {l} : Saves(k) /\ job[k].dir = job'[l].dir =>
            job'[l].played \cap job[k].played \subseteq job'[l].contested
  BY <1>4, <1>6 DEF Contested, Saves
<1>16. DOMAIN finished' = Dirs
  BY <1>2 DEF Latest
<1> QED BY <1>7, <1>8, <1>12, <1>13, <1>14, <1>15, <1>16, LatestFrom

(* What is saved is of the launch that saves it. *)
LEMMA SaveFileLatest ==
    ASSUME IInv, Latest, NEW l \in Launches, SaveFile(l)
    PROVE  Latest'
<1>1. DOMAIN job[l] = Fields /\ pc[l] = "save" /\ Saves(l) /\ Saving(l) /\ DirKind(l)
  BY DEF IInv, LaunchOK, SaveFile, Latest, DirKind, Saves
<1>2. UNCHANGED <<pc, finished, onDisk>>
  BY DEF SaveFile
<1>3. PICK d, name : /\ d = job[l].dir /\ name \in job[l].todo
                   /\ saved' = [saved EXCEPT ![d] = Onto(OneFile(name, Contents(l)[name]), @)]
                   /\ job' = [job EXCEPT ![l].todo = @ \ {name}]
  BY DEF SaveFile
<1>4. PICK c : c = Contents(l)[name]
  OBVIOUS
<1>5. d \in Dirs
  BY <1>1, <1>3 DEF Saves, DirKind
<1>6. /\ DOMAIN saved' = Dirs /\ \A e \in Dirs \ {d} : saved'[e] = saved[e]
      /\ DOMAIN saved'[d] = {name} \cup DOMAIN saved[d]
      /\ saved'[d][name] = c
      /\ \A m \in DOMAIN saved[d] \ {name} : saved'[d][m] = saved[d][m]
  <2>1. saved' = [saved EXCEPT ![d] = Onto(OneFile(name, c), @)]
    BY <1>3, <1>4
  <2> QED BY <1>5, <2>1, SavedValues
<1> DEFINE p == [job[l] EXCEPT !.todo = job[l].todo \ {name}]
<1>7. /\ DOMAIN p = Fields /\ p.todo = job[l].todo \ {name} /\ p.temp = job[l].temp /\ p.old = job[l].old
      /\ p.played = job[l].played /\ p.contested = job[l].contested /\ p.dir = d
  BY <1>1, <1>3 DEF Fields
<1>8. job' = [job EXCEPT ![l] = p]
  BY <1>1, <1>3 DEF IInv
<1> HIDE DEF p
<1>9. job'[l] = p /\ \A k \in Launches \ {l} : job'[k] = job[k]
  BY <1>8, JobOf
<1>10. \A k \in Launches \ {l} : Likewise(k) /\ Calm(k)
  BY <1>2, <1>9, OthersCalm
<1>11. Contents(l)' = Contents(l)
  BY <1>2, <1>7, <1>9, SameContents
<1>12. name \in job[l].played \cup job[l].contested
  BY <1>1, <1>3 DEF Saving
<1>13. \A e \in Dirs : \A n : e # d \/ n # name => SameAt(e, n)
  BY <1>2, <1>6 DEF SameAt
<1>14. \A e \in Dirs : \A n : Settled(l, e, n)
  <2>1. \A e, n : Disturbs(l, e, n)' <=> Disturbs(l, e, n)
    BY <1>2, <1>7, <1>9, <1>3 DEF Disturbs
  <2>2. Disturbs(l, d, name)
    BY <1>1, <1>12, <1>3 DEF Disturbs
  <2> QED BY <1>13, <2>1, <2>2 DEF Settled
<1>15. DirKind(l)' /\ Playing(l)'
  BY <1>1, <1>2, <1>7, <1>9, <1>3 DEF DirKind, Playing
<1>16. Saving(l)'
  <2>1. /\ job'[l].dir = d /\ job'[l].todo = job[l].todo \ {name} /\ job'[l].temp = job[l].temp
        /\ job'[l].played = job[l].played /\ job'[l].contested = job[l].contested
    BY <1>7, <1>9
  <2>2. Removed(job[l])' \subseteq job'[l].played
    BY <1>1, <1>7, <1>9 DEF Saving, Removed
  <2>3. job'[l].todo \subseteq job'[l].played \cup job'[l].contested
    BY <1>1, <2>1 DEF Saving
  <2>4. ASSUME NEW n \in job'[l].played \ job'[l].contested, \A k \in Launches \ {l} : ~Disturbs(k, d, n)'
        PROVE  IF n \in DOMAIN job'[l].temp
               THEN n \in job'[l].todo \/ (n \in DOMAIN saved'[d] /\ saved'[d][n] = Contents(l)'[n])
               ELSE n \in DOMAIN finished'[d] => Match(d, n)'
    <3>1. \A k \in Launches \ {l} : ~Disturbs(k, d, n)
      BY <1>2, <1>10, <2>4, StillDisturbs
    <3>2. IF n \in DOMAIN job[l].temp
          THEN n \in job[l].todo \/ (n \in DOMAIN saved[d] /\ saved[d][n] = Contents(l)[n])
          ELSE n \in DOMAIN finished[d] => Match(d, n)
      BY <1>1, <2>1, <2>4, <3>1, <1>3 DEF Saving
    <3>3. CASE n = name
      <4>1. name \in DOMAIN job[l].temp
        BY <1>1, <1>3 DEF IInv, LaunchOK, ToSave
      <4> QED BY <1>6, <1>11, <2>1, <3>3, <4>1, <1>4
    <3>4. CASE n # name
      <4>1. SameAt(d, n)
        BY <1>5, <1>13, <3>4
      <4> QED BY <1>11, <2>1, <3>2, <3>4, <4>1 DEF SameAt, Match
    <3> QED BY <3>3, <3>4
  <2> QED BY <1>1, <1>2, <2>1, <2>2, <2>3, <2>4 DEF Saving, Match, Disturbs
<1>17. DOMAIN finished' = Dirs
  BY <1>2 DEF Latest
<1>18. Saves(l) /\ job'[l].dir = job[l].dir
       /\ job'[l].played \subseteq job[l].played /\ job[l].contested \subseteq job'[l].contested
  BY <1>1, <1>7, <1>9, <1>3
<1> QED BY <1>2, <1>10, <1>14, <1>15, <1>16, <1>17, <1>18, LatestFrom

(* A launch that ends keeps what it may have been saving. *)
LEMMA EndsLatest ==
    ASSUME IInv, Latest, NEW l \in Launches, pc[l] # "none", pc'[l] = "failed",
           \A k \in Launches \ {l} : pc'[k] = pc[k],
           UNCHANGED <<finished, onDisk>>, job' = [job EXCEPT ![l] = Over(job[l])],
           \A d \in Dirs : \A name : SameAt(d, name) \/ Disturbs(l, d, name)
    PROVE  Latest'
<1>1. DOMAIN job[l] = Fields
  BY DEF IInv, LaunchOK
<1>2. job'[l] = Over(job[l]) /\ \A k \in Launches \ {l} : job'[k] = job[k]
  BY JobOf
<1>3. /\ job'[l].dir = job[l].dir /\ job'[l].contested = job[l].contested
      /\ job[l].dir # Unset => job'[l].played = job[l].played
  BY <1>1, <1>2, OverFiles
<1>4. \A k \in Launches \ {l} : Likewise(k) /\ Calm(k)
  BY <1>2, OthersCalm
<1>5. \A d \in Dirs : \A name : Settled(l, d, name)
  BY <1>3, PlayAssumption DEF Settled, Disturbs
<1>6. DirKind(l)' /\ Playing(l)' /\ Saving(l)' /\ ~Saves(l)'
  BY <1>3 DEF DirKind, Playing, Saving, Saves, Latest
<1>7. DOMAIN finished' = Dirs
  BY DEF Latest
<1> QED BY <1>4, <1>5, <1>6, <1>7, LatestFrom

LEMMA SaveRemovedLatest ==
    ASSUME IInv, Latest, NEW l \in Launches, SaveRemoved(l)
    PROVE  Latest'
<1>1. DOMAIN job[l] = Fields /\ pc[l] = "save" /\ Saves(l) /\ Saving(l) /\ DirKind(l) /\ job[l].todo = {}
  BY DEF IInv, LaunchOK, SaveRemoved, Latest, DirKind, Saves
<1>2. UNCHANGED <<finished, onDisk>>
  BY DEF SaveRemoved
<1>3. CASE Goto(l, "cleanup") /\ UNCHANGED <<job, saved>>
  <2>1. pc' \in [Launches -> Steps] /\ pc'[l] = "cleanup" /\ \A k \in Launches \ {l} : pc'[k] = pc[k]
    BY <1>3, PcOf DEF Goto, Steps
  <2>2. \A k \in Launches \ {l} : Likewise(k) /\ Calm(k)
    BY <1>2, <1>3, OthersCalm
  <2>3. \A d \in Dirs : \A name : Settled(l, d, name)
    BY <1>2, <1>3, <2>1, Quiet
  <2>4. DirKind(l)' /\ Playing(l)' /\ Saves(l)'
    BY <1>1, <1>3, <2>1 DEF DirKind, Playing, Saves
  <2>5. Contents(l)' = Contents(l) /\ Removed(job[l])' = Removed(job[l])
    BY <1>2, <1>3, SameContents DEF Removed
  <2>6. \A d, name : \A k \in Launches \ {l} : Disturbs(k, d, name)' <=> Disturbs(k, d, name)
    BY <1>3, <2>1 DEF Disturbs
  <2> PICK d : d = job[l].dir
    OBVIOUS
  <2>7. \A name \in job[l].played \ job[l].contested :
              (\A k \in Launches \ {l} : ~Disturbs(k, d, name)') =>
                  IF name \in DOMAIN job[l].temp
                  THEN name \in job[l].todo \/ (name \in DOMAIN saved[d] /\ saved[d][name] = Contents(l)[name])
                  ELSE name \in DOMAIN finished[d] => Match(d, name)
    BY <1>1, <2>6 DEF Saving
  <2>8. Removed(job[l]) \subseteq job[l].played
    BY <1>1 DEF Saving
  <2>9. Saving(l)'
    BY <1>1, <1>2, <1>3, <2>1, <2>5, <2>7, <2>8 DEF Saving, Match, Disturbs
  <2>10. DOMAIN finished' = Dirs
    BY <1>2 DEF Latest
  <2> QED BY <1>1, <1>3, <2>1, <2>2, <2>3, <2>4, <2>9, <2>10, LatestFrom
<1>4. ASSUME NEW name \in Removed(job[l]), Goto(l, "failed"),
             saved' = [saved EXCEPT ![job[l].dir] = Onto(OneFile(name, Hollow), @)],
             job' = [job EXCEPT ![l] = Over(@)]
      PROVE  Latest'
  <2>0. PICK d : d = job[l].dir
    OBVIOUS
  <2>1. pc' \in [Launches -> Steps] /\ pc'[l] = "failed" /\ \A k \in Launches \ {l} : pc'[k] = pc[k]
    BY <1>4, PcOf DEF Goto, Steps
  <2>2. d \in Dirs
    BY <1>1, <2>0 DEF Saves, DirKind
  <2>3. saved' = [saved EXCEPT ![d] = Onto(OneFile(name, Hollow), @)]
    BY <1>4, <2>0
  <2>4. /\ DOMAIN saved' = Dirs /\ \A e \in Dirs \ {d} : saved'[e] = saved[e]
        /\ DOMAIN saved'[d] = {name} \cup DOMAIN saved[d]
        /\ saved'[d][name] = Hollow
        /\ \A m \in DOMAIN saved[d] \ {name} : saved'[d][m] = saved[d][m]
    BY <2>2, <2>3, SavedValues
  <2>5. Disturbs(l, d, name)
    BY <1>1, <1>4, <2>0 DEF Disturbs, Saving
  <2>6. \A e \in Dirs : \A n : SameAt(e, n) \/ Disturbs(l, e, n)
    BY <1>2, <2>4, <2>5 DEF SameAt
  <2>7. job' = [job EXCEPT ![l] = Over(job[l])]
    BY <1>4
  <2> QED BY <1>1, <1>2, <2>1, <2>6, <2>7, EndsLatest
<1> QED BY <1>3, <1>4 DEF SaveRemoved

(* The steps that neither play nor save. *)
LEMMA QuietLatest ==
    ASSUME IInv, Latest, NEW l \in Launches,
           \/ \E g \in Games, asNetplay \in BOOLEAN : StartLocalGame(l, g, asNetplay)
           \/ Cancel(l) \/ CloseDialog(l) \/ Prepare(l) \/ ThreadFails(l)
    PROVE  Latest'
<1>1. pc[l] # "none" => DOMAIN job[l] = Fields /\ DirKind(l)
  BY DEF IInv, LaunchOK, Latest
<1>2. UNCHANGED <<onDisk, saved, finished>> /\ DOMAIN finished' = Dirs
  BY DEF StartLocalGame, Cancel, CloseDialog, Prepare, ThreadFails, Fail, Latest
<1>3. \A k \in Launches \ {l} : pc'[k] = pc[k]
  BY DEF StartLocalGame, Cancel, CloseDialog, Prepare, ThreadFails, Fail, Goto, IInv, TypeOK
<1>4. CASE ThreadFails(l)
  <2>1. pc[l] # "none" /\ pc'[l] = "failed" /\ job' = [job EXCEPT ![l] = Over(job[l])]
    BY <1>4 DEF ThreadFails, Fail, Goto, IInv, TypeOK
  <2>2. \A d \in Dirs : \A name : SameAt(d, name)
    BY <1>2 DEF SameAt
  <2> QED BY <1>2, <1>3, <2>1, <2>2, EndsLatest
<1>5. ASSUME \A k \in Launches \ {l} : job'[k] = job[k],
             DirKind(l)', pc'[l] # "run", ~Saves(l)',
             \A d \in Dirs : \A name : Settled(l, d, name)
      PROVE  Latest'
  <2>1. Playing(l)' /\ Saving(l)'
    BY <1>5 DEF Playing, Saving
  <2>2. \A k \in Launches \ {l} : Likewise(k) /\ Calm(k)
    BY <1>2, <1>5, OthersCalm
  <2> QED BY <1>2, <1>3, <1>5, <2>1, <2>2, LatestFrom
<1>6. ASSUME NEW g \in Games, NEW asNetplay \in BOOLEAN, StartLocalGame(l, g, asNetplay)
      PROVE  Latest'
  <2>1. /\ pc[l] = "none" /\ pc'[l] = "prepare" /\ job'[l].dir = Unset /\ job'[l].played = {}
        /\ \A k \in Launches \ {l} : job'[k] = job[k]
    BY <1>6 DEF StartLocalGame, IInv, TypeOK
  <2>2. DirKind(l)' /\ ~Saves(l)'
    BY <2>1 DEF DirKind, Saves
  <2>3. \A d \in Dirs : \A name : Settled(l, d, name)
    BY <1>2, <2>1, Quiet
  <2> QED BY <1>5, <2>1, <2>2, <2>3
<1>7. CASE Cancel(l) \/ Prepare(l)
  <2>1. /\ pc[l] \in {"prepare", "changes"} /\ pc'[l] \in {"prepare", "changes", "cleanup"}
        /\ job'[l].dir = job[l].dir /\ job'[l].played = job[l].played
        /\ \A k \in Launches \ {l} : job'[k] = job[k]
    <3>1. CASE Cancel(l)
      BY <1>1, <3>1 DEF Cancel, IInv, Fields
    <3>2. CASE Prepare(l)
      <4>1. PICK temp : job' = [job EXCEPT ![l].temp = temp]
        BY <3>2 DEF Prepare
      <4> QED BY <1>1, <3>2, <4>1 DEF Prepare, Goto, StopsAt, IInv, TypeOK, Fields
    <3> QED BY <1>7, <3>1, <3>2
  <2>2. DirKind(l)' /\ ~Saves(l)'
    BY <1>1, <2>1 DEF DirKind, Saves
  <2>3. \A d \in Dirs : \A name : Settled(l, d, name)
    BY <1>1, <1>2, <2>1, Quiet DEF DirKind
  <2> QED BY <1>5, <2>1, <2>2, <2>3
<1>8. CASE CloseDialog(l)
  <2>1. pc[l] # "none" /\ pc'[l] = "ended" /\ job' = job
    BY <1>8 DEF CloseDialog, IInv, TypeOK
  <2>2. DirKind(l)' /\ ~Saves(l)'
    BY <1>1, <2>1 DEF DirKind, Saves
  <2>3. \A d \in Dirs : \A name : Settled(l, d, name)
    BY <1>2, <2>1, Quiet
  <2> QED BY <1>5, <2>1, <2>2, <2>3
<1> QED BY <1>4, <1>6, <1>7, <1>8

(* What a launch leaves when it has ended well is what it has saved; what  *)
(* it no longer disturbs then, no rival of it was saving.                  *)
LEMMA CleanupLatest ==
    ASSUME IInv, Latest, NEW l \in Launches, Cleanup(l)
    PROVE  Latest'
<1> DEFINE over == Over(job[l])
           mine == Restrict(Contents(l), job[l].played \cap DOMAIN job[l].temp)
<1>1. DOMAIN job[l] = Fields /\ pc[l] = "cleanup" /\ DirKind(l) /\ Saving(l)
  BY DEF IInv, LaunchOK, Cleanup, Latest
<1>2. UNCHANGED <<saved, onDisk>> /\ DOMAIN finished = Dirs
  BY DEF Cleanup, Latest
<1> PICK d : d = job[l].dir
  OBVIOUS
<1>3. pc'[l] = "complete" /\ \A k \in Launches \ {l} : pc'[k] = pc[k]
  BY DEF Cleanup, Goto, IInv, TypeOK
<1>4. /\ job'[l].dir = d /\ job'[l].contested = job[l].contested /\ job'[l].played = {}
      /\ \A k \in Launches \ {l} : job'[k] = job[k]
  <2>1. job' = [job EXCEPT ![l] = [over EXCEPT !.played = {}]]
    BY DEF Cleanup, IInv
  <2>2. DOMAIN over = Fields /\ over.dir = d /\ over.contested = job[l].contested
    BY <1>1, OverFiles
  <2> HIDE DEF over
  <2> QED BY <2>1, <2>2 DEF IInv, Fields
<1>5. DOMAIN mine = job[l].played \cap DOMAIN job[l].temp /\ \A n \in DOMAIN mine : mine[n] = Contents(l)[n]
  BY RestrictValues1
<1>6. finished' = IF d = Unset THEN finished ELSE [finished EXCEPT ![d] = Onto(mine, @)]
  BY DEF Cleanup
<1> HIDE DEF over, mine
<1>7. DOMAIN finished' = Dirs
  BY <1>2, <1>6
<1>8. \A k \in Launches \ {l} : Likewise(k) /\ Calm(k)
  BY <1>2, <1>4, OthersCalm
<1>9. ASSUME d # Unset
      PROVE  /\ d \in Dirs
             /\ DOMAIN finished'[d] = DOMAIN mine \cup DOMAIN finished[d]
             /\ \A n \in DOMAIN mine : finished'[d][n] = mine[n]
             /\ \A n \in DOMAIN finished[d] \ DOMAIN mine : finished'[d][n] = finished[d][n]
             /\ \A e \in Dirs \ {d} : finished'[e] = finished[e]
  <2>1. d \in Dirs
    BY <1>1, <1>9 DEF DirKind
  <2> DEFINE before == finished[d]
  <2>2. finished'[d] = Onto(mine, before) /\ \A e \in Dirs \ {d} : finished'[e] = finished[e]
    BY <1>2, <1>6, <1>9, <2>1
  <2> HIDE DEF before
  <2>3. /\ DOMAIN Onto(mine, before) = DOMAIN mine \cup DOMAIN before
        /\ \A n \in DOMAIN mine : Onto(mine, before)[n] = mine[n]
        /\ \A n \in DOMAIN before \ DOMAIN mine : Onto(mine, before)[n] = before[n]
    BY OntoValues
  <2> QED BY <2>1, <2>2, <2>3 DEF before
<1>10. \A e \in Dirs : \A n : e # d \/ n \notin job[l].played => SameAt(e, n)
  <2>1. CASE d = Unset
    BY <1>2, <1>6, <2>1 DEF SameAt
  <2>2. CASE d # Unset
    BY <1>2, <1>5, <1>9, <2>2 DEF SameAt
  <2> QED BY <2>1, <2>2
<1>11. \A e \in Dirs : \A n : e # d \/ n \notin job[l].played => Settled(l, e, n)
  BY <1>3, <1>4, <1>10 DEF Settled, Disturbs
<1>12. DirKind(l)' /\ Playing(l)' /\ Saving(l)' /\ ~Saves(l)'
  BY <1>1, <1>3, <1>4 DEF DirKind, Playing, Saving, Saves
<1>13. ASSUME NEW k \in Launches \ {l} PROVE DirKind(k)' /\ Playing(k)' /\ Saving(k)'
  <2> PICK e : e = job[k].dir
    OBVIOUS
  <2>1. ASSUME Saves(k), NEW n \in job[k].played \ job'[k].contested PROVE Settled(l, e, n)
    <3>1. e \in Dirs
      BY <2>1 DEF Saves, Latest, DirKind
    <3>2. CASE e = d /\ n \in job[l].played
      <4>1. Saves(l)
        BY <1>1, <2>1, <3>2 DEF Saves
      <4>2. job[l].played \cap job[k].played \subseteq job[l].contested \cup job[k].contested
        BY <2>1, <3>2, <4>1 DEF Latest, Rivals
      <4>3. n \in job[l].contested
        BY <1>4, <2>1, <3>2, <4>2
      <4> QED BY <1>3, <1>4, <3>2, <4>3 DEF Settled, Disturbs
    <3> QED BY <1>11, <3>1, <3>2
  <2>2. Saves(k) => \A n \in job[k].played \ job'[k].contested : Settled(l, e, n)
    BY <2>1
  <2> QED BY <1>3, <1>8, <1>13, <2>2, OtherLatest
<1>14. \A k \in Launches : DirKind(k)' /\ Playing(k)' /\ Saving(k)'
  BY <1>12, <1>13
<1>15. \A j \in Launches : \A k \in Launches \ {j} : Rivals(j, k)'
  BY <1>3, <1>8, <1>12, RivalsStay
<1>16. Kept'
  <2> SUFFICES ASSUME NEW e \in Dirs, NEW n \in DOMAIN finished'[e],
                      \A k \in Launches : ~Disturbs(k, e, n)'
               PROVE  Match(e, n)'
    BY DEF Kept
  <2>1. CASE e # d \/ n \notin job[l].played
    BY <1>3, <1>8, <1>11, <2>1, KeptStays
  <2>2. CASE e = d /\ n \in job[l].played
    <3>1. n \notin job[l].contested
      BY <1>3, <1>4, <2>2 DEF Disturbs
    <3>2. \A k \in Launches \ {l} : ~Disturbs(k, d, n)
      BY <1>3, <1>8, <2>2, StillDisturbs
    <3>3. d # Unset /\ Saves(l)
      BY <1>1, <2>2, PlayAssumption DEF Saves
    <3>4. IF n \in DOMAIN job[l].temp
          THEN n \in DOMAIN saved[d] /\ saved[d][n] = Contents(l)[n]
          ELSE n \in DOMAIN finished[d] => Match(d, n)
      BY <1>1, <2>2, <3>1, <3>2, <3>3 DEF Saving
    <3>5. CASE n \in DOMAIN job[l].temp
      BY <1>2, <1>5, <1>9, <2>2, <3>3, <3>4, <3>5 DEF Match
    <3>6. CASE n \notin DOMAIN job[l].temp
      BY <1>2, <1>5, <1>9, <2>2, <3>3, <3>4, <3>6 DEF Match
    <3> QED BY <3>5, <3>6
  <2> QED BY <2>1, <2>2
<1> QED BY <1>7, <1>14, <1>15, <1>16 DEF Latest

LEMMA NextLatest == IInv /\ Dated /\ Latest /\ [Next]_vars => Latest'
<1> SUFFICES ASSUME IInv, Dated, Latest, [Next]_vars PROVE Latest'
  OBVIOUS
<1>1. CASE UNCHANGED vars \/ Select \/ OpenNetplay \/ CloseNetplay \/ Restart
  <2>1. UNCHANGED <<pc, job, onDisk, saved, finished>>
    BY <1>1 DEF Select, OpenNetplay, CloseNetplay, Restart, vars
  <2>2. \A l \in Launches : /\ Contents(l)' = Contents(l) /\ Removed(job[l])' = Removed(job[l])
                            /\ Aliases(l)' = Aliases(l) /\ Saves(l)' = Saves(l)
    BY <2>1 DEF Removed, Aliases, LinksTo, Links, Contents, Holding, Saves
  <2>3. \A l, d, name : Disturbs(l, d, name)' <=> Disturbs(l, d, name)
    BY <2>1 DEF Disturbs
  <2>4. \A d, name : Match(d, name)' <=> Match(d, name)
    BY <2>1 DEF Match
  <2>5. Kept'
    BY <2>1, <2>3, <2>4 DEF Latest, Kept
  <2>6. ASSUME NEW l \in Launches PROVE DirKind(l)' /\ Playing(l)' /\ \A k \in Launches \ {l} : Rivals(l, k)'
    BY <2>1, <2>2 DEF Latest, DirKind, Playing, Rivals
  <2>7. ASSUME NEW l \in Launches PROVE Saving(l)'
    BY <2>1, <2>2, <2>3, <2>4 DEF Latest, Saving, Disturbs, Match
  <2> QED BY <2>1, <2>5, <2>6, <2>7 DEF Latest
<1>2. ASSUME NEW l \in Launches, Thread(l) \/ \E name \in Media : Play(l, name) PROVE Latest'
  BY <1>2, RestoreLatest, PlayLatest, ExitLatest, SaveFileLatest, SaveRemovedLatest, CleanupLatest, QuietLatest
     DEF Thread
<1> QED BY <1>1, <1>2, QuietLatest DEF Next

LEMMA InitLatest == Init => Latest
  BY DEF Init, Latest, DirKind, Playing, Saving, Saves, Rivals, Kept, NoFiles

(***************************************************************************)
(* A launch finds in its directory what the last one that ended well left  *)
(* there, and what it restores it has, whatever other launches play, save  *)
(* and link to meanwhile (GameChangeHandler.init and update).              *)
(***************************************************************************)
THEOREM LatestIsRestored == Spec => RestoresLatest
<1> DEFINE P == \A l \in Launches : pc[l] = "changes" /\ pc'[l] = "run" =>
        \A name \in DOMAIN finished[StateDir(l)] \ (Disturbed(StateDir(l)) \cup Aliases(l)) :
            Contents(l)'[name] = finished[StateDir(l)][name]
<1>1. IInv /\ Latest /\ [Next]_vars => [P]_vars
  <2> SUFFICES ASSUME IInv, Latest, Next, NEW l \in Launches, pc[l] = "changes", pc'[l] = "run",
                      NEW name \in DOMAIN finished[StateDir(l)] \ (Disturbed(StateDir(l)) \cup Aliases(l))
               PROVE  Contents(l)'[name] = finished[StateDir(l)][name]
    OBVIOUS
  <2> DEFINE files == SavedFiles(l)
             noted == [job[l] EXCEPT !.old = Holding(TempWith(l, files), DiskWith(l, files)),
                                     !.contested = Aliases(l)]
  <2>1. RestoreChanges(l)
    <3>1. ~UNCHANGED pc
      OBVIOUS
    <3>2. PICK j \in Launches :
             \/ \E g \in Games, asNetplay \in BOOLEAN : StartLocalGame(j, g, asNetplay)
             \/ Cancel(j) \/ CloseDialog(j) \/ Thread(j)
             \/ \E n \in Media : Play(j, n)
      BY <3>1 DEF Next, Select, OpenNetplay, CloseNetplay, Restart
    <3>3. CASE RestoreChanges(j)
      BY <3>3 DEF RestoreChanges, Goto, IInv, TypeOK
    <3>4. ~(CloseDialog(j) \/ Prepare(j) \/ ThreadFails(j) \/ EmulatorExits(j) \/ SaveRemoved(j) \/ Cleanup(j))
      BY DEF CloseDialog, Prepare, ThreadFails, Fail, EmulatorExits, SaveRemoved, Cleanup, Goto, StopsAt,
             IInv, TypeOK
    <3>5. ~(SaveFile(j) \/ Cancel(j) \/ \E n \in Media : Play(j, n))
      BY <3>1 DEF SaveFile, Cancel, Play
    <3>6. ~\E g \in Games, asNetplay \in BOOLEAN : StartLocalGame(j, g, asNetplay)
      BY DEF StartLocalGame, IInv, TypeOK
    <3> QED BY <3>2, <3>3, <3>4, <3>5, <3>6 DEF Thread
  <2> PICK d : d = StateDir(l)
    OBVIOUS
  <2>2. DOMAIN job[l] = Fields /\ d \in Dirs
    BY StateDirKind DEF IInv, LaunchOK
  <2>3. \A k \in Launches : ~Disturbs(k, d, name)
    BY DEF Disturbed, Disturbs
  <2>4. Match(d, name)
    BY <2>2, <2>3 DEF Latest, Kept
  <2>5. WriteFiles(l, files, noted)
    BY <2>1 DEF RestoreChanges
  <2>6. DOMAIN noted = Fields
    BY <2>2
  <2>7. files = saved[d] /\ \A n \in DOMAIN files : files[n] \notin Pristine
    BY <2>2 DEF SavedFiles, IInv, OnlyChangesSaved
  <2> HIDE DEF files, noted
  <2>8. \A n \in DOMAIN files \ Aliases(l) : Contents(l)'[n] = files[n]
    BY <2>5, <2>6, <2>7, WriteContents
  <2> QED BY <2>4, <2>7, <2>8 DEF Match
<1>2. Init => IInv /\ Dated /\ Latest
  BY InitOK, InitDated, InitLatest
<1>3. IInv /\ Dated /\ Latest /\ [Next]_vars => (IInv /\ Dated /\ Latest)'
  BY NextKeeps, NextDated, NextLatest
<1> QED BY <1>1, <1>2, <1>3, PTL DEF Spec, RestoresLatest
-----------------------------------------------------------------------------
(***************************************************************************)
(* The media of a prepared launch.                                         *)
(***************************************************************************)
(* What refers to the right files opens them, or a namesake of theirs. *)
LEMMA ReadyInPlace ==
    ASSUME NEW conf, NEW p, Shaped(p, conf), Ready(p, conf)
    PROVE  MediaInPlace(p, conf)
<1>1. \A value, s : Placed(p, value, s) => OpensMedium(p, conf, value, s)
  BY PlacedOpens
<1>2. ASSUME NEW key \in {"drives", "cds"}, NEW i \in DOMAIN conf[key]
      PROVE  OpensMedium(p, conf, p.conf[key][i], conf[key][i])
  BY <1>1, <1>2 DEF Ready, DrivesIn
<1>3. ASSUME NEW keys \in {<<"images", "drives">>, <<"cd_images", "cds">>},
             NEW i \in DOMAIN ListFromDrives(conf[keys[1]], conf[keys[2]]),
             ListFromDrives(conf[keys[1]], conf[keys[2]])[i] # Unset
      PROVE  OpensMedium(p, conf, p.conf[keys[1]][i], ListFromDrives(conf[keys[1]], conf[keys[2]])[i])
  <2>1. ImagesIn(p, conf, keys[1], keys[2])
    BY <1>3 DEF Ready
  <2> QED BY <1>1, <1>3, <2>1 DEF ImagesIn
<1>4. ASSUME NEW i \in Downloads(conf)
      PROVE  OpensMedium(p, conf, p.conf.hds[i].src, conf.hds[i].src)
  <2>1. i \in DOMAIN conf.hds /\ conf.hds[i].kind # "none"
    BY <1>4 DEF Downloads
  <2> QED BY <1>1, <1>4, <2>1 DEF Ready, HdsIn
<1>5. ASSUME NEW i \in DOMAIN conf.hds \ Downloads(conf), conf.hds[i].kind # "none"
      PROVE  Opens(p, p.conf.hds[i].src) = conf.hds[i].src
  <2>1. DriveReady(p, p.conf.hds[i].src, conf.hds[i].src)
    BY <1>5 DEF Ready, HdsIn
  <2>2. CASE p.conf.hds[i].src = conf.hds[i].src /\ conf.hds[i].src \in Sources \cup {Unset}
    BY <2>2, OpensItself
  <2>3. ASSUME NEW name \in DOMAIN p.temp, p.conf.hds[i].src = Temp(name), p.temp[name] = conf.hds[i].src
        PROVE  Opens(p, p.conf.hds[i].src) = conf.hds[i].src
    BY <2>3, OpensTemp
  <2> QED BY <2>1, <2>2, <2>3 DEF DriveReady
<1>6. ASSUME NEW i \in DOMAIN RomFiles(conf)
      PROVE  /\ RomFiles(conf)[i] \in Found \cup {Internal}
             /\ OpensMedium(p, conf, p.conf.roms[i].file, RomFiles(conf)[i])
  <2>1. i \in DOMAIN conf.roms
    BY <1>6 DEF RomFiles
  <2> QED BY <1>1, <2>1 DEF Ready, RomsIn
<1> QED BY <1>2, <1>3, <1>4, <1>5, <1>6 DEF MediaInPlace

(* It depends on the files alone that a launch has. *)
LEMMA SameFilesReady ==
    ASSUME NEW conf, NEW p, Shaped(p, conf), Ready(p, conf),
           NEW q, DOMAIN q = DOMAIN p, q.conf = p.conf, DOMAIN q.temp = DOMAIN p.temp,
           \A name \in DOMAIN p.temp : q.temp[name] = p.temp[name]
    PROVE  Shaped(q, conf) /\ Ready(q, conf)
<1>1. {"drives", "images", "cds", "cd_images"} \subseteq Keys
  BY DEF Keys
<1>2. RomsIn(q, conf)
  BY InCarries DEF Ready
<1>3. \A key \in Keys : DrivesIn(p, conf, key) => DrivesIn(q, conf, key)
  BY InCarries
<1>4. \A key, of \in Keys : ImagesIn(p, conf, key, of) => ImagesIn(q, conf, key, of)
  BY InCarries
<1>5. \A value, s : /\ DriveReady(p, value, s) => DriveReady(q, value, s)
                    /\ Placed(p, value, s) => Placed(q, value, s)
  BY DEF DriveReady, Placed
<1>6. HdsIn(q, conf)
  BY <1>5 DEF Ready, HdsIn
<1>7. Shaped(q, conf)
  BY DEF Shaped
<1> QED BY <1>1, <1>2, <1>3, <1>4, <1>6, <1>7 DEF Ready

(* A launch whose stages were not cut short has what they prepared, until  *)
(* it restores what was saved.                                             *)
Complete(l) ==
    pc[l] = "changes" =>
        /\ Prepared[job[l].game].ok
        /\ DOMAIN job[l].temp = DOMAIN Prepared[job[l].game].temp
        /\ \A name \in DOMAIN job[l].temp : job[l].temp[name] = Prepared[job[l].game].temp[name]

LEMMA StaysComplete ==
    ASSUME NEW k \in Launches, Complete(k), Likewise(k), pc'[k] = pc[k]
    PROVE  Complete(k)'
<1>1. Prepared' = Prepared
  BY DEF Prepared
<1> QED BY <1>1 DEF Complete, Likewise

LEMMA PrepareComplete ==
    ASSUME IInv, NEW l \in Launches, Prepare(l), \A k \in Launches : Complete(k)
    PROVE  \A k \in Launches : Complete(k)'
<1> DEFINE p == Prepared[job[l].game]
           temp == p.temp
           rest == StopsAt(l, "changes")
<1>1. /\ pc[l] = "prepare" /\ p.ok /\ pc' = [pc EXCEPT ![l] = rest]
      /\ DOMAIN job[l] = Fields
  BY DEF Prepare, Goto, IInv, LaunchOK
<1>2. PICK left \in SUBSET (IF job[l].stop THEN DOMAIN temp \cap Range(DriveDir) ELSE {}) :
          job' = [job EXCEPT ![l].temp = Restrict(temp, DOMAIN temp \ left)]
  BY DEF Prepare
<1> DEFINE files == Restrict(temp, DOMAIN temp \ left)
<1>3. job' = [job EXCEPT ![l] = [job[l] EXCEPT !.temp = files]]
  BY <1>2 DEF IInv
<1>4. DOMAIN files = DOMAIN temp \ left /\ \A name \in DOMAIN files : files[name] = temp[name]
  <2> HIDE DEF temp
  <2> QED BY RestrictValues1
<1>5. rest = "changes" => ~job[l].stop
  BY DEF StopsAt
<1>6. rest = "changes" => left = {}
  BY <1>2, <1>5
<1>7. Prepared' = Prepared
  BY DEF Prepared
<1> HIDE DEF files, rest
<1>8. /\ job'[l].game = job[l].game /\ job'[l].temp = files
      /\ \A k \in Launches \ {l} : job'[k] = job[k]
  BY <1>1, <1>3 DEF IInv, Fields
<1>9. pc'[l] = rest /\ \A k \in Launches \ {l} : pc'[k] = pc[k]
  BY <1>1 DEF IInv, TypeOK
<1>10. Complete(l)'
  BY <1>1, <1>4, <1>6, <1>7, <1>8, <1>9 DEF Complete
<1>11. \A k \in Launches \ {l} : Complete(k)'
  BY <1>8, <1>9, StaysComplete DEF Likewise
<1> QED BY <1>10, <1>11

LEMMA NextComplete ==
    ASSUME IInv, [Next]_vars, \A k \in Launches : Complete(k)
    PROVE  \A k \in Launches : Complete(k)'
<1>1. ASSUME UNCHANGED <<pc, job>> PROVE \A k \in Launches : Complete(k)'
  BY <1>1, StaysComplete DEF Likewise
<1>2. CASE Select \/ OpenNetplay \/ CloseNetplay \/ Restart \/ UNCHANGED vars
  BY <1>1, <1>2 DEF Select, OpenNetplay, CloseNetplay, Restart, vars
<1>3. ASSUME NEW l \in Launches, pc'[l] # "changes",
             \A k \in Launches \ {l} : Likewise(k) /\ pc'[k] = pc[k]
      PROVE  \A k \in Launches : Complete(k)'
  BY <1>3, StaysComplete DEF Complete
<1>4. ASSUME NEW l \in Launches,
             \/ \E g \in Games, asNetplay \in BOOLEAN : StartLocalGame(l, g, asNetplay)
             \/ CloseDialog(l) \/ ThreadFails(l) \/ EmulatorExits(l) \/ SaveFile(l)
             \/ SaveRemoved(l) \/ Cleanup(l)
      PROVE  \A k \in Launches : Complete(k)'
  <2>1. \A k \in Launches \ {l} : job'[k] = job[k]
    BY <1>4 DEF StartLocalGame, CloseDialog, ThreadFails, Fail, EmulatorExits, SaveFile, SaveRemoved,
                Cleanup, IInv
  <2>2. pc'[l] # "changes" /\ \A k \in Launches \ {l} : pc'[k] = pc[k]
    BY <1>4 DEF StartLocalGame, CloseDialog, ThreadFails, Fail, EmulatorExits, SaveFile, SaveRemoved,
                Cleanup, Goto, IInv, TypeOK
  <2> QED BY <1>3, <2>1, <2>2 DEF Likewise
<1>5. ASSUME NEW l \in Launches, Cancel(l)
      PROVE  \A k \in Launches : Complete(k)'
  <2>1. \A k \in Launches : pc'[k] = pc[k]
    BY <1>5 DEF Cancel
  <2>2. DOMAIN job[l] = Fields
    BY <1>5 DEF Cancel, IInv, LaunchOK
  <2>3. job' = [job EXCEPT ![l] = [job[l] EXCEPT !.stop = TRUE]]
    BY <1>5 DEF Cancel
  <2>4. /\ job'[l].temp = job[l].temp /\ job'[l].game = job[l].game
        /\ \A k \in Launches \ {l} : job'[k] = job[k]
    BY <2>2, <2>3 DEF IInv, Fields
  <2>5. Prepared' = Prepared
    BY DEF Prepared
  <2>6. Complete(l)'
    BY <2>1, <2>4, <2>5 DEF Complete
  <2> QED BY <2>1, <2>4, <2>6, StaysComplete DEF Likewise
<1>6. ASSUME NEW l \in Launches, NEW files, NEW update, WriteFiles(l, files, update), DOMAIN update = Fields
      PROVE  \A k \in Launches \ {l} : Likewise(k)
  BY <1>6, WriteValues
<1>7. ASSUME NEW l \in Launches, RestoreChanges(l)
      PROVE  \A k \in Launches : Complete(k)'
  <2> DEFINE files == SavedFiles(l)
             noted == [job[l] EXCEPT !.old = Holding(TempWith(l, files), DiskWith(l, files)),
                                     !.contested = Aliases(l)]
  <2>1. DOMAIN noted = Fields
    BY <1>7 DEF RestoreChanges, IInv, LaunchOK
  <2>2. WriteFiles(l, files, noted)
    BY <1>7 DEF RestoreChanges
  <2> HIDE DEF files, noted
  <2>3. \A k \in Launches \ {l} : Likewise(k)
    BY <1>6, <2>1, <2>2
  <2>4. pc'[l] # "changes" /\ \A k \in Launches \ {l} : pc'[k] = pc[k]
    BY <1>7 DEF RestoreChanges, Goto, StopsAt, IInv, TypeOK
  <2> QED BY <1>3, <2>3, <2>4
<1>8. ASSUME NEW l \in Launches, NEW name \in Media, Play(l, name)
      PROVE  \A k \in Launches : Complete(k)'
  <2> DEFINE files == OneFile(name, <<job[l].game, plays + 1>>)
             p == [job[l] EXCEPT !.played = @ \cup {name}]
  <2>1. DOMAIN p = Fields /\ pc[l] = "run" /\ pc' = pc
    BY <1>8 DEF Play, IInv, LaunchOK
  <2>2. \/ WriteFiles(l, files, p)
        \/ \E q : job' = [job EXCEPT ![l] = q]
    BY <1>8 DEF Play
  <2> HIDE DEF files, p
  <2>3. \A k \in Launches \ {l} : Likewise(k)
    BY <1>6, <2>1, <2>2, JobOf DEF Likewise
  <2> QED BY <1>3, <2>1, <2>3
<1> QED BY <1>2, <1>4, <1>5, <1>7, <1>8, PrepareComplete DEF Next, Thread

(***************************************************************************)
(* Whatever is configured, and wherever a launch is cancelled, the         *)
(* emulator is started only with every drive, image, CD, hard drive and    *)
(* ROM as it was asked for, or, where files of the configuration have one  *)
(* name, with one of those (run_sequence, prepare and the prepare_*        *)
(* methods).  No file is called as a drive's directory is, DH0 to DH9.     *)
(***************************************************************************)
THEOREM MediaAreReady == Spec => []MediaReady
<1> DEFINE Inv == IInv /\ \A l \in Launches : Complete(l)
<1>1. Init => Inv
  BY InitOK DEF Init, Complete
<1>2. Inv /\ [Next]_vars => Inv'
  BY NextKeeps, NextComplete
<1>3. Inv => MediaReady
  <2> SUFFICES ASSUME Inv, NEW l \in Launches, pc[l] = "changes"
               PROVE  MediaInPlace(Launched(l), Conf[job[l].game])
    BY DEF MediaReady
  <2> DEFINE g == job[l].game
             p == Prepared[g]
             q == Launched(l)
  <2>1. g \in Games
    BY DEF IInv, LaunchOK
  <2>2. Complete(l) /\ p.ok
    BY DEF Complete
  <2>3. Shaped(p, Conf[g]) /\ Ready(p, Conf[g])
    BY <2>1, <2>2, AllPrepared
  <2>4. q = [p EXCEPT !.temp = job[l].temp]
    BY DEF Launched
  <2>5. DOMAIN job[l].temp = DOMAIN p.temp /\ \A name \in DOMAIN p.temp : job[l].temp[name] = p.temp[name]
    BY <2>2 DEF Complete
  <2> HIDE DEF p, q, g
  <2>6. /\ DOMAIN q = DOMAIN p /\ q.conf = p.conf /\ q.temp = job[l].temp
    BY <2>3, <2>4 DEF Shaped
  <2>7. Shaped(q, Conf[g]) /\ Ready(q, Conf[g])
    BY <2>3, <2>5, <2>6, SameFilesReady
  <2>8. MediaInPlace(q, Conf[g])
    BY <2>7, ReadyInPlace
  <2> QED BY <2>8 DEF q, g
<1> QED BY <1>1, <1>2, <1>3, PTL DEF Spec
=============================================================================
