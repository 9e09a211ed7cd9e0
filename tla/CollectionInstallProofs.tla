----------------------- MODULE CollectionInstallProofs -----------------------
(***************************************************************************)
(* Proofs about CollectionInstall, for any projects, gems, lockfiles and   *)
(* kills.  That an install makes its gems available rests on what a        *)
(* command still has to do: a gem of the lockfile is to be looked at, or   *)
(* being written, or up to date, and a clean only touches what is not in   *)
(* the lockfile (CommandInv, InstallInv).  That what is available is       *)
(* installed rests on when metadata are on disk: with all files of the     *)
(* revision they name, or where a kill or another project was in the way,  *)
(* or while a directory is removed that the lockfile does not ask for      *)
(* (MetaInv).                                                              *)
(***************************************************************************)
EXTENDS CollectionInstall, SequenceTheorems, TLAPS

-----------------------------------------------------------------------------
(* The inductive invariant.                                                *)

\* What a command works on: an entry of the lockfile, or a directory to clean.
Item == [gem : Gem, version : Version, source : Revision \cup Path \cup {None}]

OnDisk == [kind : {"absent", "link", "dir"}, target : Path \cup {None},
           files : SUBSET (File \X Revision), meta : Revision \cup {None}]

TypeOK ==
  /\ worktree \in Revision
  /\ disturbed \in [Project -> SUBSET (Gem \X Version)]
  /\ torn \in [Project -> SUBSET (Gem \X Version)]
  /\ disk \in [Project -> [Gem \X Version -> OnDisk]]
  /\ at \in [Project -> DOMAIN Lockfiles]
  /\ pc \in [Project -> {"idle", "install", "clean", "remove", "write", "mkpath", "copy"}]
  /\ lock \in [Project -> SUBSET Entry]
  /\ todo \in [Project -> SUBSET Item]
  /\ current \in [Project -> Item \cup {None}]
  /\ installed \in [Project -> (SUBSET Entry) \cup {None}]
  /\ raised \in [Project -> BOOLEAN]
  /\ crashes \in Nat

WritePc == {"write", "mkpath", "copy"}

Cleaning(p) == pc[p] = "clean" \/ (pc[p] = "remove" /\ current[p].source = None)
Installing(p) ==
  pc[p] \in {"install"} \cup WritePc \/ (pc[p] = "remove" /\ current[p].source # None)

\* The entry that a command is on.
OnHand(p) == IF pc[p] \in {"remove"} \cup WritePc THEN {current[p]} ELSE {}

\* An install works on gems of the lockfile, a clean on what is not in the lockfile.
CommandInv(p) ==
  /\ pc[p] # "idle" => lock[p] = Lockfile(p)
  /\ OnHand(p) \subseteq Item \ todo[p]
  /\ Installing(p) => todo[p] \cup OnHand(p) \subseteq lock[p]
  /\ Cleaning(p) => \A e \in todo[p] \cup OnHand(p) :
       e.source = None /\ \A n \in lock[p] : Place(n) # Place(e)
  /\ Cleaning(p) => \A e \in todo[p] : On(p, e).kind # "absent"
  /\ pc[p] \in {"mkpath", "copy"} => IsGit(current[p])
  /\ pc[p] = "copy" => On(p, current[p]).kind = "dir" /\ On(p, current[p]).meta = None

\* The gems of the lockfile that an install is through with are up to date, and
\* they all are after an install.
InstallInv(p) ==
  /\ Installing(p) => installed[p] = None
  /\ Installing(p) => \A e \in lock[p] :
       Has(e) => e \in todo[p] \cup OnHand(p) \/ UpToDate(p, e)
  /\ installed[p] # None => \A e \in Lockfile(p) : Has(e) => UpToDate(p, e)

IInv == TypeOK /\ \A p \in Project : CommandInv(p) /\ InstallInv(p)

Removing(p, d) == pc[p] = "remove" /\ Place(current[p]) = d

Locked(d, revision) == [gem |-> d[1], version |-> d[2], source |-> revision]

\* What is copied is the revision that was asked for, as long as nobody interferes, to
\* where nothing was.
CopyInv(p) ==
  /\ pc[p] \in WritePc => On(p, current[p]).meta = None
  /\ pc[p] \in {"mkpath", "copy"} /\ Place(current[p]) \notin disturbed[p] =>
       /\ worktree = current[p].source
       /\ pc[p] = "copy" =>
            On(p, current[p]).files \subseteq {<<f, worktree>> : f \in Tree(worktree, current[p])}

\* Where there are metadata the files are there, or somebody was in the way, or they are
\* being removed, and then are not those of the entry that a command is on.
MetaInv(p) ==
  /\ \A d \in Gem \X Version : disk[p][d].meta # None =>
       /\ disk[p][d].kind = "dir"
       /\ \/ d \in disturbed[p] \cup torn[p] \/ Removing(p, d)
          \/ IsInstalled(p, Locked(d, disk[p][d].meta))
  /\ pc[p] = "remove" /\ On(p, current[p]).meta # None =>
       On(p, current[p]).meta # current[p].source

RevisionInv == \A p \in Project : CopyInv(p) /\ MetaInv(p)

-----------------------------------------------------------------------------
(* Steps of one project.                                                   *)

StepOf(p) ==
  \/ Update(p) \/ StartInstall(p) \/ StartClean(p)
  \/ \E e \in todo[p] : Using(p, e) \/ NoMetadata(p, e) \/ Begin(p, e)
  \/ RemoveFile(p) \/ RemoveEntry(p)
  \/ Symlink(p) \/ Reset(p) \/ Mkpath(p) \/ CopyFile(p) \/ NothingToCopy(p)
  \/ WriteMetadata(p) \/ FinishInstall(p) \/ FinishClean(p) \/ Crash(p)

\* What is on disk where an entry goes.
LEMMA PlaceTypes ==
  ASSUME TypeOK, NEW p \in Project, NEW e \in Item
  PROVE  Place(e) \in Gem \X Version /\ On(p, e) = disk[p][Place(e)] /\ On(p, e) \in OnDisk
  BY DEF TypeOK, Item, Place, On

\* Entries are items, and the entry on hand is one.
LEMMA ItemTypes ==
  ASSUME TypeOK, NEW p \in Project
  PROVE  /\ Entry \subseteq Item
         /\ \A e \in Entry : e.source # None
         /\ Lockfile(p) \in SUBSET Entry /\ Lockfile(p) # None
         /\ todo[p] \subseteq Item
         /\ CommandInv(p) /\ pc[p] \in {"remove"} \cup WritePc => current[p] \in Item
<1>1. Entry \subseteq Item /\ \A e \in Entry : e.source # None
  BY SourceAssumption DEF Entry, Item
<1>2. Lockfile(p) \in SUBSET Entry /\ Lockfile(p) # None
  BY LockfileAssumption DEF Lockfile, TypeOK
<1> QED
  BY <1>1, <1>2 DEF TypeOK, CommandInv, OnHand

\* Writing an entry changes one place of one project.
LEMMA Writing ==
  ASSUME TypeOK, NEW p \in Project, current[p] \in Item, NEW entry \in OnDisk, Write(p, entry)
  PROVE  /\ disk' \in [Project -> [Gem \X Version -> OnDisk]]
         /\ \A q \in Project \ {p} : disk'[q] = disk[q]
         /\ disk'[p][Place(current[p])] = entry
         /\ \A d \in (Gem \X Version) \ {Place(current[p])} : disk'[p][d] = disk[p][d]
<1>1. Place(current[p]) \in Gem \X Version
  BY PlaceTypes
<1>2. disk' = [disk EXCEPT ![p] = [disk[p] EXCEPT ![Place(current[p])] = entry]]
  BY DEF Write, Place
<1>3. disk[p] \in [Gem \X Version -> OnDisk]
  BY DEF TypeOK
<1> DEFINE one == [disk[p] EXCEPT ![Place(current[p])] = entry]
<1>4. one \in [Gem \X Version -> OnDisk] /\ one[Place(current[p])] = entry
      /\ \A d \in (Gem \X Version) \ {Place(current[p])} : one[d] = disk[p][d]
  BY <1>1, <1>3
<1> HIDE DEF one
<1>5. disk' = [disk EXCEPT ![p] = one]
  BY <1>2 DEF one
<1> QED
  BY <1>4, <1>5 DEF TypeOK

\* What a step writes is an entry of a directory.
LEMMA WrittenTypes ==
  /\ Absent \in OnDisk /\ EmptyDir \in OnDisk
  /\ \A path \in Path : Link(path) \in OnDisk
  /\ \A old \in OnDisk :
       /\ \A f \in old.files : [old EXCEPT !.files = @ \ {f}] \in OnDisk
       /\ \A f \in File \X Revision : [old EXCEPT !.files = @ \cup {f}] \in OnDisk
       /\ \A m \in Revision \cup {None} : [old EXCEPT !.meta = m] \in OnDisk
  BY DEF OnDisk, Absent, EmptyDir, Link

\* A command that ends forgets everything.
LEMMA Quitting ==
  ASSUME TypeOK, NEW p \in Project, Quit(p)
  PROVE  /\ pc' \in [Project -> {"idle", "install", "clean", "remove", "write", "mkpath", "copy"}]
         /\ lock' \in [Project -> SUBSET Entry]
         /\ todo' \in [Project -> SUBSET Item]
         /\ current' \in [Project -> Item \cup {None}]
         /\ pc'[p] = "idle" /\ todo'[p] = {}
         /\ \A q \in Project \ {p} : /\ pc'[q] = pc[q] /\ lock'[q] = lock[q]
                                      /\ todo'[q] = todo[q] /\ current'[q] = current[q]
  BY DEF TypeOK, Quit, Goto

\* Every step keeps the types.
LEMMA TypesKept ==
  ASSUME TypeOK, \A q \in Project : CommandInv(q), NEW p \in Project, CommandInv(p), StepOf(p)
  PROVE  TypeOK'
<1>0. /\ Lockfile(p) \in SUBSET Entry /\ Entry \subseteq Item
      /\ pc[p] \in {"remove"} \cup WritePc => current[p] \in Item
  BY ItemTypes
<1>1. CASE Update(p)
  <2>1. DOMAIN Lockfiles = 1..Len(Lockfiles) /\ Len(Lockfiles) \in Nat
    BY LockfileAssumption
  <2>2. at[p] + 1 \in DOMAIN Lockfiles
    BY <1>1, <2>1 DEF Update, TypeOK
  <2> QED
    BY <1>1, <2>2 DEF Update, TypeOK
<1>2. CASE StartInstall(p)
  BY <1>0, <1>2 DEF StartInstall, Start, Goto, TypeOK
<1>3. CASE StartClean(p)
  <2>1. PICK entries \in SUBSET [gem : Gem, version : Version, source : {None}] :
          Start(p, "clean", entries) /\ UNCHANGED installed
    BY <1>3 DEF StartClean
  <2>2. entries \subseteq Item
    BY <2>1 DEF Item
  <2> QED
    BY <1>0, <2>1, <2>2 DEF Start, Goto, TypeOK
<1>4. ASSUME NEW e \in todo[p], Using(p, e) PROVE TypeOK'
  BY <1>4 DEF Using, TypeOK
<1>5. ASSUME NEW e \in todo[p], NoMetadata(p, e) PROVE TypeOK'
  BY <1>5, Quitting DEF NoMetadata, Raise, TypeOK
<1>6. ASSUME NEW e \in todo[p], Begin(p, e) PROVE TypeOK'
  BY <1>6 DEF Begin, Goto, TypeOK
<1>7. CASE RemoveFile(p)
  <2>1. current[p] \in Item /\ On(p, current[p]) \in OnDisk
    BY <1>0, <1>7, PlaceTypes DEF RemoveFile
  <2>2. \E entry \in OnDisk : Write(p, entry)
    BY <1>7, <2>1, WrittenTypes DEF RemoveFile
  <2> QED
    BY <1>7, <2>1, <2>2, Writing DEF RemoveFile, TypeOK
<1>8. CASE RemoveEntry(p)
  <2>1. /\ current[p] \in Item /\ Write(p, Absent) /\ Absent \in OnDisk
        /\ torn' = [torn EXCEPT ![p] = @ \ {Place(current[p])}]
    BY <1>0, <1>8, WrittenTypes DEF RemoveEntry
  <2>2. disk' \in [Project -> [Gem \X Version -> OnDisk]]
    BY <2>1, Writing
  <2>3. /\ pc' \in [Project -> {"idle", "install", "clean", "remove", "write", "mkpath", "copy"}]
        /\ current' = current \/ current' = [current EXCEPT ![p] = None]
    BY <1>8 DEF RemoveEntry, Goto, TypeOK
  <2>4. torn' \in [Project -> SUBSET (Gem \X Version)] /\ current' \in [Project -> Item \cup {None}]
    BY <2>1, <2>3 DEF TypeOK
  <2>5. UNCHANGED <<worktree, disturbed, at, lock, todo, installed, raised, crashes>>
    BY <1>8 DEF RemoveEntry
  <2> QED
    BY <2>2, <2>3, <2>4, <2>5 DEF TypeOK
<1>9. CASE Symlink(p)
  <2>1. current[p] \in Entry
    BY <1>0, <1>9 DEF Symlink, WritePc, CommandInv, Installing, OnHand, TypeOK
  <2>2. current[p].source \in Path
    BY <1>9, <2>1 DEF Symlink, Entry, IsGit
  <2> QED
    BY <1>0, <1>9, <2>2, Writing, WrittenTypes DEF Symlink, Done, Goto, TypeOK, WritePc
<1>10. CASE Reset(p)
  <2>1. disturbed' \in [Project -> SUBSET (Gem \X Version)]
    <3>1. ASSUME NEW q \in Project, pc[q] \in {"mkpath", "copy"}
          PROVE  Place(current[q]) \in Gem \X Version
      BY <3>1, PlaceTypes, ItemTypes DEF WritePc
    <3> QED
      BY <1>10, <3>1 DEF Reset, TypeOK
  <2> QED
    BY <1>10, <2>1 DEF Reset, IsGit, Goto, TypeOK
<1>11. CASE Mkpath(p)
  BY <1>0, <1>11, Writing, WrittenTypes DEF Mkpath, Goto, TypeOK, WritePc
<1>12. CASE CopyFile(p)
  <2>1. current[p] \in Item /\ On(p, current[p]) \in OnDisk
    BY <1>0, <1>12, PlaceTypes DEF CopyFile, WritePc
  <2>2. PICK f \in Uncopied(p) :
          Write(p, [On(p, current[p]) EXCEPT !.files = @ \cup {<<f, worktree>>}])
    BY <1>12 DEF CopyFile
  <2>3. <<f, worktree>> \in File \X Revision
    BY DEF Uncopied, Tree, TypeOK
  <2> QED
    BY <1>12, <2>1, <2>2, <2>3, Writing, WrittenTypes DEF CopyFile, TypeOK
<1>13. CASE NothingToCopy(p)
  BY <1>13, Quitting DEF NothingToCopy, Raise, TypeOK
<1>14. CASE WriteMetadata(p)
  <2>1. current[p] \in Item /\ On(p, current[p]) \in OnDisk
    BY <1>0, <1>14, PlaceTypes DEF WriteMetadata, WritePc
  <2>2. current[p].source \in Revision
    BY <1>14 DEF WriteMetadata, CommandInv, IsGit
  <2> QED
    BY <1>14, <2>1, <2>2, Writing, WrittenTypes DEF WriteMetadata, Done, Goto, TypeOK
<1>15. CASE FinishInstall(p)
  BY <1>15, Quitting DEF FinishInstall, TypeOK
<1>16. CASE FinishClean(p)
  BY <1>16, Quitting DEF FinishClean, TypeOK
<1>17. CASE Crash(p)
  <2>1. crashes' \in Nat
    BY <1>17 DEF Crash, TypeOK
  <2>2. torn' \in [Project -> SUBSET (Gem \X Version)]
    <3>1. pc[p] = "remove" => Place(current[p]) \in Gem \X Version
      BY <1>0, PlaceTypes
    <3> QED
      BY <1>17, <3>1 DEF Crash, TypeOK
  <2> QED
    BY <1>17, <2>1, <2>2, Quitting DEF Crash, TypeOK
<1> QED
  BY <1>1, <1>2, <1>3, <1>4, <1>5, <1>6, <1>7, <1>8, <1>9, <1>10, <1>11, <1>12, <1>13,
     <1>14, <1>15, <1>16, <1>17 DEF StepOf

\* A step of a project leaves the others alone, but for the clone that they share.
LeavesOthers(p) ==
  \A q \in Project \ {p} :
    /\ pc'[q] = pc[q] /\ lock'[q] = lock[q] /\ todo'[q] = todo[q] /\ current'[q] = current[q]
    /\ at'[q] = at[q] /\ installed'[q] = installed[q] /\ disk'[q] = disk[q] /\ torn'[q] = torn[q]

\* What a command does is no matter of the other projects, but for the clone.
LEMMA OthersLeft ==
  ASSUME TypeOK, NEW p \in Project, CommandInv(p), StepOf(p)
  PROVE  LeavesOthers(p)
<1>1. CASE Update(p) \/ StartInstall(p) \/ StartClean(p)
  BY <1>1 DEF Update, StartInstall, StartClean, Start, Goto, TypeOK, LeavesOthers
<1>2. ASSUME NEW e \in todo[p], Using(p, e) \/ NoMetadata(p, e) \/ Begin(p, e)
      PROVE  LeavesOthers(p)
  BY <1>2, Quitting DEF Using, NoMetadata, Begin, Raise, Goto, TypeOK, LeavesOthers
<1>3. CASE RemoveFile(p) \/ RemoveEntry(p) \/ Symlink(p) \/ Mkpath(p) \/ CopyFile(p) \/ WriteMetadata(p)
  <2>1. \E entry : Write(p, entry)
    BY <1>3 DEF RemoveFile, RemoveEntry, Symlink, Mkpath, CopyFile, WriteMetadata
  <2>2. \A q \in Project \ {p} : disk'[q] = disk[q]
    BY <2>1 DEF Write, TypeOK
  <2> QED
    BY <1>3, <2>2 DEF RemoveFile, RemoveEntry, Symlink, Mkpath, CopyFile, WriteMetadata,
                      Done, Goto, TypeOK, LeavesOthers
<1>4. CASE Reset(p)
  BY <1>4 DEF Reset, Goto, TypeOK, LeavesOthers
<1>5. CASE NothingToCopy(p) \/ FinishInstall(p) \/ FinishClean(p) \/ Crash(p)
  BY <1>5, Quitting DEF NothingToCopy, FinishInstall, FinishClean, Crash, Raise, TypeOK, LeavesOthers
<1> QED
  BY <1>1, <1>2, <1>3, <1>4, <1>5 DEF StepOf

\* So the others' part of the invariant stays.
LEMMA OthersKeep ==
  ASSUME IInv, NEW p \in Project, StepOf(p), NEW q \in Project \ {p}
  PROVE  CommandInv(q)' /\ InstallInv(q)'
<1>1. LeavesOthers(p) /\ CommandInv(q) /\ InstallInv(q)
  BY OthersLeft DEF IInv
<1>2. /\ Lockfile(q)' = Lockfile(q) /\ OnHand(q)' = OnHand(q)
      /\ (Installing(q)' <=> Installing(q)) /\ (Cleaning(q)' <=> Cleaning(q))
      /\ \A e : On(q, e)' = On(q, e)
  BY <1>1 DEF LeavesOthers, Lockfile, OnHand, Installing, Cleaning, On
<1>3. \A e : UpToDate(q, e)' <=> UpToDate(q, e)
  BY <1>2 DEF UpToDate
<1>4. CommandInv(q)'
  BY <1>1, <1>2 DEF CommandInv, LeavesOthers
<1>5. InstallInv(q)'
  BY <1>1, <1>2, <1>3 DEF InstallInv, LeavesOthers
<1> QED
  BY <1>4, <1>5

-----------------------------------------------------------------------------
(* What a step does to the invariant of its own project.                   *)

\* A gem has one entry in a lockfile, and so has a place.
LEMMA OneEntry ==
  ASSUME TypeOK, NEW p \in Project, NEW e \in Lockfile(p), NEW f \in Lockfile(p), Place(e) = Place(f)
  PROVE  e = f
  BY LockfileAssumption DEF TypeOK, Lockfile, Place

\* What is up to date stays so while nothing is written at its place.
LEMMA SamePlace ==
  ASSUME NEW p, NEW e, disk'[p][Place(e)] = disk[p][Place(e)]
  PROVE  On(p, e)' = On(p, e) /\ (UpToDate(p, e)' <=> UpToDate(p, e))
  BY DEF On, UpToDate, Place

\* A command ends: as it should, with an exception, or killed.
LEMMA EndingPreserves ==
  ASSUME IInv, NEW p \in Project,
         \/ \E e \in todo[p] : NoMetadata(p, e)
         \/ NothingToCopy(p) \/ FinishInstall(p) \/ FinishClean(p) \/ Crash(p)
  PROVE  CommandInv(p)' /\ InstallInv(p)'
<1>1. TypeOK /\ CommandInv(p) /\ InstallInv(p) /\ Quit(p) /\ UNCHANGED <<disk, at>>
  BY DEF IInv, NoMetadata, NothingToCopy, FinishInstall, FinishClean, Crash, Raise
<1>2. pc'[p] = "idle"
  BY <1>1, Quitting
<1>3. CommandInv(p)'
  BY <1>2 DEF CommandInv, OnHand, Installing, Cleaning, WritePc
<1>4. \A e : On(p, e)' = On(p, e) /\ (UpToDate(p, e)' <=> UpToDate(p, e))
  BY <1>1 DEF On, UpToDate
<1>5. Lockfile(p)' = Lockfile(p) /\ ~Installing(p)'
  BY <1>1, <1>2 DEF Lockfile, Installing, WritePc
<1>6. CASE FinishInstall(p)
  <2>1. OnHand(p) = {} /\ todo[p] = {} /\ Installing(p) /\ lock[p] = Lockfile(p)
    BY <1>1, <1>6 DEF FinishInstall, OnHand, Installing, WritePc, CommandInv
  <2>2. \A e \in Lockfile(p) : Has(e) => UpToDate(p, e)
    BY <1>1, <2>1 DEF InstallInv
  <2> QED
    BY <1>3, <1>4, <1>5, <2>2 DEF InstallInv
<1>7. CASE ~FinishInstall(p)
  <2>1. installed' = installed
    BY <1>7 DEF NoMetadata, NothingToCopy, FinishClean, Crash, Raise
  <2> QED
    BY <1>1, <1>3, <1>4, <1>5, <2>1 DEF InstallInv
<1> QED
  BY <1>6, <1>7

\* The lockfile is updated, or a command starts.
LEMMA StartingPreserves ==
  ASSUME IInv, NEW p \in Project, Update(p) \/ StartInstall(p) \/ StartClean(p)
  PROVE  CommandInv(p)' /\ InstallInv(p)'
<1>1. TypeOK /\ CommandInv(p) /\ InstallInv(p) /\ disk' = disk /\ pc[p] = "idle"
  BY DEF IInv, Update, StartInstall, StartClean, Start
<1>2. \A e : On(p, e)' = On(p, e) /\ (UpToDate(p, e)' <=> UpToDate(p, e))
  BY <1>1 DEF On, UpToDate
<1>3. CASE Update(p)
  <2>1. pc'[p] = "idle" /\ installed'[p] = None
    BY <1>1, <1>3 DEF Update, TypeOK
  <2> QED
    BY <2>1 DEF CommandInv, InstallInv, OnHand, Installing, Cleaning, WritePc
<1>4. CASE StartInstall(p)
  <2>1. /\ pc'[p] = "install" /\ lock'[p] = Lockfile(p) /\ todo'[p] = {e \in Lockfile(p) : Has(e)}
        /\ installed'[p] = None /\ Lockfile(p)' = Lockfile(p)
    BY <1>1, <1>4 DEF StartInstall, Start, Goto, TypeOK, Lockfile
  <2>2. OnHand(p)' = {} /\ ~Cleaning(p)'
    BY <2>1 DEF OnHand, Cleaning, WritePc
  <2> QED
    BY <2>1, <2>2 DEF CommandInv, InstallInv
<1>5. CASE StartClean(p)
  <2> DEFINE Needed == {Place(e) : e \in Lockfile(p)}
             Present == {d \in Gem \X Version : disk[p][d].kind # "absent"}
             Items == {[gem |-> d[1], version |-> d[2], source |-> None] : d \in Present \ Needed}
  <2>1. /\ pc'[p] = "clean" /\ lock'[p] = Lockfile(p) /\ todo'[p] = Items
        /\ installed' = installed /\ Lockfile(p)' = Lockfile(p)
    BY <1>1, <1>5 DEF StartClean, Start, Goto, TypeOK, Lockfile
  <2>2. ASSUME NEW e \in Items
        PROVE  e.source = None /\ Place(e) \notin Needed /\ On(p, e).kind # "absent"
    <3>1. PICK d \in Present \ Needed : e = [gem |-> d[1], version |-> d[2], source |-> None]
      BY <2>2
    <3>2. <<d[1], d[2]>> = d
      BY <3>1
    <3> QED
      BY <3>1, <3>2 DEF Place, On
  <2>3. \A n \in Lockfile(p) : Place(n) \in Needed
    BY DEF Place
  <2> HIDE DEF Needed, Items
  <2>4. OnHand(p)' = {} /\ ~Installing(p)'
    BY <2>1 DEF OnHand, Installing, WritePc
  <2>5. CommandInv(p)'
    BY <1>2, <2>1, <2>2, <2>3, <2>4 DEF CommandInv
  <2>6. InstallInv(p)'
    BY <1>1, <1>2, <2>1, <2>4 DEF InstallInv
  <2> QED
    BY <2>5, <2>6
<1> QED
  BY <1>3, <1>4, <1>5

\* An entry is taken from what is left to do.
LEMMA TakingPreserves ==
  ASSUME IInv, NEW p \in Project, NEW e \in todo[p], Using(p, e) \/ Begin(p, e)
  PROVE  CommandInv(p)' /\ InstallInv(p)'
<1>1. /\ TypeOK /\ CommandInv(p) /\ InstallInv(p) /\ UNCHANGED <<disk, at, lock, installed>>
      /\ todo'[p] = todo[p] \ {e} /\ e \in Item
  BY DEF IInv, Using, Begin, TypeOK
<1>2. /\ \A f : On(p, f)' = On(p, f) /\ (UpToDate(p, f)' <=> UpToDate(p, f))
      /\ Lockfile(p)' = Lockfile(p)
  BY <1>1 DEF On, UpToDate, Lockfile
<1>3. OnHand(p) = {} /\ lock[p] = Lockfile(p)
  BY <1>1 DEF Using, Begin, OnHand, WritePc, CommandInv
<1>4. CASE Using(p, e)
  <2>1. pc'[p] = "install" /\ pc[p] = "install" /\ UpToDate(p, e) /\ current' = current
    BY <1>4 DEF Using
  <2>2. OnHand(p)' = {} /\ Installing(p)' /\ Installing(p) /\ ~Cleaning(p)'
    BY <2>1 DEF OnHand, Installing, Cleaning, WritePc
  <2>3. CommandInv(p)'
    BY <1>1, <1>3, <2>1, <2>2, <1>2 DEF CommandInv
  <2>4. InstallInv(p)'
    BY <1>1, <1>2, <1>3, <2>1, <2>2 DEF InstallInv
  <2> QED
    BY <2>3, <2>4
<1>5. CASE Begin(p, e) /\ pc[p] = "install"
  <2>1. e \in lock[p] /\ e.source # None
    BY <1>1, <1>3, <1>5, ItemTypes DEF CommandInv, Installing
  <2>2. pc'[p] \in {"write", "remove"} /\ current'[p] = e
    BY <1>1, <1>5 DEF Begin, Goto, TypeOK
  <2>3. OnHand(p)' = {e} /\ Installing(p)' /\ Installing(p) /\ ~Cleaning(p)'
    BY <1>5, <2>1, <2>2 DEF OnHand, Installing, Cleaning, WritePc
  <2>4. CommandInv(p)'
    BY <1>1, <1>2, <1>3, <2>1, <2>2, <2>3 DEF CommandInv
  <2>5. InstallInv(p)'
    BY <1>1, <1>2, <1>3, <2>1, <2>3 DEF InstallInv
  <2> QED
    BY <2>4, <2>5
<1>6. CASE Begin(p, e) /\ pc[p] = "clean"
  <2>1. Cleaning(p) /\ e.source = None /\ On(p, e).kind # "absent"
    BY <1>1, <1>6 DEF Cleaning, CommandInv
  <2>2. pc'[p] = "remove" /\ current'[p] = e
    BY <1>1, <1>6, <2>1 DEF Begin, Goto, TypeOK
  <2>3. OnHand(p)' = {e} /\ ~Installing(p)' /\ Cleaning(p)'
    BY <2>1, <2>2 DEF OnHand, Installing, Cleaning, WritePc
  <2>4. CommandInv(p)'
    BY <1>1, <1>2, <1>3, <2>1, <2>2, <2>3 DEF CommandInv
  <2>5. InstallInv(p)'
    BY <1>1, <1>2, <2>3 DEF InstallInv
  <2> QED
    BY <2>4, <2>5
<1> QED
  BY <1>4, <1>5, <1>6 DEF Using, Begin

\* Writing at the place of the entry on hand leaves all other gems of the lockfile alone.
LEMMA WritingElsewhere ==
  ASSUME IInv, NEW p \in Project, pc[p] \in {"remove"} \cup WritePc, NEW entry \in OnDisk, Write(p, entry)
  PROVE  /\ OnHand(p) = {current[p]} /\ current[p] \in Item /\ lock[p] = Lockfile(p)
         /\ Installing(p) \/ Cleaning(p)
         /\ Installing(p) => current[p] \in lock[p] /\ current[p].source # None
         /\ Cleaning(p) => current[p].source = None /\ current[p] \notin lock[p]
         /\ On(p, current[p])' = entry \/ current'[p] # current[p]
         /\ disk'[p][Place(current[p])] = entry
         /\ \A e \in lock[p] \ {current[p]} : UpToDate(p, e)' <=> UpToDate(p, e)
         /\ Cleaning(p) => \A e \in todo[p] : On(p, e)' = On(p, e)
<1>1. TypeOK /\ CommandInv(p) /\ OnHand(p) = {current[p]} /\ lock[p] = Lockfile(p)
  BY DEF IInv, OnHand, CommandInv, WritePc
<1>2. current[p] \in Item /\ current[p] \notin todo[p] /\ lock[p] \subseteq Item /\ todo[p] \subseteq Item
  BY <1>1, ItemTypes DEF CommandInv
<1>3. /\ Installing(p) \/ Cleaning(p)
      /\ Installing(p) => current[p] \in lock[p] /\ current[p].source # None
      /\ Cleaning(p) => current[p].source = None /\ \A n \in lock[p] : Place(n) # Place(current[p])
  BY <1>1, ItemTypes DEF Installing, Cleaning, CommandInv
<1>4. /\ disk'[p][Place(current[p])] = entry
      /\ \A d \in (Gem \X Version) \ {Place(current[p])} : disk'[p][d] = disk[p][d]
  BY <1>1, <1>2, Writing
<1>5. ASSUME NEW e \in lock[p] \ {current[p]} PROVE UpToDate(p, e)' <=> UpToDate(p, e)
  <2>1. Place(e) # Place(current[p])
    BY <1>1, <1>3, <1>5, OneEntry
  <2>2. Place(e) \in Gem \X Version
    BY <1>1, <1>2, <1>5, PlaceTypes
  <2> QED
    BY <1>4, <2>1, <2>2, SamePlace
<1>6. ASSUME Cleaning(p), NEW e \in todo[p] PROVE On(p, e)' = On(p, e)
  <2>1. e.source = current[p].source
    BY <1>1, <1>3, <1>6 DEF CommandInv
  <2>2. Place(e) # Place(current[p])
    BY <1>2, <2>1 DEF Place, Item
  <2>3. Place(e) \in Gem \X Version
    BY <1>1, <1>2, PlaceTypes
  <2> QED
    BY <1>4, <2>2, <2>3, SamePlace
<1>7. On(p, current[p])' = entry \/ current'[p] # current[p]
  BY <1>4 DEF On, Place
<1> QED
  BY <1>1, <1>2, <1>3, <1>4, <1>5, <1>6, <1>7

\* The entry on hand is written to, and stays on hand.
LEMMA WorkingPreserves ==
  ASSUME IInv, NEW p \in Project, pc[p] \in {"remove"} \cup WritePc, NEW entry \in OnDisk, Write(p, entry),
         pc'[p] \in {"remove"} \cup WritePc, pc[p] = "remove" <=> pc'[p] = "remove",
         pc'[p] \in {"mkpath", "copy"} => IsGit(current[p]),
         pc'[p] = "copy" => entry.kind = "dir" /\ entry.meta = None,
         UNCHANGED <<at, lock, todo, current, installed>>
  PROVE  CommandInv(p)' /\ InstallInv(p)'
<1>1. CommandInv(p) /\ InstallInv(p) /\ Lockfile(p)' = Lockfile(p)
  BY DEF IInv, Lockfile
<1>2. /\ OnHand(p)' = OnHand(p) /\ On(p, current[p])' = entry
      /\ (Installing(p)' <=> Installing(p)) /\ (Cleaning(p)' <=> Cleaning(p))
  <2>1. disk'[p][Place(current[p])] = entry
    BY WritingElsewhere
  <2> QED
    BY <2>1 DEF OnHand, Installing, Cleaning, WritePc, On, Place
<1>3. pc[p] # "idle" /\ (Cleaning(p) => ~Installing(p))
  BY DEF WritePc, Cleaning, Installing
<1>4. CommandInv(p)'
  BY <1>1, <1>2, <1>3, WritingElsewhere DEF CommandInv
<1>5. InstallInv(p)'
  BY <1>1, <1>2, <1>3, WritingElsewhere DEF InstallInv
<1> QED
  BY <1>4, <1>5

\* A directory is removed, or a clean goes on after that.
LEMMA RemovingPreserves ==
  ASSUME IInv, NEW p \in Project, RemoveFile(p) \/ RemoveEntry(p)
  PROVE  CommandInv(p)' /\ InstallInv(p)'
<1>1. /\ TypeOK /\ CommandInv(p) /\ InstallInv(p) /\ pc[p] = "remove" /\ current[p] \in Item
      /\ On(p, current[p]) \in OnDisk
  BY ItemTypes, PlaceTypes DEF IInv, RemoveFile, RemoveEntry
<1>2. CASE RemoveFile(p)
  <2>1. \E entry \in OnDisk : Write(p, entry)
    BY <1>1, <1>2, WrittenTypes DEF RemoveFile
  <2> QED
    BY <1>1, <1>2, <2>1, WorkingPreserves DEF RemoveFile
<1>3. CASE RemoveEntry(p) /\ current[p].source # None
  <2>1. pc'[p] = "write" /\ current' = current /\ Installing(p)
    BY <1>1, <1>3 DEF RemoveEntry, Goto, TypeOK, Installing
  <2>2. Installing(p)' /\ ~Cleaning(p)' /\ OnHand(p)' = OnHand(p)
    BY <1>1, <2>1 DEF Installing, Cleaning, OnHand, WritePc
  <2>3. Write(p, Absent) /\ UNCHANGED <<at, lock, todo, installed>> /\ Lockfile(p)' = Lockfile(p)
    BY <1>3 DEF RemoveEntry, Lockfile
  <2>4. /\ OnHand(p) = {current[p]} /\ lock[p] = Lockfile(p)
        /\ \A e \in lock[p] \ {current[p]} : UpToDate(p, e)' <=> UpToDate(p, e)
    BY <1>1, <2>3, WritingElsewhere, WrittenTypes
  <2>5. CommandInv(p)'
    BY <1>1, <2>1, <2>2, <2>3, <2>4 DEF CommandInv
  <2>6. InstallInv(p)'
    BY <1>1, <2>1, <2>2, <2>3, <2>4 DEF InstallInv
  <2> QED
    BY <2>5, <2>6
<1>4. CASE RemoveEntry(p) /\ current[p].source = None
  <2>1. pc'[p] = "clean" /\ Cleaning(p) /\ ~Installing(p)
    BY <1>1, <1>4 DEF RemoveEntry, Goto, TypeOK, Cleaning, Installing, WritePc
  <2>2. ~Installing(p)' /\ OnHand(p)' = {}
    BY <2>1 DEF Installing, OnHand, WritePc
  <2>3. Write(p, Absent) /\ UNCHANGED <<at, lock, todo, installed>> /\ Lockfile(p)' = Lockfile(p)
    BY <1>4 DEF RemoveEntry, Lockfile
  <2>4. /\ lock[p] = Lockfile(p) /\ current[p] \notin lock[p]
        /\ \A e \in lock[p] \ {current[p]} : UpToDate(p, e)' <=> UpToDate(p, e)
        /\ \A e \in todo[p] : On(p, e)' = On(p, e)
    BY <1>1, <2>1, <2>3, WritingElsewhere, WrittenTypes
  <2>5. CommandInv(p)'
    BY <1>1, <2>1, <2>2, <2>3, <2>4 DEF CommandInv
  <2>6. InstallInv(p)'
    BY <1>1, <2>2, <2>3, <2>4 DEF InstallInv
  <2> QED
    BY <2>5, <2>6
<1> QED
  BY <1>2, <1>3, <1>4

\* The clone is reset, and files are copied.
LEMMA CopyingPreserves ==
  ASSUME IInv, NEW p \in Project, Reset(p) \/ Mkpath(p) \/ CopyFile(p)
  PROVE  CommandInv(p)' /\ InstallInv(p)'
<1>1. /\ TypeOK /\ CommandInv(p) /\ InstallInv(p) /\ pc[p] \in WritePc /\ current[p] \in Item
      /\ IsGit(current[p])
  BY ItemTypes DEF IInv, Reset, Mkpath, CopyFile, WritePc, CommandInv
<1>2. CASE Reset(p)
  <2>1. pc'[p] = "mkpath" /\ pc[p] = "write" /\ UNCHANGED <<disk, at, lock, todo, current, installed>>
    BY <1>1, <1>2 DEF Reset, Goto, TypeOK
  <2>2. /\ OnHand(p)' = OnHand(p) /\ Installing(p) /\ Installing(p)' /\ ~Cleaning(p)'
        /\ Lockfile(p)' = Lockfile(p) /\ \A e : UpToDate(p, e)' <=> UpToDate(p, e)
    BY <2>1 DEF OnHand, Installing, Cleaning, WritePc, Lockfile, UpToDate, On
  <2>3. CommandInv(p)'
    BY <1>1, <2>1, <2>2 DEF CommandInv, IsGit
  <2>4. InstallInv(p)'
    BY <1>1, <2>1, <2>2 DEF InstallInv
  <2> QED
    BY <2>3, <2>4
<1>3. CASE Mkpath(p)
  <2>1. pc'[p] = "copy" /\ EmptyDir.kind = "dir" /\ EmptyDir.meta = None
    BY <1>1, <1>3 DEF Mkpath, Goto, TypeOK, EmptyDir
  <2> QED
    BY <1>1, <1>3, <2>1, WorkingPreserves, WrittenTypes DEF Mkpath, WritePc
<1>4. CASE CopyFile(p)
  <2>1. PICK f \in Uncopied(p) :
          Write(p, [On(p, current[p]) EXCEPT !.files = @ \cup {<<f, worktree>>}])
    BY <1>4 DEF CopyFile
  <2> DEFINE entry == [On(p, current[p]) EXCEPT !.files = @ \cup {<<f, worktree>>}]
  <2>2. On(p, current[p]) \in OnDisk /\ <<f, worktree>> \in File \X Revision
    BY <1>1, PlaceTypes DEF Uncopied, Tree, TypeOK
  <2>3. entry \in OnDisk
    BY <2>2, WrittenTypes
  <2>4. On(p, current[p]).kind = "dir" /\ On(p, current[p]).meta = None
    BY <1>1, <1>4 DEF CopyFile, CommandInv
  <2>5. entry.kind = "dir" /\ entry.meta = None
    BY <2>2, <2>4 DEF OnDisk
  <2> HIDE DEF entry
  <2>6. Write(p, entry)
    BY <2>1 DEF entry
  <2> QED
    BY <1>1, <1>4, <2>3, <2>5, <2>6, WorkingPreserves DEF CopyFile, WritePc
<1> QED
  BY <1>2, <1>3, <1>4

\* A gem is installed, and up to date.
LEMMA InstalledPreserves ==
  ASSUME IInv, NEW p \in Project, Symlink(p) \/ WriteMetadata(p)
  PROVE  CommandInv(p)' /\ InstallInv(p)'
<1>1. /\ TypeOK /\ CommandInv(p) /\ InstallInv(p) /\ pc[p] \in WritePc /\ Installing(p)
      /\ UNCHANGED <<at, lock, todo, installed>> /\ pc'[p] = "install"
  BY DEF IInv, Symlink, WriteMetadata, Done, Goto, TypeOK, WritePc, Installing
<1>2. current[p] \in Entry /\ current[p] \in Item
  BY <1>1, ItemTypes DEF CommandInv, OnHand, WritePc, TypeOK
<1>3. PICK entry \in OnDisk :
        /\ Write(p, entry)
        /\ IF IsGit(current[p]) THEN entry.kind = "dir" /\ entry.meta = current[p].source
                                ELSE entry = Link(current[p].source)
  <2>1. CASE Symlink(p)
    <3>1. current[p].source \in Path /\ ~IsGit(current[p])
      BY <1>2, <2>1 DEF Symlink, Entry, IsGit
    <3> QED
      BY <2>1, <3>1, WrittenTypes DEF Symlink
  <2>2. CASE WriteMetadata(p)
    <3>1. /\ IsGit(current[p]) /\ current[p].source \in Revision /\ On(p, current[p]).kind = "dir"
          /\ On(p, current[p]) \in OnDisk
      BY <1>1, <1>2, <2>2, PlaceTypes DEF WriteMetadata, CommandInv, IsGit
    <3> DEFINE entry == [On(p, current[p]) EXCEPT !.meta = current[p].source]
    <3>2. entry \in OnDisk
      BY <3>1, WrittenTypes
    <3>3. entry.kind = "dir" /\ entry.meta = current[p].source
      BY <3>1 DEF OnDisk
    <3> QED
      BY <2>2, <3>1, <3>2, <3>3 DEF WriteMetadata
  <2> QED
    BY <2>1, <2>2
<1>4. /\ OnHand(p) = {current[p]} /\ lock[p] = Lockfile(p) /\ disk'[p][Place(current[p])] = entry
      /\ \A e \in lock[p] \ {current[p]} : UpToDate(p, e)' <=> UpToDate(p, e)
  BY <1>1, <1>3, WritingElsewhere
<1>5. ASSUME NEW e \in lock[p], e = current[p] PROVE UpToDate(p, e)'
  BY <1>3, <1>4, <1>5 DEF UpToDate, On, Place, IsGit
<1>6. OnHand(p)' = {} /\ Installing(p)' /\ ~Cleaning(p)' /\ Lockfile(p)' = Lockfile(p)
  BY <1>1 DEF OnHand, Installing, Cleaning, WritePc, Lockfile
<1>7. CommandInv(p)'
  BY <1>1, <1>4, <1>6 DEF CommandInv
<1>8. InstallInv(p)'
  BY <1>1, <1>4, <1>5, <1>6 DEF InstallInv
<1> QED
  BY <1>7, <1>8

-----------------------------------------------------------------------------
(* Initially, and what follows.                                            *)

\* Nothing is installed, and nobody has started anything.
LEMMA InitEstablishes == Init => IInv
<1> SUFFICES ASSUME Init PROVE IInv
  OBVIOUS
<1>1. 1 \in DOMAIN Lockfiles
  BY LockfileAssumption
<1>2. TypeOK
  BY <1>1, WrittenTypes DEF Init, TypeOK
<1>3. \A p \in Project : CommandInv(p) /\ InstallInv(p)
  BY DEF Init, CommandInv, InstallInv, OnHand, Installing, Cleaning, WritePc
<1> QED
  BY <1>2, <1>3 DEF IInv

\* Every step keeps the invariant.
LEMMA StepPreserves == IInv /\ [Next]_vars => IInv'
<1> SUFFICES ASSUME IInv, [Next]_vars PROVE IInv'
  OBVIOUS
<1>1. CASE UNCHANGED vars
  <2>1. TypeOK'
    BY <1>1 DEF vars, IInv, TypeOK
  <2>2. ASSUME NEW p \in Project PROVE CommandInv(p)' /\ InstallInv(p)'
    <3>1. CommandInv(p) /\ InstallInv(p)
      BY DEF IInv
    <3>2. CommandInv(p)'
      BY <1>1, <3>1 DEF vars, CommandInv, OnHand, Installing, Cleaning, Lockfile, On
    <3>3. InstallInv(p)'
      BY <1>1, <3>1 DEF vars, InstallInv, OnHand, Installing, Lockfile, On, UpToDate
    <3> QED
      BY <3>2, <3>3
  <2> QED
    BY <2>1, <2>2 DEF IInv
<1>2. CASE Next
  <2>1. PICK p \in Project : StepOf(p)
    BY <1>2 DEF Next, StepOf
  <2>2. CommandInv(p)' /\ InstallInv(p)'
    BY <2>1, EndingPreserves, StartingPreserves, TakingPreserves, RemovingPreserves,
       CopyingPreserves, InstalledPreserves DEF StepOf
  <2>3. TypeOK'
    BY <2>1, TypesKept DEF IInv
  <2> QED
    BY <2>1, <2>2, <2>3, OthersKeep DEF IInv
<1> QED
  BY <1>1, <1>2

\* Whatever the projects install, clean, update and lose, the invariant is kept.
THEOREM Invariance == Spec => []IInv
  BY InitEstablishes, StepPreserves, PTL DEF Spec

\* After an install that reached its end the gems of its lockfile are available
\* until the lockfile changes, whatever is cleaned, killed or run by others.
LEMMA IInvImpliesAvailable == IInv => InstallMakesAvailable
<1> SUFFICES ASSUME IInv, NEW p \in Project, installed[p] = Lockfile(p), \A e \in Lockfile(p) : Has(e)
             PROVE  Available(p)
  BY DEF InstallMakesAvailable
<1>1. installed[p] # None
  BY ItemTypes DEF IInv
<1>2. \A e \in Lockfile(p) : UpToDate(p, e)
  BY <1>1 DEF IInv, InstallInv
<1> QED
  BY <1>2 DEF Available, UpToDate, Link

\* `rbs collection install` that ends makes check_rbs_availability! pass: the theorem
\* about Installer#install_from_lockfile, Git#install, Local#install and Cleaner#clean.
THEOREM InstallMakesAvailableAlways == Spec => []InstallMakesAvailable
  BY Invariance, IInvImpliesAvailable, PTL

-----------------------------------------------------------------------------
(* Which revision is there.                                                *)

\* An entry is what its place and its source say.
LEMMA PlaceOfEntry ==
  ASSUME NEW e \in Item
  PROVE  /\ e = Locked(Place(e), e.source)
         /\ \A r : Tree(r, Locked(Place(e), r)) = Tree(r, e)
  BY DEF Item, Locked, Place, Tree

\* Steps that neither write nor begin to, nor are a kill in the middle of a removal.
LEMMA StayingKeepsMeta ==
  ASSUME NEW p, CopyInv(p), MetaInv(p), UNCHANGED <<disk, disturbed, torn>>,
         pc[p] # "remove", pc'[p] \in {"idle", "install", "clean"}
  PROVE  CopyInv(p)' /\ MetaInv(p)'
  BY DEF CopyInv, MetaInv, Removing, IsInstalled, On, WritePc

\* A kill in the middle of a removal shows.
LEMMA CrashKeepsMeta ==
  ASSUME IInv, NEW p \in Project, CopyInv(p), MetaInv(p), Crash(p)
  PROVE  CopyInv(p)' /\ MetaInv(p)'
<1>1. TypeOK /\ pc'[p] = "idle" /\ UNCHANGED <<disk, disturbed>>
  BY DEF IInv, Crash, Quit, Goto, TypeOK
<1>2. torn'[p] = torn[p] \cup (IF pc[p] = "remove" THEN {Place(current[p])} ELSE {})
  BY <1>1 DEF Crash, TypeOK
<1>3. CopyInv(p)'
  BY <1>1 DEF CopyInv, WritePc
<1>4. MetaInv(p)'
  BY <1>1, <1>2 DEF MetaInv, Removing, IsInstalled, On
<1> QED
  BY <1>3, <1>4

\* What is going to be removed is not what the lockfile asks for.
LEMMA BeginKeepsMeta ==
  ASSUME IInv, NEW p \in Project, CopyInv(p), MetaInv(p), NEW e \in todo[p], Begin(p, e)
  PROVE  CopyInv(p)' /\ MetaInv(p)'
<1>1. /\ TypeOK /\ CommandInv(p) /\ UNCHANGED <<disk, disturbed, torn>> /\ current'[p] = e
      /\ pc[p] \in {"install", "clean"} /\ e \in Item
      /\ pc'[p] = IF On(p, e).kind = "absent" THEN "write" ELSE "remove"
  BY DEF IInv, TypeOK, Begin, Goto
<1>2. Place(e) \in Gem \X Version /\ On(p, e) = disk[p][Place(e)] /\ On(p, e) \in OnDisk
  BY <1>1, PlaceTypes
<1>3. On(p, e).meta # None => On(p, e).kind = "dir" /\ On(p, e).meta \in Revision
  BY <1>2 DEF MetaInv, OnDisk
<1>4. ASSUME On(p, e).meta # None
      PROVE  On(p, e).meta # e.source
  <2>1. CASE pc[p] = "clean"
    BY <1>1, <1>4, <2>1 DEF CommandInv, Cleaning
  <2>2. CASE pc[p] = "install" /\ IsGit(e)
    BY <1>3, <1>4, <2>2 DEF Begin, UpToDate
  <2>3. CASE ~IsGit(e)
    BY <1>3, <1>4, <2>3 DEF IsGit
  <2> QED
    BY <1>1, <2>1, <2>2, <2>3
<1>5. On(p, current[p])' = On(p, e) /\ \A d : ~Removing(p, d)
  BY <1>1 DEF On, Removing
<1>6. CopyInv(p)'
  BY <1>1, <1>3, <1>5 DEF CopyInv, WritePc
<1>7. MetaInv(p)'
  BY <1>1, <1>4, <1>5 DEF MetaInv, IsInstalled, On
<1> QED
  BY <1>6, <1>7

\* An entry is written at one place: all others keep their metadata.
LEMMA WritingKeepsMeta ==
  ASSUME IInv, NEW p \in Project, MetaInv(p), pc[p] \in {"remove"} \cup WritePc,
         NEW entry \in OnDisk, Write(p, entry), UNCHANGED disturbed,
         torn[p] \ {Place(current[p])} \subseteq torn'[p],
         pc'[p] = "remove" => /\ pc[p] = "remove" /\ current' = current
                              /\ entry.meta \in {None, On(p, current[p]).meta},
         entry.meta # None =>
           /\ entry.kind = "dir"
           /\ \/ Place(current[p]) \in disturbed[p] \/ pc'[p] = "remove"
              \/ entry.files = {<<f, entry.meta>> : f \in Tree(entry.meta, current[p])}
  PROVE  MetaInv(p)'
<1>1. current[p] \in Item /\ TypeOK
  BY ItemTypes DEF IInv
<1>2. /\ disk'[p][Place(current[p])] = entry
      /\ \A d \in (Gem \X Version) \ {Place(current[p])} : disk'[p][d] = disk[p][d]
  BY <1>1, Writing
<1>3. pc'[p] = "remove" => On(p, current[p])' = entry
  BY <1>2 DEF On
<1>4. pc'[p] = "remove" /\ entry.meta # None => entry.meta # current'[p].source
  BY DEF MetaInv
<1>5. ASSUME NEW d \in Gem \X Version, disk'[p][d].meta # None
      PROVE  /\ disk'[p][d].kind = "dir"
             /\ \/ d \in disturbed'[p] \cup torn'[p] \/ Removing(p, d)'
                \/ IsInstalled(p, Locked(d, disk[p][d].meta))'
  <2>1. CASE d = Place(current[p])
    <3>1. Tree(entry.meta, Locked(d, entry.meta)) = Tree(entry.meta, current[p])
      BY <1>1, <2>1, PlaceOfEntry
    <3>2. On(p, Locked(d, entry.meta))' = entry /\ Locked(d, entry.meta).source = entry.meta
      BY <1>1, <1>2, <2>1 DEF On, Place, Locked
    <3>3. disk'[p][d] = entry
      BY <1>2, <2>1
    <3>4. CASE entry.files = {<<f, entry.meta>> : f \in Tree(entry.meta, current[p])}
      <4>1. Tree(entry.meta, Locked(d, entry.meta))' = Tree(entry.meta, current[p])
        BY <3>1 DEF Tree, Locked
      <4>2. IsInstalled(p, Locked(d, entry.meta))'
        BY <3>2, <3>4, <4>1 DEF IsInstalled
      <4> QED
        BY <1>5, <3>3, <4>2
    <3>5. CASE Place(current[p]) \in disturbed[p] \/ pc'[p] = "remove"
      <4>1. d \in disturbed'[p] \/ Removing(p, d)'
        BY <2>1, <3>5 DEF Removing
      <4> QED
        BY <1>5, <3>3, <4>1
    <3> QED
      BY <1>5, <3>3, <3>4, <3>5
  <2>2. CASE d # Place(current[p])
    <3>1. disk'[p][d] = disk[p][d] /\ ~Removing(p, d) /\ (d \in torn[p] => d \in torn'[p])
      BY <1>2, <2>2 DEF Removing
    <3>2. \A r : On(p, Locked(d, r)) = disk[p][d] /\ On(p, Locked(d, r))' = disk'[p][d]
      BY DEF On, Place, Locked
    <3>3. /\ disk[p][d].kind = "dir"
          /\ d \in disturbed[p] \cup torn[p] \/ IsInstalled(p, Locked(d, disk[p][d].meta))
      BY <1>5, <3>1 DEF MetaInv
    <3>4. IsInstalled(p, Locked(d, disk[p][d].meta)) => IsInstalled(p, Locked(d, disk[p][d].meta))'
      BY <3>1, <3>2 DEF IsInstalled
    <3> QED
      BY <3>1, <3>3, <3>4
  <2> QED
    BY <2>1, <2>2
<1> QED
  BY <1>3, <1>4, <1>5 DEF MetaInv

\* While something is removed its metadata may stay to the last.
LEMMA RemovingKeepsMeta ==
  ASSUME IInv, NEW p \in Project, CopyInv(p), MetaInv(p), RemoveFile(p) \/ RemoveEntry(p)
  PROVE  CopyInv(p)' /\ MetaInv(p)'
<1>1. /\ TypeOK /\ pc[p] = "remove" /\ current[p] \in Item /\ UNCHANGED disturbed
      /\ Place(current[p]) \in Gem \X Version /\ On(p, current[p]) = disk[p][Place(current[p])]
      /\ On(p, current[p]) \in OnDisk
  BY ItemTypes, PlaceTypes DEF IInv, RemoveFile, RemoveEntry
<1>2. CASE RemoveEntry(p)
  <2>1. /\ pc'[p] \in {"clean", "write"} /\ Write(p, Absent) /\ Absent.meta = None
        /\ torn'[p] = torn[p] \ {Place(current[p])}
        /\ pc'[p] = "write" => current' = current
    BY <1>1, <1>2 DEF RemoveEntry, Goto, TypeOK, Absent
  <2>2. MetaInv(p)'
    BY <1>1, <2>1, WrittenTypes, WritingKeepsMeta
  <2>3. On(p, current[p])' = Absent \/ pc'[p] = "clean"
    BY <1>1, <2>1, Writing, WrittenTypes DEF On
  <2> QED
    BY <2>1, <2>2, <2>3 DEF CopyInv, WritePc
<1>3. CASE RemoveFile(p)
  <2>1. PICK entry \in OnDisk :
          /\ Write(p, entry)
          /\ entry.kind = On(p, current[p]).kind /\ entry.meta \in {None, On(p, current[p]).meta}
    <3> DEFINE old == On(p, current[p])
    <3>1. CASE \E f \in old.files : Write(p, [old EXCEPT !.files = @ \ {f}])
      <4>1. PICK f \in old.files : Write(p, [old EXCEPT !.files = @ \ {f}])
        BY <3>1
      <4>2. /\ [old EXCEPT !.files = @ \ {f}] \in OnDisk
            /\ [old EXCEPT !.files = @ \ {f}].kind = old.kind
            /\ [old EXCEPT !.files = @ \ {f}].meta = old.meta
        BY <1>1, WrittenTypes DEF OnDisk
      <4> QED
        BY <4>1, <4>2
    <3>2. CASE Write(p, [old EXCEPT !.meta = None])
      <4>1. /\ [old EXCEPT !.meta = None] \in OnDisk
            /\ [old EXCEPT !.meta = None].kind = old.kind /\ [old EXCEPT !.meta = None].meta = None
        BY <1>1, WrittenTypes DEF OnDisk
      <4> QED
        BY <3>2, <4>1
    <3> QED
      BY <1>3, <3>1, <3>2 DEF RemoveFile
  <2>2. UNCHANGED <<pc, current, torn>>
    BY <1>3 DEF RemoveFile
  <2>3. entry.meta # None => entry.kind = "dir"
    BY <1>1, <2>1 DEF MetaInv
  <2>4. MetaInv(p)'
    BY <1>1, <2>1, <2>2, <2>3, WritingKeepsMeta
  <2> QED
    BY <1>1, <2>2, <2>4 DEF CopyInv, WritePc
<1> QED
  BY <1>2, <1>3

\* A link has no metadata.
LEMMA SymlinkKeepsMeta ==
  ASSUME IInv, NEW p \in Project, CopyInv(p), MetaInv(p), Symlink(p)
  PROVE  CopyInv(p)' /\ MetaInv(p)'
<1>1. /\ TypeOK /\ pc[p] = "write" /\ pc'[p] = "install" /\ CommandInv(p)
      /\ UNCHANGED <<disturbed, torn>>
  BY DEF IInv, Symlink, Done, Goto, TypeOK
<1>2. current[p] \in Entry /\ current[p].source \in Path
  BY <1>1 DEF Symlink, IsGit, CommandInv, Installing, OnHand, WritePc, TypeOK, Entry
<1>3. Link(current[p].source) \in OnDisk /\ Link(current[p].source).meta = None
  BY <1>2, WrittenTypes DEF Link
<1>4. MetaInv(p)'
  BY <1>1, <1>3, WritingKeepsMeta DEF Symlink, WritePc
<1> QED
  BY <1>1, <1>4 DEF CopyInv, WritePc

\* Where a clone is reset for there are no metadata.
LEMMA ResetKeepsMeta ==
  ASSUME IInv, NEW p \in Project, CopyInv(p), MetaInv(p), Reset(p)
  PROVE  CopyInv(p)' /\ MetaInv(p)'
<1>1. /\ TypeOK /\ pc[p] = "write" /\ pc'[p] = "mkpath" /\ worktree' = current[p].source
      /\ UNCHANGED <<disk, current, torn>>
      /\ disturbed'[p] = disturbed[p] \ {Place(current[p])}
  BY DEF IInv, Reset, Goto, TypeOK
<1>2. On(p, current[p]) = disk[p][Place(current[p])] /\ On(p, current[p]).meta = None
  BY <1>1 DEF On, CopyInv, WritePc
<1>3. CopyInv(p)'
  BY <1>1, <1>2 DEF CopyInv, On
<1>4. MetaInv(p)'
  BY <1>1, <1>2 DEF MetaInv, Removing, IsInstalled, On
<1> QED
  BY <1>3, <1>4

\* What is copied from a clone that was just reset is of the revision.
LEMMA CopyingKeepsMeta ==
  ASSUME IInv, NEW p \in Project, CopyInv(p), MetaInv(p), Mkpath(p) \/ CopyFile(p)
  PROVE  CopyInv(p)' /\ MetaInv(p)'
<1>1. /\ TypeOK /\ CommandInv(p) /\ pc[p] \in WritePc /\ current[p] \in Item
      /\ On(p, current[p]) \in OnDisk /\ UNCHANGED <<worktree, current, disturbed, torn>>
      /\ pc'[p] = "copy"
  BY ItemTypes, PlaceTypes DEF IInv, Mkpath, CopyFile, WritePc, Goto, TypeOK
<1>2. CASE Mkpath(p)
  <2>1. pc[p] = "mkpath" /\ Write(p, EmptyDir)
    BY <1>2 DEF Mkpath
  <2>2. EmptyDir \in OnDisk /\ EmptyDir.meta = None /\ EmptyDir.files = {}
    BY WrittenTypes DEF EmptyDir
  <2>3. On(p, current[p])' = EmptyDir
    BY <1>1, <2>1, <2>2, Writing DEF On
  <2>4. CopyInv(p)'
    BY <1>1, <2>1, <2>2, <2>3 DEF CopyInv
  <2>5. MetaInv(p)'
    BY <1>1, <2>1, <2>2, WritingKeepsMeta DEF WritePc
  <2> QED
    BY <2>4, <2>5
<1>3. CASE CopyFile(p)
  <2> DEFINE old == On(p, current[p])
  <2>1. PICK f \in Uncopied(p) : Write(p, [old EXCEPT !.files = @ \cup {<<f, worktree>>}])
    BY <1>3 DEF CopyFile
  <2>2. f \in Tree(worktree, current[p]) /\ <<f, worktree>> \in File \X Revision
    BY <1>1 DEF Uncopied, Tree, TypeOK
  <2> DEFINE entry == [old EXCEPT !.files = @ \cup {<<f, worktree>>}]
  <2>3. entry \in OnDisk /\ entry.meta = old.meta /\ entry.files = old.files \cup {<<f, worktree>>}
    BY <1>1, <2>2, WrittenTypes DEF OnDisk
  <2>4. old.meta = None /\ pc[p] = "copy"
    BY <1>1, <1>3 DEF CopyFile, CopyInv
  <2> HIDE DEF entry
  <2>5. Write(p, entry)
    BY <2>1 DEF entry
  <2>6. On(p, current[p])' = entry
    BY <1>1, <2>3, <2>5, Writing DEF On
  <2>7. CopyInv(p)'
    <3> SUFFICES ASSUME Place(current[p]) \notin disturbed[p]
                 PROVE  /\ worktree = current[p].source
                        /\ entry.files \subseteq {<<g, worktree>> : g \in Tree(worktree, current[p])}
      BY <1>1, <2>3, <2>4, <2>6 DEF CopyInv
    <3>1. /\ worktree = current[p].source
          /\ old.files \subseteq {<<g, worktree>> : g \in Tree(worktree, current[p])}
      BY <2>4 DEF CopyInv
    <3> QED
      BY <2>2, <2>3, <3>1
  <2>8. MetaInv(p)'
    BY <1>1, <2>3, <2>4, <2>5, WritingKeepsMeta DEF WritePc
  <2> QED
    BY <2>7, <2>8
<1> QED
  BY <1>2, <1>3

\* Metadata are written when all files are there.
LEMMA MetadataKeepMeta ==
  ASSUME IInv, NEW p \in Project, CopyInv(p), MetaInv(p), WriteMetadata(p)
  PROVE  CopyInv(p)' /\ MetaInv(p)'
<1>1. /\ TypeOK /\ CommandInv(p) /\ pc[p] = "copy" /\ pc'[p] = "install" /\ current[p] \in Item
      /\ On(p, current[p]) \in OnDisk /\ UNCHANGED <<disturbed, torn>>
  BY ItemTypes, PlaceTypes DEF IInv, WriteMetadata, Done, Goto, TypeOK, WritePc
<1>2. current[p].source \in Revision /\ On(p, current[p]).kind = "dir"
  BY <1>1 DEF CommandInv, IsGit
<1> DEFINE old == On(p, current[p])
           entry == [old EXCEPT !.meta = current[p].source]
<1>3. /\ entry \in OnDisk /\ entry.kind = "dir" /\ entry.meta = current[p].source
      /\ entry.files = old.files
  BY <1>1, <1>2, WrittenTypes DEF OnDisk
<1>4. ASSUME Place(current[p]) \notin disturbed[p]
      PROVE  old.files = {<<f, entry.meta>> : f \in Tree(entry.meta, current[p])}
  <2>1. /\ worktree = current[p].source
        /\ old.files \subseteq {<<f, worktree>> : f \in Tree(worktree, current[p])}
    BY <1>1, <1>4 DEF CopyInv
  <2>2. ASSUME NEW f \in Tree(worktree, current[p])
        PROVE  <<f, worktree>> \in old.files
    <3>1. PICK r \in Revision : <<f, r>> \in old.files
      BY <2>2 DEF WriteMetadata, Uncopied
    <3> QED
      BY <2>1, <3>1
  <2> QED
    BY <1>3, <2>1, <2>2
<1> HIDE DEF entry
<1>5. Write(p, entry)
  BY DEF WriteMetadata, entry
<1>6. MetaInv(p)'
  BY <1>1, <1>3, <1>4, <1>5, WritingKeepsMeta DEF WritePc
<1> QED
  BY <1>1, <1>6 DEF CopyInv, WritePc

\* The steps of other projects: one that resets the clone shows.
LEMMA OthersKeepMeta ==
  ASSUME IInv, NEW p \in Project, StepOf(p), NEW q \in Project \ {p}, CopyInv(q), MetaInv(q)
  PROVE  CopyInv(q)' /\ MetaInv(q)'
<1>1. LeavesOthers(p) /\ TypeOK
  BY OthersLeft DEF IInv
<1>2. /\ disturbed[q] \subseteq disturbed'[q]
      /\ pc[q] \in {"mkpath", "copy"} /\ Place(current[q]) \notin disturbed'[q] => worktree' = worktree
  <2>1. CASE Reset(p)
    BY <1>1, <2>1 DEF Reset, TypeOK
  <2>2. CASE ~Reset(p)
    BY <2>2 DEF StepOf, Update, StartInstall, StartClean, Start, Using, NoMetadata, Begin, RemoveFile, RemoveEntry,
       Symlink, Mkpath, CopyFile, NothingToCopy, WriteMetadata, FinishInstall, FinishClean, Crash, Raise
  <2> QED
    BY <2>1, <2>2
<1>3. /\ \A e : On(q, e)' = On(q, e) /\ (IsInstalled(q, e)' <=> IsInstalled(q, e))
      /\ \A d : Removing(q, d)' <=> Removing(q, d)
  BY <1>1 DEF LeavesOthers, On, IsInstalled, Removing
<1>4. CopyInv(q)'
  BY <1>1, <1>2, <1>3 DEF CopyInv, LeavesOthers
<1>5. MetaInv(q)'
  BY <1>1, <1>2, <1>3 DEF MetaInv, LeavesOthers
<1> QED
  BY <1>4, <1>5

\* Every step keeps the metadata truthful.
LEMMA StepKeepsRevisions ==
  ASSUME IInv, RevisionInv, [Next]_vars
  PROVE  RevisionInv'
<1>1. CASE UNCHANGED vars
  BY <1>1 DEF vars, RevisionInv, CopyInv, MetaInv, On, IsInstalled, Removing
<1>2. CASE Next
  <2>1. PICK p \in Project : StepOf(p)
    BY <1>2 DEF Next, StepOf
  <2>2. CopyInv(p) /\ MetaInv(p) /\ TypeOK
    BY DEF RevisionInv, IInv
  <2>3. CopyInv(p)' /\ MetaInv(p)'
    <3>1. CASE \/ Update(p) \/ StartInstall(p) \/ StartClean(p) \/ FinishInstall(p) \/ FinishClean(p)
               \/ NothingToCopy(p)
      <4>1. /\ pc[p] # "remove" /\ pc'[p] \in {"idle", "install", "clean"}
            /\ UNCHANGED <<disk, disturbed, torn>>
        BY <2>2, <3>1 DEF Update, StartInstall, StartClean, Start, FinishInstall, FinishClean,
                          NothingToCopy, Raise, Quit, Goto, TypeOK
      <4> QED
        BY <2>2, <4>1, StayingKeepsMeta
    <3>2. ASSUME NEW e \in todo[p], Using(p, e) \/ NoMetadata(p, e) PROVE CopyInv(p)' /\ MetaInv(p)'
      <4>1. /\ pc[p] # "remove" /\ pc'[p] \in {"idle", "install", "clean"}
            /\ UNCHANGED <<disk, disturbed, torn>>
        BY <2>2, <3>2 DEF Using, NoMetadata, Raise, Quit, Goto, TypeOK
      <4> QED
        BY <2>2, <4>1, StayingKeepsMeta
    <3>3. ASSUME NEW e \in todo[p], Begin(p, e) PROVE CopyInv(p)' /\ MetaInv(p)'
      BY <2>2, <3>3, BeginKeepsMeta
    <3>4. CASE RemoveFile(p) \/ RemoveEntry(p) \/ Crash(p)
      BY <2>2, <3>4, RemovingKeepsMeta, CrashKeepsMeta
    <3>5. CASE Symlink(p) \/ WriteMetadata(p)
      BY <2>2, <3>5, SymlinkKeepsMeta, MetadataKeepMeta
    <3>6. CASE Reset(p) \/ Mkpath(p) \/ CopyFile(p)
      BY <2>2, <3>6, ResetKeepsMeta, CopyingKeepsMeta
    <3> QED
      BY <2>1, <3>1, <3>2, <3>3, <3>4, <3>5, <3>6 DEF StepOf
  <2> QED
    BY <2>1, <2>3, OthersKeepMeta DEF RevisionInv
<1> QED
  BY <1>1, <1>2

\* What the lockfile asks for is not being removed, and so what passes the check is all there.
LEMMA RevisionInvImpliesInstalled == IInv /\ RevisionInv => AvailableIsInstalled
<1> SUFFICES ASSUME IInv, RevisionInv, NEW p \in Project, Available(p), NEW e \in Lockfile(p), IsGit(e),
                    Place(e) \notin disturbed[p] \cup torn[p]
             PROVE  IsInstalled(p, e)
  BY DEF AvailableIsInstalled
<1>1. e \in Item /\ Place(e) \in Gem \X Version /\ On(p, e) = disk[p][Place(e)]
  BY ItemTypes, PlaceTypes DEF IInv
<1>2. On(p, e).meta = e.source /\ e.source # None
  BY SourceAssumption DEF Available, IsGit
<1>3. e = Locked(Place(e), On(p, e).meta)
  BY <1>1, <1>2, PlaceOfEntry
<1>4. ~Removing(p, Place(e))
  <2> SUFFICES ASSUME pc[p] = "remove", Place(current[p]) = Place(e)
               PROVE  FALSE
    BY DEF Removing
  <2>1. /\ TypeOK /\ CommandInv(p) /\ lock[p] = Lockfile(p) /\ current[p] \in OnHand(p)
        /\ On(p, current[p]) = On(p, e)
    BY DEF IInv, CommandInv, OnHand, On
  <2>2. current[p].source # e.source
    BY <1>2, <2>1 DEF RevisionInv, MetaInv
  <2>3. CASE current[p].source = None
    BY <2>1, <2>3 DEF CommandInv, Cleaning
  <2>4. CASE current[p].source # None
    <3>1. current[p] \in Lockfile(p)
      BY <2>1, <2>4 DEF CommandInv, Installing
    <3> QED
      BY <2>1, <2>2, <3>1, OneEntry
  <2> QED
    BY <2>3, <2>4
<1> QED
  BY <1>1, <1>2, <1>3, <1>4 DEF RevisionInv, MetaInv

\* For any lockfiles, one after the other, what passes check_rbs_availability! is on disk
\* with all files of the locked revision, but where a process was killed that removed it,
\* or another project reset the clone: the theorem about Git#_install, load_metadata and
\* Cleaner#clean, which says that these two are all that the check can be wrong for.
THEOREM AvailableIsInstalledAlways == Spec => []AvailableIsInstalled
<1>1. Init => RevisionInv
  BY DEF Init, RevisionInv, CopyInv, MetaInv, Absent, On, WritePc
<1>2. IInv /\ RevisionInv /\ [Next]_vars => RevisionInv'
  BY StepKeepsRevisions
<1> QED
  BY <1>1, <1>2, Invariance, RevisionInvImpliesInstalled, PTL DEF Spec
=============================================================================
