-------------------------- MODULE CollectionInstall --------------------------
(***************************************************************************)
(* `rbs collection install` and `clean` on disk (lib/rbs/collection).      *)
(* Every project has a lockfile and a collection directory with one entry  *)
(* per gem and version: a symbolic link to a local source, or a copy of    *)
(* files out of a git source with a `.rbs_meta.yaml` that says which       *)
(* revision they are.  The clone of a git source is one directory under    *)
(* ~/.cache/rbs that all projects share, and its working tree is what gets *)
(* copied.  One step is one file operation; a process may die between any  *)
(* two.                                                                    *)
(*                                                                         *)
(* There is one git source, and its clone has every revision (setup!).  So *)
(* of a `.rbs_meta.yaml` only the revision can differ from what is wanted. *)
(* A project runs one command at a time, and its lockfile changes between  *)
(* commands.                                                               *)
(***************************************************************************)
EXTENDS Naturals, Sequences, FiniteSets

CONSTANTS Project, Gem, Version, File,
          Revision,     \* the commits of the git source
          Path,         \* the directories of local sources
          Contents,     \* the <<gem, version, file>> triples in each revision's tree
          Lockfiles,    \* the lockfiles a project goes through, one after the other
          MaxCrashes,   \* bound: processes that are killed
          None          \* no metadata, no entry, no lockfile, no source to write

Entry == [gem : Gem, version : Version, source : Revision \cup Path]

ASSUME SourceAssumption == Revision \cap Path = {} /\ None \notin Revision \cup Path
ASSUME ContentsAssumption == Contents \in [Revision -> SUBSET (Gem \X Version \X File)]
ASSUME LockfileAssumption ==
  /\ Lockfiles \in Seq(SUBSET Entry) /\ Lockfiles # <<>>
  /\ \A i \in DOMAIN Lockfiles :
       /\ Lockfiles[i] # None
       /\ \A e, f \in Lockfiles[i] : e.gem = f.gem => e = f

VARIABLES worktree,   \* the revision checked out in the shared clone
          disturbed,  \* history: the places that a project copied to while another
                      \* one reset the clone to a different revision
          torn,       \* history: the places where a process was killed that removed
                      \* what was there
          disk,       \* what every project has at <gem>/<version>
          at,         \* which of the Lockfiles a project has
          pc,         \* where a project's command is
          lock,       \* the lockfile it read when it started
          todo,       \* the entries it has left
          current,    \* the entry it is on
          installed,  \* history: the lockfile of the last install, if that reached its
                      \* end and the lockfile has not changed since
          raised,     \* history: a command of the project raised an exception
          crashes

vars == <<worktree, disturbed, torn, disk, at, pc, lock, todo, current, installed, raised, crashes>>

Absent == [kind |-> "absent", target |-> None, files |-> {}, meta |-> None]
Link(path) == [kind |-> "link", target |-> path, files |-> {}, meta |-> None]
EmptyDir == [kind |-> "dir", target |-> None, files |-> {}, meta |-> None]

\* The files under gems/<gem>/<version> in the tree of a revision, but for those
\* whose name starts with `_`.
Tree(revision, e) == {f \in File : <<e.gem, e.version, f>> \in Contents[revision]}

IsGit(e) == e.source \in Revision

\* Git#has? asks the revision's tree, not the working tree; Local#has? the directory.
Has(e) == IsGit(e) => Tree(e.source, e) # {}

Lockfile(p) == Lockfiles[at[p]]

Place(e) == <<e.gem, e.version>>
On(p, e) == disk[p][Place(e)]

-----------------------------------------------------------------------------

Init ==
  /\ worktree \in Revision
  /\ disturbed = [p \in Project |-> {}]
  /\ torn = [p \in Project |-> {}]
  /\ disk = [p \in Project |-> [d \in Gem \X Version |-> Absent]]
  /\ at = [p \in Project |-> 1]
  /\ pc = [p \in Project |-> "idle"]
  /\ lock = [p \in Project |-> {}]
  /\ todo = [p \in Project |-> {}]
  /\ current = [p \in Project |-> None]
  /\ installed = [p \in Project |-> None]
  /\ raised = [p \in Project |-> FALSE]
  /\ crashes = 0

Goto(p, label) == pc' = [pc EXCEPT ![p] = label]

Write(p, entry) == disk' = [disk EXCEPT ![p][Place(current[p])] = entry]

\* The command ends, and the process with its memory is gone.
Quit(p) ==
  /\ Goto(p, "idle")
  /\ lock' = [lock EXCEPT ![p] = {}]
  /\ todo' = [todo EXCEPT ![p] = {}]
  /\ current' = [current EXCEPT ![p] = None]

\* The developer, or a version control system, replaces the lockfile.
Update(p) ==
  /\ pc[p] = "idle" /\ at[p] < Len(Lockfiles)
  /\ at' = [at EXCEPT ![p] = @ + 1]
  /\ installed' = [installed EXCEPT ![p] = None]
  /\ UNCHANGED <<worktree, disturbed, torn, disk, pc, lock, todo, current, raised, crashes>>

Start(p, label, entries) ==
  /\ pc[p] = "idle"
  /\ Goto(p, label)
  /\ lock' = [lock EXCEPT ![p] = Lockfile(p)]
  /\ todo' = [todo EXCEPT ![p] = entries]
  /\ UNCHANGED <<worktree, disturbed, torn, disk, at, current, raised, crashes>>

\* A mutant of StartClean: only the gems of local sources are needed.
StartCleanOfGitGems(p) ==
  /\ LET Needed == {Place(e) : e \in {n \in Lockfile(p) : ~IsGit(n)}}
         Present == {d \in Gem \X Version : disk[p][d].kind # "absent"}
     IN  Start(p, "clean", {[gem |-> d[1], version |-> d[2], source |-> None] :
                              d \in Present \ Needed})
  /\ UNCHANGED installed

\* Installer#install_from_lockfile selects the gems that their source has.
StartInstall(p) ==
  /\ Start(p, "install", {e \in Lockfile(p) : Has(e)})
  /\ installed' = [installed EXCEPT ![p] = None]

\* Cleaner#clean globs the entries; Cleaner#needed? looks at the version only.
StartClean(p) ==
  /\ LET Needed == {Place(e) : e \in Lockfile(p)}
         Present == {d \in Gem \X Version : disk[p][d].kind # "absent"}
     IN  Start(p, "clean", {[gem |-> d[1], version |-> d[2], source |-> None] :
                              d \in Present \ Needed})
  /\ UNCHANGED installed

-----------------------------------------------------------------------------
(* One gem: Git#install and Local#install, Cleaner#clean's loop body.      *)

\* The gem is there: a link to the right directory, or metadata as wanted.
UpToDate(p, e) ==
  IF IsGit(e) THEN On(p, e).kind = "dir" /\ On(p, e).meta = e.source
              ELSE On(p, e) = Link(e.source)

Using(p, e) ==
  /\ pc[p] = "install" /\ e \in todo[p]
  /\ UpToDate(p, e)
  /\ todo' = [todo EXCEPT ![p] = @ \ {e}]
  /\ UNCHANGED <<worktree, disturbed, torn, disk, at, pc, lock, current, installed, raised, crashes>>

Raise(p) ==
  /\ raised' = [raised EXCEPT ![p] = TRUE]
  /\ Quit(p)
  /\ UNCHANGED <<worktree, disturbed, torn, disk, at, installed, crashes>>

\* Git#load_metadata: the directory has no `.rbs_meta.yaml`.
NoMetadata(p, e) ==
  /\ pc[p] = "install" /\ e \in todo[p]
  /\ IsGit(e) /\ On(p, e).kind = "dir" /\ On(p, e).meta = None
  /\ Raise(p)

\* What is there, if anything, has to go first.
Begin(p, e) ==
  /\ pc[p] \in {"install", "clean"} /\ e \in todo[p]
  /\ pc[p] = "install" => /\ ~UpToDate(p, e)
                          /\ IsGit(e) /\ On(p, e).kind = "dir" => On(p, e).meta # None
  /\ Goto(p, IF On(p, e).kind = "absent" THEN "write" ELSE "remove")
  /\ todo' = [todo EXCEPT ![p] = @ \ {e}]
  /\ current' = [current EXCEPT ![p] = e]
  /\ UNCHANGED <<worktree, disturbed, torn, disk, at, lock, installed, raised, crashes>>

\* FileUtils.remove_entry_secure on its way through a directory.
RemoveFile(p) ==
  /\ pc[p] = "remove"
  /\ LET old == On(p, current[p])
     IN  \/ \E f \in old.files : Write(p, [old EXCEPT !.files = @ \ {f}])
         \/ old.meta # None /\ Write(p, [old EXCEPT !.meta = None])
  /\ UNCHANGED <<worktree, disturbed, torn, at, pc, lock, todo, current, installed, raised, crashes>>

\* rmdir, or the unlink of a link.
RemoveEntry(p) ==
  /\ pc[p] = "remove"
  /\ On(p, current[p]).files = {} /\ On(p, current[p]).meta = None
  /\ Write(p, Absent)
  /\ IF current[p].source = None
       THEN Goto(p, "clean") /\ current' = [current EXCEPT ![p] = None]
       ELSE Goto(p, "write") /\ UNCHANGED current
  /\ torn' = [torn EXCEPT ![p] = @ \ {Place(current[p])}]
  /\ UNCHANGED <<worktree, disturbed, at, lock, todo, installed, raised, crashes>>

Done(p) == Goto(p, "install") /\ current' = [current EXCEPT ![p] = None]

\* Local#_install
Symlink(p) ==
  /\ pc[p] = "write" /\ ~IsGit(current[p])
  /\ Write(p, Link(current[p].source))
  /\ Done(p)
  /\ UNCHANGED <<worktree, disturbed, torn, at, lock, todo, installed, raised, crashes>>

\* Git#_install: `git reset --hard` in the shared clone.
Reset(p) ==
  /\ pc[p] = "write" /\ IsGit(current[p])
  /\ worktree' = current[p].source
  /\ LET Disturbs(q) == pc[q] \in {"mkpath", "copy"} /\ worktree # current[p].source
     IN  disturbed' = [q \in Project |->
                         CASE q = p -> disturbed[p] \ {Place(current[p])}
                           [] q # p /\ Disturbs(q) -> disturbed[q] \cup {Place(current[q])}
                           [] OTHER -> disturbed[q]]
  /\ Goto(p, "mkpath")
  /\ UNCHANGED <<torn, disk, at, lock, todo, current, installed, raised, crashes>>

Mkpath(p) ==
  /\ pc[p] = "mkpath"
  /\ Write(p, EmptyDir)
  /\ Goto(p, "copy")
  /\ UNCHANGED <<worktree, disturbed, torn, at, lock, todo, current, installed, raised, crashes>>

\* The files of the working tree, as it is now, that cp_r has not copied yet.
Uncopied(p) ==
  {f \in Tree(worktree, current[p]) :
     \A r \in Revision : <<f, r>> \notin On(p, current[p]).files}

CopyFile(p) ==
  /\ pc[p] = "copy"
  /\ \E f \in Uncopied(p) :
       Write(p, [On(p, current[p]) EXCEPT !.files = @ \cup {<<f, worktree>>}])
  /\ UNCHANGED <<worktree, disturbed, torn, at, pc, lock, todo, current, installed, raised, crashes>>

\* Find.find: the directory is not in the working tree.
NothingToCopy(p) ==
  /\ pc[p] = "copy"
  /\ Tree(worktree, current[p]) = {} /\ On(p, current[p]).files = {}
  /\ Raise(p)

\* A mutant of WriteMetadata: it is written before the last file is there.
WriteMetadataEarly(p) ==
  /\ pc[p] = "copy"
  /\ On(p, current[p]).files # {}
  /\ Write(p, [On(p, current[p]) EXCEPT !.meta = current[p].source])
  /\ Done(p)
  /\ UNCHANGED <<worktree, disturbed, torn, at, lock, todo, installed, raised, crashes>>

\* The metadata says what was asked for, not what was copied.
WriteMetadata(p) ==
  /\ pc[p] = "copy"
  /\ Uncopied(p) = {} /\ On(p, current[p]).files # {}
  /\ Write(p, [On(p, current[p]) EXCEPT !.meta = current[p].source])
  /\ Done(p)
  /\ UNCHANGED <<worktree, disturbed, torn, at, lock, todo, installed, raised, crashes>>

-----------------------------------------------------------------------------

FinishInstall(p) ==
  /\ pc[p] = "install" /\ todo[p] = {}
  /\ installed' = [installed EXCEPT ![p] = lock[p]]
  /\ Quit(p)
  /\ UNCHANGED <<worktree, disturbed, torn, disk, at, raised, crashes>>

FinishClean(p) ==
  /\ pc[p] = "clean" /\ todo[p] = {}
  /\ Quit(p)
  /\ UNCHANGED <<worktree, disturbed, torn, disk, at, installed, raised, crashes>>

Crash(p) ==
  /\ pc[p] # "idle" /\ crashes < MaxCrashes
  /\ crashes' = crashes + 1
  /\ torn' = IF pc[p] = "remove" THEN [torn EXCEPT ![p] = @ \cup {Place(current[p])}] ELSE torn
  /\ Quit(p)
  /\ UNCHANGED <<worktree, disturbed, disk, at, installed, raised>>

Next ==
  \E p \in Project :
    \/ Update(p) \/ StartInstall(p) \/ StartClean(p)
    \/ \E e \in todo[p] : Using(p, e) \/ NoMetadata(p, e) \/ Begin(p, e)
    \/ RemoveFile(p) \/ RemoveEntry(p)
    \/ Symlink(p) \/ Reset(p) \/ Mkpath(p) \/ CopyFile(p) \/ NothingToCopy(p)
    \/ WriteMetadata(p) \/ FinishInstall(p) \/ FinishClean(p) \/ Crash(p)

Spec == Init /\ [][Next]_vars

-----------------------------------------------------------------------------

\* Lockfile#check_rbs_availability! does not raise.
Available(p) ==
  \A e \in Lockfile(p) : IF IsGit(e) THEN On(p, e).meta = e.source
                                     ELSE On(p, e).kind = "link"

\* The locked revision of a gem is on disk, all files of it and none of another.
IsInstalled(p, e) == On(p, e).files = {<<f, e.source>> : f \in Tree(e.source, e)}

\* When check_rbs_availability! passes, every git gem's directory has the files
\* of the locked revision: it "ensures if `git` sources are set up correctly"
\* (sig/collection/config/lockfile.rbs:64), though all it reads is the metadata.
\* Two things get in the way, and nothing else, whatever lockfiles a project goes
\* through: another project resets the clone while the gem is copied (git.rb:90), and a
\* kill while the directory was removed (git.rb:63, local.rb:47, cleaner.rb:22) left the metadata
\* there with some of the files, for a lockfile that goes back to that revision.
AvailableIsInstalled ==
  \A p \in Project : Available(p) =>
    \A e \in Lockfile(p) :
      IsGit(e) /\ Place(e) \notin disturbed[p] \cup torn[p] => IsInstalled(p, e)

\* "Ensures if `git` sources are set up correctly" (sig/collection/config/lockfile.rbs:64),
\* whatever was killed.
AvailableIsInstalledAfterKills ==
  \A p \in Project : Available(p) =>
    \A e \in Lockfile(p) : IsGit(e) /\ Place(e) \notin disturbed[p] => IsInstalled(p, e)

\* After an install that reached its end the gems of its lockfile are available
\* until the lockfile changes: no clean in between, finished or killed, takes them away.
InstallMakesAvailable ==
  \A p \in Project :
    installed[p] = Lockfile(p) /\ (\A e \in Lockfile(p) : Has(e)) => Available(p)

\* CollectionNotAvailable tells the user to "Run `rbs collection install` to
\* install RBSs from collection" (lib/rbs/collection/config.rb:12): running it
\* works, whatever happened to an earlier run.
InstallCanBeRun == \A p \in Project : ~raised[p]
=============================================================================
