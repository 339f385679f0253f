----------------------------- MODULE PkgGeneric -----------------------------
(***************************************************************************)
(* The build steps of package/pkg-generic.mk, the stamp files that record  *)
(* them in the build directory of each package, and the single-job GNU     *)
(* make that decides from the stamps which steps to run.  A developer      *)
(* edits sources, runs the package targets and interrupts them.            *)
(***************************************************************************)
EXTENDS Integers, Sequences, FiniteSets

CONSTANTS Pkg,       \* package names
          Deps,      \* FINAL_DEPENDENCIES, as a sequence without repetitions
          Override,  \* packages with an OVERRIDE_SRCDIR (or a local site)
          Patched,   \* packages with patches
          Host,      \* host packages
          Staging,   \* target packages with INSTALL_STAGING = YES
          Images,    \* target packages with INSTALL_IMAGES = YES
          NoTarget,  \* target packages with INSTALL_TARGET = NO
          MaxVer,    \* bound: versions of a source
          MaxFaults, \* bound: failed recipes and interrupts
          HalfClean, \* bound: the packages whose dirclean may be interrupted in its rm
          NewerOnly  \* the developer only saves files newer than before

ASSUME PkgAssumption ==
  /\ Deps \in [Pkg -> Seq(Pkg)] /\ IsFiniteSet(Pkg)
  /\ Override \subseteq Pkg
  /\ Patched \subseteq Pkg \ Override /\ HalfClean \subseteq Pkg
  /\ Staging \cup Images \cup NoTarget \subseteq Pkg \ Host /\ Host \subseteq Pkg
  /\ MaxVer \in Nat \ {0} /\ MaxFaults \in Nat /\ NewerOnly \in BOOLEAN

\* No package depends on itself (support/scripts/graph-depends refuses one that
\* does): each can be given a number above those of its dependencies.
ASSUME AcyclicAssumption ==
  \E n \in [Pkg -> 0 .. Cardinality(Pkg)] :
    \A p \in Pkg : \A i \in DOMAIN Deps[p] : n[Deps[p][i]] < n[p]

Stamp == {"source", "extracted", "patched", "rsynced", "configured", "built",
          "staging", "target", "images", "host"}
Target == Pkg \X Stamp

\* What a step leaves behind: the version of the source it was made from, where
\* Gone is a source whose file was removed.  Torn is what a step leaves that
\* did not end, None stands for nothing at all.
Gone == 0
Torn == -1
None == -2
Value == None .. MaxVer
Whole(v) == v \in Gone .. MaxVer
Place == {"tree", "config", "objects", "staging", "target", "images", "host"}

VARIABLES mirror,   \* the packages whose POST_RSYNC hook runs rsync --delete
          src,      \* version of each source; a later version has a later time
          stamp,    \* modification time of each stamp file, 0 if absent
          art,      \* what is in the build directory and in the install trees
          patches,  \* how far the patches of each tree are applied
          cmd,      \* the command make runs: its kind and its package
          todo,     \* what make has still to do for it
          old,      \* the stamps make has looked at, as it saw them
          made,     \* the targets it has remade
          running,  \* the target whose recipe runs, or Nobody
          faults    \* history: the failures and interrupts so far

vars == <<mirror, src, stamp, art, patches, cmd, todo, old, made, running, faults>>
disk == <<mirror, src, stamp, art, patches>>

Unseen == -1
Nobody == <<"nobody", "none">>
Idle   == [kind |-> "idle", pkg |-> "none"]

-----------------------------------------------------------------------------
\* The dependencies between the stamps.

\* $(1)-install
InstallStamps(p) ==
  IF p \in Host THEN <<"host">>
  ELSE (IF p \in Staging THEN <<"staging">> ELSE << >>)
       \o (IF p \in NoTarget THEN << >> ELSE <<"target">>)
       \o (IF p \in Images THEN <<"images">> ELSE << >>)

Goal(p) == [i \in DOMAIN InstallStamps(p) |-> <<p, InstallStamps(p)[i]>>]

\* The prerequisites whose time counts, in the order make sees them.
Normal(p, s) ==
  CASE s = "target"     -> IF p \in Staging THEN <<"built", "staging">>
                           ELSE <<"built">>
    [] s \in {"staging", "images", "host"} -> <<"built">>
    [] s = "built"      -> <<"configured">>
    [] s = "configured" -> IF p \in Override THEN << >> ELSE <<"patched">>
    [] s = "patched" /\ p \notin Override   -> <<"extracted">>
    [] s = "extracted" /\ p \notin Override -> <<"source">>
    [] OTHER -> << >>
Inputs(p, s) == {Normal(p, s)[i] : i \in DOMAIN Normal(p, s)}

\* The order-only ones: the packages a configure step needs, as their phony
\* $(1)-install, and the sources of an overridden package.
Before(p, s) ==
  IF s # "configured" THEN << >>
  ELSE [i \in DOMAIN Deps[p] |-> <<Deps[p][i], "install">>]
       \o (IF p \in Override THEN <<<<p, "rsynced">>>> ELSE << >>)

Item(op, t) == [op |-> op, t |-> t]
Items(op, ts) == [i \in DOMAIN ts |-> Item(op, ts[i])]

Prerequisites(p, s) ==
  Before(p, s)
    \o [i \in DOMAIN Normal(p, s) |-> <<p, Normal(p, s)[i]>>]

\* Mutant: the sources are not synchronised again.
Cleaned_keepsRsync(p, kind) ==
  <<"staging", "target", "images", "host">>
    \o (IF kind \in {"rebuild", "reconfigure"} THEN <<"built">> ELSE << >>)
    \o (IF kind = "reconfigure" THEN <<"configured">> ELSE << >>)

\* Mutant: a reconfigure patches the tree again.
Cleaned_patched(p, kind) ==
  (IF p \in Override THEN <<"rsynced">> ELSE << >>)
    \o <<"staging", "target", "images", "host">>
    \o (IF kind \in {"rebuild", "reconfigure"} THEN <<"built">> ELSE << >>)
    \o (IF kind = "reconfigure" THEN <<"patched", "configured">> ELSE << >>)

\* What $(1)-clean-for-reinstall, -rebuild and -reconfigure remove, in order.
Cleaned(p, kind) ==
  (IF p \in Override THEN <<"rsynced">> ELSE << >>)
    \o <<"staging", "target", "images", "host">>
    \o (IF kind \in {"rebuild", "reconfigure"} THEN <<"built">> ELSE << >>)
    \o (IF kind = "reconfigure" THEN <<"configured">> ELSE << >>)
-----------------------------------------------------------------------------
\* Recipes: what they read and what they write.

PlaceOf(s) == CASE s \in {"extracted", "rsynced"} -> "tree"
                [] s = "configured" -> "config"
                [] s = "built" -> "objects"
                [] OTHER -> s

\* rsync -au: a file that is not newer than its copy is not copied, and a file
\* removed from the source is not removed from the copy, unless a hook does.
Synced(p) ==
  LET copy == art[p].tree
  IN  IF src[p] = Gone THEN IF copy = None \/ p \in mirror THEN Gone ELSE copy
      ELSE IF src[p] > copy THEN src[p] ELSE copy

Result(p, s) ==
  CASE s = "extracted" -> src[p]
    [] s = "rsynced"   -> Synced(p)
    [] s \in {"configured", "built"} -> art[p].tree
    [] OTHER           -> art[p].objects

\* While a recipe runs, what it makes is torn.  rsync replaces a file in one
\* step, and the download is in another directory.  A recipe that is to stop
\* before its end stops before its first patch or after it.
BeginEffect(p, s) ==
  /\ art' = IF s \in {"source", "rsynced", "patched"} THEN art
            ELSE [art EXCEPT ![p][PlaceOf(s)] = Torn]
  /\ patches' \in {patches} \cup (IF s = "patched" /\ p \in Patched
                                 THEN {[patches EXCEPT ![p] = "some"]} ELSE {})

\* Mutant: the rsync of every package deletes what is not in its sources.
StampsAfter_always(p, s) ==
  IF s = "rsynced" THEN [u \in Stamp |-> 0] ELSE stamp[p]

\* The time stamp files a --delete takes away: all of the package, as none is
\* in its source directory.
StampsAfter(p, s) ==
  IF s = "rsynced" /\ p \in mirror THEN [u \in Stamp |-> 0] ELSE stamp[p]

LatestOf(st) == CHOOSE n \in {st[u] : u \in Stamp} : \A u \in Stamp : st[u] <= n
Touched(st, s) == [st EXCEPT ![s] = LatestOf(st) + 1]

EndEffect(p, s) ==
  /\ art' = IF s \in {"source", "patched"} THEN art
            ELSE [art EXCEPT ![p][PlaceOf(s)] = Result(p, s)]
  /\ patches' = IF s = "patched" /\ p \in Patched
                THEN [patches EXCEPT ![p] = "all"] ELSE patches

\* Only the order of the times within a package matters: between two makes
\* they are numbered from 1.
Renumbered(st) ==
  [s \in Stamp |-> Cardinality({u \in Stamp : 0 < st[u] /\ st[u] <= st[s]})]

-----------------------------------------------------------------------------
Init ==
  /\ mirror \in SUBSET Override
  /\ src = [p \in Pkg |-> 1]
  /\ stamp = [p \in Pkg |-> [s \in Stamp |-> 0]]
  /\ art = [p \in Pkg |-> [x \in Place |-> None]]
  /\ patches = [p \in Pkg |-> "none"]
  /\ cmd = Idle
  /\ todo = << >>
  /\ old = [t \in Target |-> Unseen]
  /\ made = {}
  /\ running = Nobody
  /\ faults = << >>

\* The developer saves another version in the source directory, or removes it.
Edit(p) ==
  /\ cmd = Idle
  /\ p \in Override
  /\ \E v \in (IF NewerOnly THEN src[p] + 1 ELSE Gone) .. MaxVer :
       src' = [src EXCEPT ![p] = v]
  /\ UNCHANGED <<mirror, stamp, art, patches, cmd, todo, old, made, running, faults>>

\* make p, make p-reinstall, make p-rebuild, make p-reconfigure.
Make(p, kind) ==
  /\ cmd = Idle
  /\ cmd' = [kind |-> kind, pkg |-> p]
  /\ todo' = (IF kind = "make" THEN << >>
              ELSE [i \in DOMAIN Cleaned(p, kind) |->
                      Item("rm", <<p, Cleaned(p, kind)[i]>>)])
             \o <<Item("enter", <<p, "install">>)>>
  /\ UNCHANGED <<disk, old, made, running, faults>>

\* make p-dirclean
Dirclean(p) ==
  /\ cmd = Idle
  /\ cmd' = [kind |-> "dirclean", pkg |-> p]
  /\ todo' = <<Item("dirclean", <<p, "source">>)>>
  /\ UNCHANGED <<disk, old, made, running, faults>>

Doing(op, t) == todo # << >> /\ Head(todo) = Item(op, t) /\ running = Nobody

RemoveStamp(p, s) ==
  /\ Doing("rm", <<p, s>>)
  /\ stamp' = [stamp EXCEPT ![p][s] = 0]
  /\ todo' = Tail(todo)
  /\ UNCHANGED <<mirror, src, art, patches, cmd, old, made, running, faults>>

\* rm -Rf $(@D): the build directory; what is installed stays installed.
CleanDir(p) ==
  /\ Doing("dirclean", <<p, "source">>)
  /\ stamp' = [stamp EXCEPT ![p] = [s \in Stamp |-> 0]]
  /\ art' = [art EXCEPT ![p].tree = None, ![p].config = None, ![p].objects = None]
  /\ patches' = [patches EXCEPT ![p] = "none"]
  /\ todo' = Tail(todo)
  /\ UNCHANGED <<mirror, src, cmd, old, made, running, faults>>

\* A phony target is no file: make considers what it stands for.
EnterInstall(p) ==
  /\ Doing("enter", <<p, "install">>)
  /\ todo' = Items("enter", Goal(p)) \o Tail(todo)
  /\ UNCHANGED <<disk, cmd, old, made, running, faults>>

\* make considers a target: it looks at the file once, before anything the
\* target depends on is remade.
Enter(p, s) ==
  /\ Doing("enter", <<p, s>>)
  /\ IF old[<<p, s>>] # Unseen
     THEN todo' = Tail(todo) /\ UNCHANGED old
     ELSE /\ old' = [old EXCEPT ![<<p, s>>] = stamp[p][s]]
          /\ todo' = Items("enter", Prerequisites(p, s))
                     \o <<Item("leave", <<p, s>>)>> \o Tail(todo)
  /\ UNCHANGED <<disk, cmd, made, running, faults>>

\* The file was missing, or a prerequisite that counts is newer or was remade.
MustRemake(p, s) ==
  \/ old[<<p, s>>] = 0
  \/ \E u \in Inputs(p, s) : <<p, u>> \in made \/ old[<<p, u>>] > old[<<p, s>>]

UpToDate(p, s) ==
  /\ Doing("leave", <<p, s>>)
  /\ ~MustRemake(p, s)
  /\ todo' = Tail(todo)
  /\ UNCHANGED <<disk, cmd, old, made, running, faults>>

\* apply-patches.sh keeps a list of the patches but never reads it: it is
\* patch -N that refuses a patch the tree has.
Applies(p, s) == s = "patched" => patches[p] = "none"

\* Mutant: the stamp is touched before the commands of the step.
StartRecipe_touchesFirst(p, s) ==
  /\ Doing("leave", <<p, s>>)
  /\ MustRemake(p, s)
  /\ Applies(p, s)
  /\ running' = <<p, s>>
  /\ BeginEffect(p, s)
  /\ stamp' = [stamp EXCEPT ![p] = Touched(@, s)]
  /\ UNCHANGED <<mirror, src, cmd, todo, old, made, faults>>

StartRecipe(p, s) ==
  /\ Doing("leave", <<p, s>>)
  /\ MustRemake(p, s)
  /\ Applies(p, s)
  /\ running' = <<p, s>>
  /\ BeginEffect(p, s)
  /\ UNCHANGED <<mirror, src, stamp, cmd, todo, old, made, faults>>

\* The recipe ends with the touch of the stamp.
FinishRecipe(p, s) ==
  /\ running = <<p, s>>
  /\ EndEffect(p, s)
  /\ stamp' = [stamp EXCEPT ![p] = Touched(StampsAfter(p, s), s)]
  /\ made' = made \cup {<<p, s>>}
  /\ running' = Nobody
  /\ todo' = Tail(todo)
  /\ UNCHANGED <<mirror, src, cmd, old, faults>>

\* make ends: what it knew of the files is gone.
EndOfMake ==
  /\ cmd' = Idle
  /\ todo' = << >>
  /\ old' = [t \in Target |-> Unseen]
  /\ made' = {}
  /\ running' = Nobody

Succeed ==
  /\ cmd # Idle /\ todo = << >>
  /\ EndOfMake
  /\ stamp' = [p \in Pkg |-> Renumbered(stamp[p])]
  /\ UNCHANGED <<mirror, src, art, patches, faults>>

\* A patch that the tree has already is rejected, and make stops.
PatchRejected(p) ==
  /\ Doing("leave", <<p, "patched">>)
  /\ MustRemake(p, "patched")
  /\ ~Applies(p, "patched")
  /\ EndOfMake
  /\ stamp' = [q \in Pkg |-> Renumbered(stamp[q])]
  /\ UNCHANGED <<mirror, src, art, patches, faults>>

\* A recipe fails or is interrupted: make stops and the stamp is not touched.
\* An rsync may have done its work, and its hook, already.
RecipeFails(p, s) ==
  /\ Len(faults) < MaxFaults
  /\ running = <<p, s>>
  /\ EndOfMake
  /\ \/ /\ stamp' = [q \in Pkg |-> Renumbered(stamp[q])]
        /\ UNCHANGED <<art, patches>>
     \/ /\ s = "rsynced"
        /\ stamp' = [q \in Pkg |->
                       Renumbered(IF q = p THEN StampsAfter(p, s) ELSE stamp[q])]
        /\ EndEffect(p, s)
  /\ faults' = Append(faults, "stop")
  /\ UNCHANGED <<mirror, src>>

\* The user interrupts make between two recipes.
Interrupt ==
  /\ Len(faults) < MaxFaults
  /\ cmd # Idle /\ todo # << >> /\ running = Nobody
  /\ EndOfMake
  /\ stamp' = [q \in Pkg |-> Renumbered(stamp[q])]
  /\ faults' = Append(faults, "stop")
  /\ UNCHANGED <<mirror, src, art, patches>>

\* The interrupt hits rm -Rf when it has removed some of the files.
InterruptClean(p) ==
  /\ p \in HalfClean
  /\ Len(faults) < MaxFaults
  /\ Doing("dirclean", <<p, "source">>)
  /\ EndOfMake
  /\ \E gone \in SUBSET {s \in Stamp : stamp[p][s] # 0} :
       stamp' = [q \in Pkg |->
                  Renumbered([s \in Stamp |-> IF q = p /\ s \in gone THEN 0
                                              ELSE stamp[q][s]])]
  /\ \E x \in {"tree", "config", "objects"} :
       art' = [art EXCEPT ![p][x] = IF @ = None THEN None ELSE Torn]
  /\ faults' = Append(faults, "clean")
  /\ UNCHANGED <<mirror, src, patches>>

MakeStep ==
  \/ Succeed
  \/ \E p \in Pkg :
       \/ CleanDir(p) \/ PatchRejected(p) \/ EnterInstall(p)
       \/ \E s \in Stamp : \/ RemoveStamp(p, s) \/ Enter(p, s) \/ UpToDate(p, s)
                          \/ StartRecipe(p, s) \/ FinishRecipe(p, s)

Developer ==
  \E p \in Pkg :
    \/ Edit(p) \/ Dirclean(p)
    \/ \E kind \in {"make", "reinstall", "rebuild", "reconfigure"} : Make(p, kind)

Fault ==
  \/ Interrupt
  \/ \E p \in Pkg : InterruptClean(p) \/ \E s \in Stamp : RecipeFails(p, s)

Next == Developer \/ MakeStep \/ Fault

Spec == Init /\ [][Next]_vars

-----------------------------------------------------------------------------
\* The steps of a package that come one after the other, each after the stamps
\* of a lower level; and the stamps s is made from, directly or not, and s.
Level == [source |-> 0, extracted |-> 1, patched |-> 2, rsynced |-> 0, configured |-> 3,
          built |-> 4, staging |-> 5, images |-> 5, host |-> 5, target |-> 6]
Chain(p) == (IF p \in Override THEN {} ELSE {"source", "extracted", "patched"})
            \cup {"configured", "built"}
            \cup (IF p \in Staging THEN {"staging"} ELSE {})
Ancestors(p, s) == {s} \cup {u \in Chain(p) : Level[u] < Level[s]}

\* A make that finds the stamps as they are remakes neither s nor anything s
\* is made from.
Settled(p, s) ==
  \A u \in Ancestors(p, s) :
    stamp[p][u] # 0 /\ \A d \in Inputs(p, u) : stamp[p][d] < stamp[p][u]

\* An interrupt has hit the rm of a dirclean.
HalfCleaned == \E i \in DOMAIN faults : faults[i] = "clean"

\* "Buildroot creates so-called stamp files to keep track of which build steps
\* have been completed for each package" (rebuilding-packages.txt:113-114):
\* between two makes, a step that the next one takes for done is done, and
\* what it made is whole; and a tree with all its patches is never patched
\* again.  (A dirclean that was cut short may take the tree and leave stamps.)
StampsAgreeWithTrees ==
  (cmd = Idle /\ ~HalfCleaned) => \A p \in Pkg :
    /\ \A s \in Stamp \ {"source", "patched"} :
         Settled(p, s) => Whole(art[p][PlaceOf(s)])
    /\ p \in Patched => (Settled(p, "patched") <=> patches[p] = "all")

\* The instant at which make ends well.
Success == cmd # Idle /\ cmd.kind # "dirclean" /\ todo = << >>

\* Whatever recipe was interrupted before, a package is only worked on from
\* its configuration on while what its dependencies install is complete
\* (pkg-generic.mk:594-601), and a make that ends well has installed
\* everywhere what it has built.
UsesOnlyWhole ==
  ~HalfCleaned =>
    /\ (running # Nobody /\ running[2] \notin {"source", "extracted", "patched", "rsynced"})
         => \A i \in DOMAIN Deps[running[1]] :
              LET d == Deps[running[1]][i]
              IN  \A j \in DOMAIN InstallStamps(d) : Whole(art[d][InstallStamps(d)[j]])
    /\ Success => \A i \in DOMAIN InstallStamps(cmd.pkg) :
         LET out == art[cmd.pkg][InstallStamps(cmd.pkg)[i]]
         IN  Whole(out) /\ out = art[cmd.pkg].objects

\* "make <pkg>-rebuild all ... will rsync the source code ... and restart the
\* build process of just this package" (using-buildroot-development.txt:61-65):
\* what it installs is the source of the developer, even after a dirclean
\* that was cut short.
RebuildBringsSource ==
  (Success /\ cmd.kind \in {"rebuild", "reconfigure"} /\ cmd.pkg \in Override) =>
    \A i \in DOMAIN InstallStamps(cmd.pkg) :
      art[cmd.pkg][InstallStamps(cmd.pkg)[i]] = src[cmd.pkg]

\* After a make that ends well the next one has nothing to do, whatever target
\* was made: "the '<pkg>-clean-for-rebuild' rule can remove the stamp file
\* without triggering the configure step" (pkg-generic.mk:642-643).  It has for
\* a package whose hook deletes the stamps with everything else that is not
\* in the source directory: the next make configures and builds it again.  (Of
\* a package with nothing to install make makes nothing.)
Made(p) ==
  \A i \in DOMAIN InstallStamps(p) :
    Settled(p, InstallStamps(p)[i]) /\ (p \in Override => stamp[p]["rsynced"] # 0)
NextMakeIsIdle ==
  (Success /\ mirror = {}) =>
    /\ Made(cmd.pkg)
    /\ InstallStamps(cmd.pkg) # << >> =>
         \A i \in DOMAIN Deps[cmd.pkg] : Made(Deps[cmd.pkg][i])
=============================================================================
