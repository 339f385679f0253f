---------------------------- MODULE PkgDownload -----------------------------
(***************************************************************************)
(* DOWNLOAD_INNER of package/pkg-download.mk: a recipe tries the sites of  *)
(* a file in order, each through an invocation of the wrapper, until one   *)
(* succeeds.  Recipes of several makes share BR2_DL_DIR.                   *)
(***************************************************************************)
EXTENDS DlWrapper

CONSTANTS PkgHashes,  \* what the hash file of the package may be
          Served      \* what each site may deliver

Site == {"primary", "upstream", "backup"}

\* -H is given the hash file of the package.
ASSUME SitesAssumption == PkgHashes \subseteq HashFiles

\* BR2_PRIMARY_SITE_ONLY depends on a primary site and hides the backup one.
\* upstream is "vcs" for a package whose SITE_METHOD has no hashes.
Config == {c \in [primary : BOOLEAN, only : BOOLEAN, backup : BOOLEAN,
                  upstream : {"none", "hashed", "vcs"}, hash : PkgHashes] :
             c.only => c.primary /\ ~c.backup}

VARIABLES conf,   \* the configuration of the build and the package's hashes
          stage   \* the site each recipe is at, or how it ended

vars == <<wvars, conf, stage>>

Ended == {"idle", "ok", "failed", "killed"}

PkgInit ==
  /\ WrapperInit
  /\ conf \in Config
  /\ stage = [p \in Proc |-> "idle"]

\* Mutant: a package with an upstream site is downloaded without its hashes.
OptOf_noHash(s) ==
  [hash |-> IF s = "upstream" THEN NoOption ELSE conf.hash,
   exempt |-> conf.upstream = "vcs"]

\* BR_NO_CHECK_HASH_FOR is exported for the recipe of a VCS package; only the
\* VCS backends are run without -H.
OptOf(s) ==
  [hash   |-> IF s = "upstream" /\ conf.upstream = "vcs" THEN NoOption
              ELSE conf.hash,
   exempt |-> conf.upstream = "vcs"]

Tried(s) ==
  \/ s = "primary" /\ conf.primary
  \/ s = "upstream" /\ ~conf.only /\ conf.upstream # "none"
  \/ s = "backup" /\ ~conf.only /\ conf.backup

\* Mutant: after the last site the recipe starts over.
After_startsOver(s) == CASE s = "primary"  -> <<"upstream", "backup">>
                         [] s = "upstream" -> <<"backup">>
                         [] OTHER          -> <<"primary", "upstream", "backup">>

\* The sites a recipe that is done with s has still to try, in order.
After(s) == CASE s = "primary"  -> <<"upstream", "backup">>
              [] s = "upstream" -> <<"backup">>
              [] s = "backup"   -> << >>
              [] OTHER          -> <<"primary", "upstream", "backup">>

NextSite(s) ==
  LET is == {i \in DOMAIN After(s) : Tried(After(s)[i])}
  IN  IF is = {} THEN "failed" ELSE After(s)[CHOOSE i \in is : \A j \in is : i <= j]

Enter(p, s) ==
  /\ stage' = [stage EXCEPT ![p] = s]
  /\ UNCHANGED conf
  /\ IF s \in Site THEN Launch(p, OptOf(s)) ELSE UNCHANGED wvars

\* make runs the recipe, again if an earlier make has already done so.
Begin(p) ==
  /\ stage[p] \in Ended
  /\ Enter(p, NextSite("start"))

\* The wrapper failed: the shell goes on to the next site.
FallBack(p) ==
  /\ stage[p] \in Site
  /\ pc[p] = "exited" /\ status[p] # "ok"
  /\ Enter(p, NextSite(stage[p]))

\* && exit
Succeed(p) ==
  /\ stage[p] \in Site
  /\ pc[p] = "exited" /\ status[p] = "ok"
  /\ Enter(p, "ok")

\* A step of the wrapper the recipe runs; the backend delivers what the site
\* has to offer.
RunWrapper(p) ==
  /\ stage[p] \in Site
  /\ Step(p)
  /\ pc[p] = "backend" => tmpd'[p] \in {NewDir, NoDir} \/ tmpd'[p].data \in Served[stage[p]]
  /\ UNCHANGED <<conf, stage>>

\* The user interrupts make, and the wrapper with it.
Interrupt(p) ==
  /\ stage[p] \in Site
  /\ Kill(p)
  /\ stage' = [stage EXCEPT ![p] = "killed"]
  /\ UNCHANGED conf

PkgNext ==
  \E p \in Proc : \/ Begin(p) \/ FallBack(p) \/ Succeed(p)
                  \/ RunWrapper(p) \/ Interrupt(p)

PkgSpec ==
  /\ PkgInit /\ [][PkgNext]_vars
  /\ \A p \in Proc : WF_vars(FallBack(p) \/ Succeed(p) \/ RunWrapper(p))

\* A recipe that ends well leaves a file its package's hashes accept, unless
\* a VCS backend without hashes made it.  For one make at a time.
OkMeansHashedFile ==
  \A p \in Proc : (stage[p] = "ok" /\ conf.upstream # "vcs") =>
    output # Absent
    /\ CheckHash(conf.hash, Base, output.data, {}) = 0

\* A recipe ends: no site is tried twice, and no configuration loops.
EveryRecipeEnds == \A p \in Proc : stage[p] \in Site ~> stage[p] \in Ended
=============================================================================
