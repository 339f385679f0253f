-------------------------- MODULE PkgDownloadProofs -------------------------
(***************************************************************************)
(* Recipes that try one site after the other are invocations of the        *)
(* wrapper, so what DlWrapperProofs shows of these holds across sites and  *)
(* makes; and a recipe that ends well leaves the file its hashes ask for.  *)
(***************************************************************************)
EXTENDS PkgDownload, DlWrapperProofs

PkgTypeOK == conf \in Config /\ stage \in [Proc -> Site \cup Ended]

\* The wrapper that a recipe runs was started for the site the recipe is at.
SiteInv ==
  \A p \in Proc :
    /\ stage[p] \in Site => opt[p] = OptOf(stage[p]) /\ pc[p] # "idle"
    /\ stage[p] \in Ended => pc[p] \in {"idle", "exited"}

PkgIInv == PkgTypeOK /\ IInv /\ SiteInv

\* The next site is one of the sites, or there is none left.
LEMMA NextSiteType ==
  ASSUME NEW s
  PROVE  NextSite(s) \in Site \cup {"failed"}
<1> DEFINE is == {i \in DOMAIN After(s) : Tried(After(s)[i])}
<1>1. DOMAIN After(s) \subseteq 1 .. 3 /\ \A i \in DOMAIN After(s) : After(s)[i] \in Site
  <2>1. CASE s = "primary"
    <3>1. After(s) = <<"upstream", "backup">> BY <2>1, Zenon DEF After
    <3> QED BY <3>1 DEF Site
  <2>2. CASE s = "upstream"
    <3>1. After(s) = <<"backup">> BY <2>2 DEF After
    <3> QED BY <3>1 DEF Site
  <2>3. CASE s = "backup"
    <3>1. After(s) = << >> BY <2>3 DEF After
    <3> QED BY <3>1 DEF Site
  <2>4. CASE s \notin Site
    <3>1. s # "primary" /\ s # "upstream" /\ s # "backup" BY <2>4 DEF Site
    <3>2. After(s) = <<"primary", "upstream", "backup">> BY <3>1 DEF After
    <3> QED BY <3>2 DEF Site
  <2> QED BY <2>1, <2>2, <2>3, <2>4 DEF Site
<1>2. CASE is = {} BY <1>2 DEF NextSite
<1>3. CASE is # {}
  <2>1. is \subseteq 1 .. 3 /\ \A i \in is : After(s)[i] \in Site BY <1>1
  <2>2. \E i \in is : \A j \in is : i <= j
    <3> HIDE DEF is
    <3>1. CASE 1 \in is BY <2>1, <3>1
    <3>0. \A j \in is : j \in Nat /\ (j = 1 \/ j = 2 \/ j = 3) BY <2>1
    <3>2. CASE 1 \notin is /\ 2 \in is
      <4>1. \A j \in is : 2 <= j BY <3>0, <3>2
      <4> QED BY <3>2, <4>1
    <3>3. CASE 1 \notin is /\ 2 \notin is
      <4>1. \A j \in is : j = 3 BY <3>0, <3>3
      <4> QED BY <1>3, <4>1
    <3> QED BY <3>1, <3>2, <3>3
  <2>3. (CHOOSE i \in is : \A j \in is : i <= j) \in is
    <3> HIDE DEF is
    <3> QED BY <2>2
  <2> QED BY <1>3, <2>1, <2>3 DEF NextSite
<1> QED BY <1>2, <1>3

LEMMA OptOfType == ASSUME conf \in Config, NEW s PROVE OptOf(s) \in Opt
BY ConstantsAssumption, SitesAssumption DEF Config, OptOf, Opt

LEMMA InitPkgIInv == PkgInit => PkgIInv
<1> SUFFICES ASSUME PkgInit PROVE PkgIInv OBVIOUS
<1>1. IInv BY InitIInv DEF PkgInit, Init
<1>2. PkgTypeOK /\ SiteInv
  BY DEF PkgInit, WrapperInit, PkgTypeOK, SiteInv, Site, Ended
<1> QED BY <1>1, <1>2 DEF PkgIInv

\* A recipe moves to a site by starting a wrapper for it, or it ends.
LEMMA EnterStep ==
  ASSUME PkgIInv, NEW p \in Proc, NEW s \in Site \cup Ended, Enter(p, s),
         s \in Ended => pc[p] \in {"idle", "exited"}
  PROVE  PkgIInv' /\ [\E q \in Proc, o \in Opt : Launch(q, o)]_wvars
<1>1. PkgTypeOK' BY DEF PkgIInv, PkgTypeOK, Enter
<1>2. CASE s \in Site
  <2>1. OptOf(s) \in Opt /\ Launch(p, OptOf(s))
    BY <1>2, OptOfType DEF PkgIInv, PkgTypeOK, Enter
  <2>2. IInv' BY <2>1, LaunchIInv DEF PkgIInv
  <2>3. SiteInv'
    BY <1>2, <2>1
       DEF PkgIInv, IInv, TypeOK, PkgTypeOK, SiteInv, Enter, Launch, Goto, OptOf,
           Site, Ended
  <2> QED BY <1>1, <2>1, <2>2, <2>3 DEF PkgIInv
<1>3. CASE s \notin Site
  <2>1. UNCHANGED wvars BY <1>3 DEF Enter
  <2>2. IInv'
    BY <2>1 DEF wvars, PkgIInv, IInv, TypeOK, WrapperInv, NeverPartial, Verdict, Lists
  <2>3. SiteInv'
    BY <1>3, <2>1
       DEF wvars, PkgIInv, PkgTypeOK, SiteInv, Enter, OptOf, Site, Ended
  <2> QED BY <1>1, <2>1, <2>2, <2>3 DEF PkgIInv
<1> QED BY <1>2, <1>3

\* A step of a wrapper leaves the other ones and the arguments alone.
LEMMA StepKeeps ==
  ASSUME IInv, NEW p \in Proc, Step(p)
  PROVE  /\ opt' = opt /\ pc[p] \in Running /\ pc'[p] # "idle"
         /\ \A q \in Proc \ {p} : pc'[q] = pc[q]
BY DEF IInv, TypeOK, Step, Goto, Leave, Running, PCs, TestExists, CheckFound,
       RemoveFound, MakeTmpDir, Backend, BackendFails, Verify, Evict,
       MakeTmpOutput, Chmod, CatStarts, CatEnds, CatFails, RemoveBoth,
       RemoveTmpDir, Publish, Exit, MvFails, RemoveTmpOutput, CommandFails, Kill

LEMMA InnerPkgIInv ==
  ASSUME PkgIInv, NEW p \in Proc, RunWrapper(p) \/ Interrupt(p)
  PROVE  PkgIInv' /\ Step(p)
<1>1. Step(p) /\ UNCHANGED conf BY DEF RunWrapper, Interrupt, Step
<1>2. IInv' BY <1>1, StepIInv DEF PkgIInv
<1>3. /\ opt' = opt /\ pc'[p] # "idle" /\ \A q \in Proc \ {p} : pc'[q] = pc[q]
  BY <1>1, StepKeeps DEF PkgIInv
<1>4. CASE RunWrapper(p)
  <2>1. stage' = stage /\ stage[p] \in Site BY <1>4 DEF RunWrapper
  <2> QED
    BY <1>1, <1>2, <1>3, <2>1
       DEF PkgIInv, PkgTypeOK, SiteInv, OptOf, Site, Ended
<1>5. CASE Interrupt(p)
  <2>1. stage' = [stage EXCEPT ![p] = "killed"] BY <1>5 DEF Interrupt
  <2>2. pc'[p] = "exited"
    BY <1>5 DEF Interrupt, Kill, Leave, Goto, PkgIInv, IInv, TypeOK
  <2> QED
    BY <1>1, <1>2, <1>3, <2>1, <2>2
       DEF PkgIInv, PkgTypeOK, SiteInv, OptOf, Site, Ended
<1> QED BY <1>1, <1>4, <1>5

\* Every step of the recipes keeps the invariant, and is a step of the
\* invocations they run, or none.
LEMMA NextPkgIInv ==
  ASSUME PkgIInv, [PkgNext]_vars
  PROVE  PkgIInv' /\ [Next]_wvars
<1>1. CASE UNCHANGED vars
  <2>1. UNCHANGED <<wvars, conf, stage>> BY <1>1 DEF vars
  <2> QED
    BY <2>1 DEF wvars, PkgIInv, IInv, TypeOK, WrapperInv, NeverPartial, Verdict,
                Lists, PkgTypeOK, SiteInv, OptOf
<1>2. ASSUME NEW p \in Proc, Begin(p) PROVE PkgIInv' /\ [Next]_wvars
  <2>1. NextSite("start") \in Site \cup {"failed"} BY NextSiteType
  <2>2. pc[p] \in {"idle", "exited"} BY <1>2 DEF Begin, PkgIInv, SiteInv
  <2> QED BY <1>2, <2>1, <2>2, EnterStep DEF Begin, Ended, Next
<1>3. ASSUME NEW p \in Proc, FallBack(p) PROVE PkgIInv' /\ [Next]_wvars
  <2>1. NextSite(stage[p]) \in Site \cup {"failed"} BY NextSiteType
  <2> QED BY <1>3, <2>1, EnterStep DEF FallBack, Ended, Next
<1>4. ASSUME NEW p \in Proc, Succeed(p) PROVE PkgIInv' /\ [Next]_wvars
  BY <1>4, EnterStep DEF Succeed, Ended, Next
<1>5. ASSUME NEW p \in Proc, RunWrapper(p) \/ Interrupt(p)
      PROVE  PkgIInv' /\ [Next]_wvars
  BY <1>5, InnerPkgIInv DEF Next
<1> QED BY <1>1, <1>2, <1>3, <1>4, <1>5 DEF PkgNext

\* Recipes of any number of makes keep the variables of the wrapper well
\* formed, a partial or unchecked file away from the final name, and each
\* wrapper that a recipe runs is the one for the site the recipe is at.
THEOREM RecipeInvariant == PkgSpec => [](PkgTypeOK /\ TypeOK /\ WrapperInv /\ SiteInv)
<1>1. PkgIInv /\ [PkgNext]_vars => PkgIInv' BY NextPkgIInv
<1>2. PkgIInv <=> PkgTypeOK /\ TypeOK /\ WrapperInv /\ SiteInv BY DEF PkgIInv, IInv
<1> QED BY InitPkgIInv, <1>1, <1>2, PTL DEF PkgSpec

LEMMA RecipeAlways == PkgSpec => []PkgIInv
<1>1. PkgIInv /\ [PkgNext]_vars => PkgIInv' BY NextPkgIInv
<1> QED BY InitPkgIInv, <1>1, PTL DEF PkgSpec

\* Seen from make and from the readers of BR2_DL_DIR, recipes are requests to
\* the abstract store: the file is only ever evicted or replaced by a whole
\* content that the hash file of that invocation accepts, across all sites,
\* whatever fails and whoever is interrupted.
THEOREM RecipesImplementStore == PkgSpec => ImplementsStore
<1>1. PkgInit => Store!Init
  BY DEF PkgInit, WrapperInit, Store!Init, Absent, NoOption, Store!NoOption
<1>2. ASSUME IInv, [Next]_wvars PROVE [Store!Next]_(Store!vars)
  <2>1. ASSUME NEW p \in Proc, NEW o \in Opt, Launch(p, o) PROVE Store!Next
    BY <1>2, <2>1, LaunchAsks DEF Store!Next, Opt, Store!Request
  <2>2. CASE UNCHANGED wvars BY <2>2 DEF wvars, Store!vars
  <2> QED BY <1>2, <2>1, <2>2, StepRefines DEF Next
<1>3. PkgIInv /\ [PkgNext]_vars => [Store!Next]_(Store!vars)
  BY <1>2, NextPkgIInv DEF PkgIInv
<1> QED BY <1>1, <1>3, RecipeAlways, PTL DEF PkgSpec, ImplementsStore, Store!Spec
-----------------------------------------------------------------------------
\* One make at a time.

\* A recipe that has ended well has left the file its package's hashes accept.
OkInv ==
  \A p \in Proc : (stage[p] = "ok" /\ conf.upstream # "vcs") =>
    output # Absent /\ CheckHash(conf.hash, Base, output.data, {}) = 0

LEMMA NextOkInv ==
  ASSUME Alone, PkgIInv, AloneInv, OkInv, [PkgNext]_vars
  PROVE  OkInv'
<1>1. CASE UNCHANGED vars
  <2>1. UNCHANGED <<output, conf, stage>> BY <1>1 DEF vars, wvars
  <2> QED BY <2>1 DEF OkInv
<1>2. ASSUME NEW p \in Proc, Succeed(p) PROVE OkInv'
  <2>1. UNCHANGED <<output, conf>> /\ stage[p] \in Site /\ status[p] = "ok"
    BY <1>2 DEF Succeed, Enter, Site, wvars
  <2>2. output # Absent /\ Verdict(opt[p], output.data) = 0
    BY <2>1 DEF AloneInv
  <2>3. opt[p] = OptOf(stage[p]) BY <2>1 DEF PkgIInv, SiteInv
  <2>4. conf.upstream # "vcs" => opt[p] = [hash |-> conf.hash, exempt |-> FALSE]
    BY <2>3 DEF OptOf
  <2>5. conf.upstream # "vcs" => CheckHash(conf.hash, Base, output.data, {}) = 0
    BY <2>2, <2>4 DEF Verdict
  <2> QED BY <2>1, <2>2, <2>5 DEF OkInv, Alone
<1>3. ASSUME NEW p \in Proc, NEW s \in Site \cup {"failed"}, Enter(p, s)
      PROVE  OkInv'
  <2>1. stage'[p] # "ok" BY <1>3 DEF Enter, PkgIInv, PkgTypeOK, Site
  <2> QED BY <2>1 DEF OkInv, Alone
<1>4. ASSUME NEW p \in Proc, RunWrapper(p) \/ Interrupt(p) PROVE OkInv'
  <2>1. stage'[p] # "ok"
    BY <1>4 DEF RunWrapper, Interrupt, PkgIInv, PkgTypeOK, Site
  <2> QED BY <2>1 DEF OkInv, Alone
<1> QED
  BY <1>1, <1>2, <1>3, <1>4, NextSiteType DEF PkgNext, Begin, FallBack

LEMMA NextAloneInv ==
  ASSUME Alone, IInv, AloneInv, [Next]_wvars
  PROVE  AloneInv'
<1>1. ASSUME NEW p \in Proc, NEW o \in Opt, Launch(p, o) PROVE AloneInv'
  BY <1>1 DEF Alone, IInv, TypeOK, AloneInv, Launch, Goto, Verdict
<1>2. CASE UNCHANGED wvars BY <1>2 DEF wvars, AloneInv, Verdict
<1> QED BY <1>1, <1>2, AloneStep DEF Next

LEMMA RecipeAlone ==
  ASSUME Alone
  PROVE  PkgSpec => [](AloneInv /\ OkInv)
<1>1. PkgInit => AloneInv /\ OkInv
  BY DEF PkgInit, WrapperInit, AloneInv, OkInv
<1>2. PkgIInv /\ AloneInv /\ OkInv /\ [PkgNext]_vars => (AloneInv /\ OkInv)'
  BY NextPkgIInv, NextAloneInv, NextOkInv DEF PkgIInv
<1> QED BY <1>1, <1>2, RecipeAlways, PTL DEF PkgSpec

\* A recipe that ends well, with no other make around, leaves a file that the
\* hashes of its package accept, whichever site it came from, unless a version
\* control backend without hashes made it.
THEOREM AloneOkMeansHashed ==
  ASSUME Alone
  PROVE  PkgSpec => []OkMeansHashedFile
<1>1. OkInv => OkMeansHashedFile BY DEF OkInv, OkMeansHashedFile
<1> QED BY <1>1, RecipeAlone, PTL

\* So does a wrapper that reports success to its recipe.
THEOREM AloneRecipeSuccess ==
  ASSUME Alone
  PROVE  PkgSpec => []SuccessMeansFile
<1>1. AloneInv => SuccessMeansFile BY DEF AloneInv, SuccessMeansFile
<1> QED BY <1>1, RecipeAlone, PTL
=============================================================================
