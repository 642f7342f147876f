------------------------ MODULE ExtractSourcesProofs -------------------------
(***************************************************************************)
(* For any releases, overrides and submodules, runs cut short anywhere and *)
(* any number of times: bazel builds what is pinned unless the workspace   *)
(* is spoilt, and a run that says it is done has left one build behind.    *)
(***************************************************************************)
EXTENDS ExtractSources, TLAPS

Trees == {NoTree} \cup [ref : Refs, whole : BOOLEAN]

Places ==
  {"idle", "prepare", "remove", "fetch", "verify", "unpack", "stamp", "overrides",
   "relock", "probe", "check", "sync", "generate", "prune", "lists"}

\* The places a run gets to with a tree it trusts.
Trusting ==
  {"overrides", "relock", "probe", "check", "sync", "generate", "prune", "lists"}

\* The places after the build.
Vendoring == {"check", "sync", "generate", "prune", "lists"}

Types ==
  /\ config \in Configs /\ cfg \in Configs
  /\ tree \in Trees
  /\ stamp \in Refs \cup {None}
  /\ module \in Overrides \cup {None}
  /\ lock \in Builds \cup {None}
  /\ outputs \in [Names -> Builds \cup {None}]
  /\ DOMAIN heads = Modules
  /\ gen \in [Names -> Builds \cup {None}]
  /\ lists \in [Modules -> Builds \cup {None}]
  /\ pc \in Places

\* True whatever was spoilt: stamp and lock are for the release of the tree, and
\* go with it.
Matching ==
  /\ tree = NoTree => stamp = None /\ module = None /\ lock = None
  /\ stamp # None => tree.ref = stamp
  /\ lock # None => tree.ref = lock.ref
  /\ pc \in {"fetch", "verify", "unpack"} => tree = NoTree
  /\ pc = "remove" => tree # NoTree
  /\ pc = "stamp" =>
       tree = [ref |-> cfg.build.ref, whole |-> TRUE] /\ module = None /\ lock = None
  /\ pc \in Trusting => stamp = cfg.build.ref
  /\ pc \in Trusting \ {"overrides"} => module = cfg.build.overrides

\* True of a workspace that is not spoilt: a tree with a stamp is whole, and the
\* lock was made for MODULE.bazel as it is.
Unspoilt ==
  ~spoilt =>
    /\ stamp # None => tree.whole
    /\ lock # None /\ pc # "relock" => lock.overrides = module

\* How far the files of the crate are those of the build.
Progress ==
  /\ pc \in Vendoring =>
       /\ lock \in Builds
       /\ \A n \in GenOf[lock] : outputs[n] = lock
  /\ pc \in {"sync", "generate", "prune", "lists"} =>
       \A s \in Modules : heads[s] = Pin[lock][s] \/ (pc = "sync" /\ s \in todo)
  /\ pc \in {"generate", "prune", "lists"} =>
       \A n \in Written : gen[n] = outputs[n] \/ (pc = "generate" /\ n \in todo)
  /\ pc \in {"prune", "lists"} =>
       \A n \in Names \ Written : gen[n] = None \/ (pc = "prune" /\ n \in todo)
  /\ pc = "prune" => todo \cap Written = {}
  /\ pc = "lists" => \A s \in Modules : lists[s] = lock \/ s \in todo

IInv ==
  /\ Types
  /\ Matching
  /\ Unspoilt
  /\ Progress
  /\ outcome = "done" => pc = "idle"
  /\ DoneIsCoherent

-----------------------------------------------------------------------------
(* The data.                                                               *)

LEMMA ConfigData ==
  ASSUME NEW c \in Configs
  PROVE  /\ c.build \in Builds /\ c.build.ref \in Refs /\ c.build.overrides \in Overrides
         /\ c.build = [ref |-> c.build.ref, overrides |-> c.build.overrides]
         /\ c.build.ref # None /\ c.build.overrides # None
  BY ExtractAssumption DEF Builds

LEMMA TreeData ==
  /\ \A x \in Trees : x # NoTree => x.ref \in Refs /\ x.whole \in BOOLEAN
  /\ \A x \in Trees : x.whole => x # NoTree
  /\ \A r \in Refs, w \in BOOLEAN :
       [ref |-> r, whole |-> w] \in Trees /\ [ref |-> r, whole |-> w] # NoTree
  BY ExtractAssumption DEF Trees, NoTree

LEMMA BuildData ==
  /\ None \notin Builds /\ None \notin Refs /\ None \notin Overrides
  /\ \A b \in Builds : b.ref \in Refs /\ b.overrides \in Overrides
                       /\ b = [ref |-> b.ref, overrides |-> b.overrides]
  /\ \A r \in Refs, o \in Overrides : [ref |-> r, overrides |-> o] \in Builds
  /\ \A b \in Builds : GenOf[b] \subseteq Names
<1>1. \A b \in Builds : b.ref \in Refs /\ b.overrides \in Overrides
                        /\ b = [ref |-> b.ref, overrides |-> b.overrides]
  BY DEF Builds
<1>2. \A r \in Refs, o \in Overrides : [ref |-> r, overrides |-> o] \in Builds
  BY DEF Builds
<1> QED BY <1>1, <1>2, ExtractAssumption

LEMMA WrittenData == Types /\ lock \in Builds => Written \subseteq Names
  BY BuildData, ExtractAssumption DEF Written, Types

-----------------------------------------------------------------------------
(* The steps.                                                              *)

LEMMA InitHolds == Init => IInv
  BY ExtractAssumption
  DEF Init, IInv, Types, Trees, NoTree, Places, Matching, Trusting, Unspoilt, Progress,
      Vendoring, DoneIsCoherent

\* The steps that stay out of the crate, and of the build.
LEMMA PrepareKeeps ==
  ASSUME IInv,
         \/ Start \/ Prepare \/ Remove \/ Fetch \/ Verify \/ Unpack \/ Stamp
         \/ Override \/ Relock
  PROVE  IInv'
<1> USE BuildData, TreeData
<1> USE DEF IInv, Goto, Raise, maintainer, past, crate, workspace
<1>1. cfg.build \in Builds /\ cfg.build.ref \in Refs /\ cfg.build.overrides \in Overrides
      /\ config.build \in Builds
  BY ConfigData DEF Types
<1>2. pc' \notin Vendoring /\ outcome' # "done"
  BY DEF Start, Prepare, Remove, Fetch, Verify, Unpack, Stamp, Override, Relock, Vendoring
<1>3. Progress' /\ (outcome' = "done" => pc' = "idle") /\ DoneIsCoherent'
  BY <1>2 DEF Progress, Vendoring, DoneIsCoherent
<1>4. CASE Start
  BY <1>3, <1>4 DEF Start, Types, Places, Matching, Trusting, Unspoilt
<1>5. CASE Prepare
  BY <1>1, <1>3, <1>5 DEF Prepare, Types, Places, Matching, Trusting, Unspoilt
<1>6. CASE Remove
  BY <1>3, <1>6 DEF Remove, Types, Trees, Places, Matching, Trusting, Unspoilt
<1>7. CASE Fetch
  BY <1>3, <1>7 DEF Fetch, Types, Places, Matching, Trusting, Unspoilt
<1>8. CASE Verify
  BY <1>3, <1>8 DEF Verify, Types, Places, Matching, Trusting, Unspoilt
<1>9. CASE Unpack
  <2>1. stamp = None /\ module' = None /\ lock' = None /\ stamp' = None
        /\ tree' = [ref |-> cfg.build.ref, whole |-> archive[cfg.build.ref] = "good"]
    BY <1>9 DEF Unpack, Matching
  <2>2. tree' \in Trees /\ tree' # NoTree
    BY <1>1, <2>1
  <2>3. pc' = "idle" \/ (pc' = "stamp" /\ tree' = [ref |-> cfg.build.ref, whole |-> TRUE])
    BY <1>9 DEF Unpack
  <2> QED BY <1>3, <1>9, <2>1, <2>2, <2>3
          DEF Unpack, Types, Places, Matching, Trusting, Unspoilt
<1>10. CASE Stamp
  BY <1>1, <1>3, <1>10 DEF Stamp, Types, Places, Matching, Trusting, Unspoilt
<1>11. CASE Override
  BY <1>1, <1>3, <1>11 DEF Override, Types, Places, Matching, Trusting, Unspoilt
<1>12. CASE Relock
  BY <1>3, <1>12 DEF Relock, Types, Places, Matching, Trusting, Unspoilt
<1> QED BY <1>4, <1>5, <1>6, <1>7, <1>8, <1>9, <1>10, <1>11, <1>12

\* A build of a whole tree is of the release that is pinned.
LEMMA ResolvedData ==
  ASSUME IInv, pc = "probe", tree.whole
  PROVE  Resolved \in Builds /\ Resolved.ref = tree.ref
         /\ (~spoilt => Resolved.overrides = module)
<1>1. tree.ref \in Refs /\ module \in Overrides
  BY ConfigData, TreeData DEF IInv, Types, Matching, Trusting
<1> QED BY <1>1, BuildData DEF IInv, Types, Matching, Unspoilt, Resolved

LEMMA ProbeKeeps == ASSUME IInv, Probe PROVE IInv'
<1> USE BuildData, TreeData
<1> USE DEF IInv, Goto, Raise, maintainer, past, crate, workspace
<1>1. pc = "probe" /\ outcome' # "done" /\ (outcome' = "done" => pc' = "idle") /\ DoneIsCoherent'
  BY DEF Probe, DoneIsCoherent
<1>2. CASE ~tree.whole
  BY <1>1, <1>2 DEF Probe, Types, Places, Matching, Trusting, Unspoilt, Progress, Vendoring
<1>3. CASE tree.whole
  <2>1. Resolved \in Builds /\ Resolved.ref = tree.ref
        /\ (~spoilt => Resolved.overrides = module)
    BY <1>1, <1>3, ResolvedData
  <2>2. lock' = Resolved /\ pc' = "check" /\ UNCHANGED <<tree, stamp, module, spoilt, cfg>>
    BY <1>3 DEF Probe
  <2>3. outputs' = [n \in Names |-> IF n \in GenOf[Resolved] THEN Resolved ELSE outputs[n]]
    BY <1>3 DEF Probe, Made
  <2>4. Types'
    <3>1. outputs' \in [Names -> Builds \cup {None}]
      BY <2>1, <2>3 DEF Types
    <3> QED BY <1>3, <2>1, <2>2, <3>1 DEF Probe, Types, Places
  <2>5. Matching' /\ Unspoilt'
    BY <1>1, <1>3, <2>1, <2>2 DEF Types, Matching, Trusting, Unspoilt
  <2>6. Progress'
    BY <2>1, <2>2, <2>3 DEF Progress, Vendoring
  <2> QED BY <1>1, <2>4, <2>5, <2>6
<1> QED BY <1>2, <1>3

\* The steps that stay out of the workspace.
LEMMA CrateKeeps ==
  ASSUME IInv, UNCHANGED <<workspace, past, cfg, maintainer>>, outcome' # "done",
         pc \in Vendoring, pc' \in Vendoring \cup {"idle"},
         DOMAIN heads' = Modules, gen' \in [Names -> Builds \cup {None}],
         lists' \in [Modules -> Builds \cup {None}], Progress'
  PROVE  IInv'
<1>1. Types'
  BY DEF IInv, Types, Places, Vendoring, workspace, maintainer
<1>2. Matching' /\ Unspoilt'
  BY DEF IInv, Matching, Unspoilt, Trusting, Vendoring, workspace, past
<1> QED BY <1>1, <1>2 DEF IInv, DoneIsCoherent

LEMMA VendorKeeps ==
  ASSUME IInv,
         \/ Check \/ Record \/ ToPrune \/ ToLists
         \/ \E s \in Modules : Sync(s) \/ WriteList(s)
         \/ \E n \in Names : Generate(n) \/ Prune(n)
  PROVE  IInv'
<1> USE DEF Raise, maintainer, past, crate, workspace
<1>1. /\ pc \in Vendoring => lock \in Builds /\ Written \subseteq Names
      /\ outcome # "done" \/ pc = "idle"
  BY WrittenData DEF IInv, Progress
<1>2. CASE Check
  <2>1. Progress'
    BY <1>2 DEF Check, IInv, Progress, Vendoring
  <2> QED BY <1>1, <1>2, <2>1, CrateKeeps DEF Check, IInv, Types, Vendoring
<1>3. CASE Record
  <2>1. Progress'
    BY <1>3 DEF Record, IInv, Progress, Vendoring, Written
  <2> QED BY <1>1, <1>3, <2>1, CrateKeeps DEF Record, IInv, Types, Vendoring
<1>4. CASE ToPrune
  <2>1. Progress'
    BY <1>4 DEF ToPrune, IInv, Progress, Vendoring, Written
  <2> QED BY <1>1, <1>4, <2>1, CrateKeeps DEF ToPrune, IInv, Types, Vendoring
<1>5. CASE ToLists
  <2>1. Progress'
    BY <1>5 DEF ToLists, IInv, Progress, Vendoring, Written
  <2> QED BY <1>1, <1>5, <2>1, CrateKeeps DEF ToLists, IInv, Types, Vendoring
<1>6. ASSUME NEW s \in Modules, Sync(s) PROVE IInv'
  <2>1. Wanted(s) = Pin[lock][s]
    <3>1. lock \in Builds /\ lock.ref = cfg.build.ref /\ cfg.build \in Builds
      BY <1>1, <1>6, BuildData, ConfigData
         DEF Sync, IInv, Types, Matching, Trusting, Vendoring
    <3> QED BY <3>1, ExtractAssumption DEF Wanted
  <2>2. Progress'
    BY <1>6, <2>1 DEF Sync, IInv, Types, Progress, Vendoring
  <2> QED BY <1>1, <1>6, <2>2, CrateKeeps DEF Sync, IInv, Types, Vendoring
<1>7. ASSUME NEW s \in Modules, WriteList(s) PROVE IInv'
  <2>1. Progress'
    BY <1>7 DEF WriteList, IInv, Types, Progress, Vendoring, Written
  <2> QED BY <1>1, <1>7, <2>1, CrateKeeps DEF WriteList, IInv, Types, Vendoring
<1>8. ASSUME NEW n \in Names, Generate(n) PROVE IInv'
  <2>1. Progress'
    BY <1>1, <1>8 DEF Generate, IInv, Types, Progress, Vendoring, Written
  <2> QED BY <1>1, <1>8, <2>1, CrateKeeps DEF Generate, IInv, Types, Vendoring
<1>9. ASSUME NEW n \in Names, Prune(n) PROVE IInv'
  <2>1. Progress'
    BY <1>1, <1>9 DEF Prune, IInv, Types, Progress, Vendoring, Written
  <2> QED BY <1>1, <1>9, <2>1, CrateKeeps DEF Prune, IInv, Types, Vendoring
<1> QED BY <1>2, <1>3, <1>4, <1>5, <1>6, <1>7, <1>8, <1>9

LEMMA DoneKeeps == ASSUME IInv, Done PROVE IInv'
<1> USE DEF Done, workspace, crate, past, maintainer
<1>1. lock \in Builds /\ lock.ref = cfg.build.ref
  BY BuildData, ConfigData DEF IInv, Types, Progress, Vendoring, Matching, Trusting
<1>2. Vendored(lock)
  <2>1. \A s \in Modules : heads[s] = Pin[lock][s] /\ lists[s] = lock
    BY DEF IInv, Progress
  <2>2. ASSUME NEW n \in Names
        PROVE  IF n \in GenOf[lock] THEN gen[n] = lock ELSE gen[n] = None \/ n \in Headers
    BY <2>2 DEF IInv, Progress, Vendoring, Written
  <2> QED BY <2>1, <2>2 DEF Vendored
<1>3. DoneIsCoherent'
  BY <1>1, <1>2 DEF DoneIsCoherent, Vendored
<1>4. Types' /\ Matching' /\ Unspoilt' /\ Progress'
  BY DEF IInv, Types, Places, Matching, Trusting, Unspoilt, Progress, Vendoring
<1> QED BY <1>3, <1>4 DEF IInv

\* Whatever is cut short, the stamp and the lock stay with the tree they are for.
LEMMA AbortKeeps == ASSUME IInv, Abort PROVE IInv'
<1> USE BuildData, TreeData
<1> USE DEF Abort, workspace, maintainer
<1>1. Progress' /\ (outcome' = "done" => pc' = "idle") /\ DoneIsCoherent'
  BY DEF Progress, Vendoring, DoneIsCoherent
<1>2. UNCHANGED <<config, cfg, heads, lists>> /\ pc' = "idle"
  OBVIOUS
<1>3. ASSUME UNCHANGED <<tree, stamp, module, lock, outputs>>,
             gen' \in [Names -> Builds \cup {None}]
      PROVE  IInv'
  BY <1>1, <1>2, <1>3 DEF IInv, Types, Places, Matching, Trusting, Unspoilt
<1>4. CASE /\ pc = "remove"
           /\ tree' = [tree EXCEPT !.whole = FALSE]
           /\ stamp' \in {stamp, None} /\ module' \in {module, None} /\ lock' \in {lock, None}
           /\ UNCHANGED <<archive, outputs, gen>>
  <2>1. tree' \in Trees /\ tree' # NoTree /\ tree'.ref = tree.ref
    BY <1>4 DEF IInv, Types, Matching, Trees
  <2> QED BY <1>1, <1>2, <1>4, <2>1
          DEF IInv, Types, Places, Matching, Trusting, Unspoilt
<1>5. CASE /\ pc = "unpack"
           /\ tree' = [ref |-> cfg.build.ref, whole |-> FALSE]
           /\ UNCHANGED <<archive, stamp, module, lock, outputs, gen>>
  <2>1. tree' \in Trees /\ tree' # NoTree
    BY <1>5, ConfigData DEF IInv, Types
  <2> QED BY <1>1, <1>2, <1>5, <2>1
          DEF IInv, Types, Places, Matching, Trusting, Unspoilt
<1>6. CASE /\ pc = "overrides" /\ module # cfg.build.overrides
           /\ tree' = [tree EXCEPT !.whole = FALSE]
           /\ UNCHANGED <<archive, stamp, module, lock, outputs, gen>>
  <2>0. tree # NoTree
    BY <1>6, ConfigData DEF IInv, Types, Matching, Trusting
  <2>1. tree' \in Trees /\ tree' # NoTree /\ tree'.ref = tree.ref
    BY <1>6, <2>0 DEF IInv, Types, Matching, Trees
  <2> QED BY <1>1, <1>2, <1>6, <2>1
          DEF IInv, Types, Places, Matching, Trusting, Unspoilt
<1>7. CASE /\ pc = "probe" /\ tree.whole
           /\ lock' \in {lock, Resolved}
           /\ \E S \in SUBSET GenOf[Resolved] : Made(S)
           /\ UNCHANGED <<archive, tree, stamp, module, gen>>
  <2>1. Resolved \in Builds /\ Resolved.ref = tree.ref
        /\ (~spoilt => Resolved.overrides = module)
    BY <1>7, ResolvedData
  <2>2. outputs' \in [Names -> Builds \cup {None}]
    BY <1>7, <2>1 DEF Made, IInv, Types
  <2> QED BY <1>1, <1>2, <1>7, <2>1, <2>2
          DEF IInv, Types, Places, Matching, Trusting, Unspoilt
<1>8. CASE /\ pc = "generate"
           /\ \E n \in todo : gen' = [gen EXCEPT ![n] = None]
           /\ UNCHANGED <<archive, tree, stamp, module, lock, outputs>>
  BY <1>3, <1>8 DEF IInv, Types
<1> QED BY <1>3, <1>4, <1>5, <1>6, <1>7, <1>8 DEF Leftover, IInv, Types

\* Nothing the maintainer does is read before a run starts, but versions.rb and
\* whose work is in the way.
LEMMA MaintainerKeeps ==
  ASSUME IInv, EditConfig \/ EditVersion \/ Work \/ Tidy \/ UNCHANGED vars
  PROVE  IInv'
<1>1. UNCHANGED <<workspace, crate, pc, cfg, todo, outcome, past>> /\ config' \in Configs
  BY DEF EditConfig, EditVersion, Work, Tidy, vars, maintainer, IInv, Types
<1> QED BY <1>1 DEF IInv, Types, Matching, Unspoilt, Progress, Written, DoneIsCoherent,
                    Vendored, workspace, crate, past

LEMMA NextKeeps == IInv /\ [Next]_vars => IInv'
  BY PrepareKeeps, ProbeKeeps, VendorKeeps, DoneKeeps, AbortKeeps, MaintainerKeeps
  DEF Next, Run

LEMMA Invariance == Spec => []IInv
  BY InitHolds, NextKeeps, PTL DEF Spec

-----------------------------------------------------------------------------
(* The theorems.                                                           *)

\* Wherever and however often runs are cut short, a later one builds what
\* versions.json pins, unless the workspace is spoilt.
THEOREM PinnedIsBuilt == Spec => []BuildsWhatIsPinned
<1>1. IInv => BuildsWhatIsPinned
  <2> SUFFICES ASSUME IInv, pc = "probe", ~spoilt
               PROVE  /\ tree = [ref |-> cfg.build.ref, whole |-> TRUE]
                      /\ module = cfg.build.overrides
                      /\ lock \in {None, cfg.build}
    BY DEF BuildsWhatIsPinned
  <2>1. cfg.build.ref # None /\ cfg.build.ref \in Refs
        /\ cfg.build = [ref |-> cfg.build.ref, overrides |-> cfg.build.overrides]
    BY ConfigData DEF IInv, Types
  <2>2. stamp = cfg.build.ref /\ tree.ref = stamp /\ tree.whole
        /\ module = cfg.build.overrides
    BY <2>1 DEF IInv, Matching, Trusting, Unspoilt
  <2>3. tree = [ref |-> cfg.build.ref, whole |-> TRUE]
    BY <2>1, <2>2, TreeData DEF IInv, Types, Trees, NoTree
  <2>4. lock # None => lock = cfg.build
    BY <2>1, <2>2, BuildData DEF IInv, Types, Matching, Unspoilt
  <2> QED BY <2>2, <2>3, <2>4
<1> QED BY <1>1, Invariance, PTL

\* A run that says it is done leaves one build in the crate.
THEOREM DoneLeavesOneBuild == Spec => []DoneIsCoherent
  BY Invariance, PTL DEF IInv
=============================================================================
