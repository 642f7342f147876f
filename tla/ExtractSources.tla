--------------------------- MODULE ExtractSources ----------------------------
(***************************************************************************)
(* script/extract-native-sources: the state it keeps on disk between runs, *)
(* in tmp/native-extract and in the crate, and runs that are killed or     *)
(* fail between any two steps while the maintainer edits versions.json.    *)
(*                                                                         *)
(* A build stands for the files bazel makes of protovalidate-cc at a ref   *)
(* and of the module overrides.  Bazel is external: it resolves modules    *)
(* when there is no MODULE.bazel.lock, builds what the lock pins when there *)
(* is one, and leaves what earlier builds made in its output tree.         *)
(***************************************************************************)
EXTENDS Naturals, FiniteSets

CONSTANTS
  Refs, Overrides,
  Configs,      \* versions.json: records [build, pinned], with or without sha256
  Modules,      \* the submodules, one library each
  Main,         \* the submodule of protovalidate-cc itself
  Pin,          \* Pin[b][s]: the commit of submodule s that belongs to build b
  Names,        \* generated files
  Headers,      \* of these, the headers
  GenOf,        \* GenOf[b]: the files generated for build b
  Version,      \* Version[b]: the protovalidate version that build b links
  None,
  AbortPlaces,  \* where a run may be killed or fail
  MaxAborts, MaxEdits

Builds == [ref : Refs, overrides : Overrides]
Commits == {Pin[b][s] : b \in Builds, s \in Modules}

ASSUME ExtractAssumption ==
  /\ Configs \subseteq [build : Builds, pinned : BOOLEAN]
  /\ Main \in Modules
  /\ \A b, c \in Builds : b.ref = c.ref => Pin[b][Main] = Pin[c][Main]
  /\ Headers \subseteq Names
  /\ GenOf \in [Builds -> SUBSET Names]
  /\ None \notin Refs \cup Overrides \cup Builds \cup Commits
  /\ MaxAborts \in Nat /\ MaxEdits \in Nat

VARIABLES
  config,   \* versions.json
  targeted, \* PROTOVALIDATE_VERSION in version.rb
  dirty,    \* submodules with uncommitted changes
  archive,  \* archive[r]: cache/<r>.tar.gz, "none", "torn" or "good"
  tree,     \* protovalidate-cc/: the ref it was unpacked from, and if it is whole
  stamp,    \* .extract-ref
  module,   \* the overrides in MODULE.bazel
  lock,     \* MODULE.bazel.lock: the build it pins
  outputs,  \* outputs[n]: the build that made bazel-out's n
  heads,    \* heads[s]: HEAD of submodule s
  gen,      \* gen[n]: the build that gen/n comes from
  lists,    \* lists[s]: the build that the file list of s's library is for
  pc,       \* where the run is, "idle" when there is none
  cfg,      \* versions.json as the run has read it
  todo,     \* submodules, files or libraries the step has still to do
  outcome,  \* how the last run ended
  aborts, edits,
  spoilt    \* history: since the tree was last removed, a run was cut short in the
            \* removal, in the write of MODULE.bazel or before the lock was dropped

workspace == <<archive, tree, stamp, module, lock, outputs>>
crate == <<heads, gen, lists>>
maintainer == <<config, targeted, dirty, edits>>
past == <<aborts, spoilt>>
vars == <<workspace, crate, maintainer, pc, cfg, todo, outcome, past>>

NoTree == [ref |-> None, whole |-> FALSE]

Init ==
  /\ config \in Configs
  /\ targeted = Version[config.build]
  /\ dirty = {}
  /\ archive = [r \in Refs |-> "none"]
  /\ tree = NoTree
  /\ stamp = None /\ module = None /\ lock = None
  /\ outputs = [n \in Names |-> None]
  /\ heads = [s \in Modules |-> None]
  /\ gen = [n \in Names |-> None]
  /\ lists = [s \in Modules |-> None]
  /\ pc = "idle"
  /\ cfg = config
  /\ todo = {}
  /\ outcome = "none"
  /\ aborts = 0 /\ edits = 0
  /\ spoilt = FALSE

-----------------------------------------------------------------------------
(* The maintainer.                                                         *)

EditConfig ==
  /\ edits < MaxEdits
  /\ config' \in Configs \ {config}
  /\ edits' = edits + 1
  /\ UNCHANGED <<workspace, crate, targeted, dirty, pc, cfg, todo, outcome, past>>

EditVersion ==
  /\ targeted # Version[config.build]
  /\ targeted' = Version[config.build]
  /\ UNCHANGED <<workspace, crate, config, dirty, edits, pc, cfg, todo, outcome,
                 past>>

Work ==
  /\ edits < MaxEdits
  /\ \E s \in Modules \ dirty : dirty' = dirty \cup {s}
  /\ edits' = edits + 1
  /\ UNCHANGED <<workspace, crate, config, targeted, pc, cfg, todo, outcome, past>>

\* Stashed or discarded.
Tidy ==
  /\ \E s \in dirty : dirty' = dirty \ {s}
  /\ UNCHANGED <<workspace, crate, config, targeted, edits, pc, cfg, todo, outcome,
                 past>>

-----------------------------------------------------------------------------
(* prepare_workspace                                                       *)

Goto(place) ==
  /\ pc' = place
  /\ UNCHANGED <<cfg, todo, outcome, past, maintainer>>

Raise ==
  /\ pc' = "idle"
  /\ outcome' = "failed"
  /\ todo' = {}
  /\ UNCHANGED <<cfg, past, maintainer>>

Start ==
  /\ pc = "idle"
  /\ pc' = "prepare"
  /\ cfg' = config
  /\ outcome' = "none"
  /\ UNCHANGED <<workspace, crate, todo, past, maintainer>>

Prepare ==
  /\ pc = "prepare"
  /\ Goto(IF tree # NoTree /\ stamp = cfg.build.ref THEN "overrides"
          ELSE IF tree # NoTree THEN "remove" ELSE "fetch")
  /\ UNCHANGED <<workspace, crate>>

Remove ==
  /\ pc = "remove"
  /\ tree' = NoTree
  /\ stamp' = None /\ module' = None /\ lock' = None
  /\ spoilt' = FALSE
  /\ pc' = "fetch"
  /\ UNCHANGED <<archive, outputs, crate, cfg, todo, outcome, aborts, maintainer>>

Fetch ==
  /\ pc = "fetch"
  /\ archive' = [archive EXCEPT ![cfg.build.ref] = IF @ = "none" THEN "good" ELSE @]
  /\ Goto("verify")
  /\ UNCHANGED <<tree, stamp, module, lock, outputs, crate>>

\* Mutation: a bad archive stays in the cache.
VerifyKeeps ==
  /\ pc = "verify"
  /\ IF cfg.pinned /\ archive[cfg.build.ref] # "good"
     THEN Raise
     ELSE Goto("unpack")
  /\ UNCHANGED <<workspace, crate>>

\* Mutation: the stamp written before the tree is there.
VerifyStamps ==
  /\ pc = "verify"
  /\ stamp' = cfg.build.ref
  /\ IF cfg.pinned /\ archive[cfg.build.ref] # "good"
     THEN /\ archive' = [archive EXCEPT ![cfg.build.ref] = "none"]
          /\ Raise
     ELSE UNCHANGED archive /\ Goto("unpack")
  /\ UNCHANGED <<tree, module, lock, outputs, crate>>

\* A checksum, when versions.json has one, finds an archive that is torn.
Verify ==
  /\ pc = "verify"
  /\ IF cfg.pinned /\ archive[cfg.build.ref] # "good"
     THEN /\ archive' = [archive EXCEPT ![cfg.build.ref] = "none"]
          /\ Raise
     ELSE UNCHANGED archive /\ Goto("unpack")
  /\ UNCHANGED <<tree, stamp, module, lock, outputs, crate>>

\* tar fails on an archive that is torn, which only an archive without a
\* checksum can be.
Unpack ==
  /\ pc = "unpack"
  /\ LET good == archive[cfg.build.ref] = "good" IN
       /\ tree' = [ref |-> cfg.build.ref, whole |-> good]
       /\ IF good THEN Goto("stamp") ELSE Raise
  /\ module' = None
  /\ UNCHANGED <<archive, stamp, lock, outputs, crate>>

Stamp ==
  /\ pc = "stamp"
  /\ stamp' = cfg.build.ref
  /\ Goto("overrides")
  /\ UNCHANGED <<archive, tree, module, lock, outputs, crate>>

\* The overrides in MODULE.bazel are rewritten when they differ.  (A tree that has
\* lost its MODULE.bazel ends the run here; in the model it does in Probe, as any
\* tree that is not whole.)
Override ==
  /\ pc = "overrides"
  /\ IF module = cfg.build.overrides
     THEN UNCHANGED module /\ Goto("probe")
     ELSE module' = cfg.build.overrides /\ Goto("relock")
  /\ UNCHANGED <<archive, tree, stamp, lock, outputs, crate>>

\* The lock pins the old resolution.
Relock ==
  /\ pc = "relock"
  /\ lock' = None
  /\ Goto("probe")
  /\ UNCHANGED <<archive, tree, stamp, module, outputs, crate>>

-----------------------------------------------------------------------------
(* build_probe, collect_link_closure, check_protovalidate_version          *)

Resolved == IF lock # None THEN lock ELSE [ref |-> tree.ref, overrides |-> module]

Made(S) ==
  outputs' = [n \in Names |-> IF n \in S THEN Resolved ELSE outputs[n]]

Probe ==
  /\ pc = "probe"
  /\ IF tree.whole
     THEN /\ lock' = Resolved
          /\ Made(GenOf[Resolved])
          /\ Goto("check")
     ELSE Raise /\ UNCHANGED <<lock, outputs>>
  /\ UNCHANGED <<archive, tree, stamp, module, crate>>

Check ==
  /\ pc = "check"
  /\ IF Version[lock] = targeted
     THEN /\ pc' = "sync"
          /\ todo' = Modules
          /\ UNCHANGED <<cfg, outcome, past, maintainer>>
     ELSE Raise
  /\ UNCHANGED <<workspace, crate>>

-----------------------------------------------------------------------------
(* sync_submodules: one submodule at a time.                               *)

\* wanted_ref: versions.json has the one of protovalidate-cc, the lock the rest.
Wanted(s) == IF s = Main THEN Pin[cfg.build][s] ELSE Pin[lock][s]

Sync(s) ==
  /\ pc = "sync" /\ s \in todo
  /\ \/ /\ heads[s] = Wanted(s) \/ s \notin dirty
        /\ heads' = [heads EXCEPT ![s] = Wanted(s)]
        /\ todo' = todo \ {s}
        /\ UNCHANGED <<pc, cfg, outcome, past, maintainer>>
     \/ /\ heads[s] # Wanted(s) /\ s \in dirty
        /\ Raise
        /\ UNCHANGED heads
  /\ UNCHANGED <<workspace, gen, lists>>

-----------------------------------------------------------------------------
(* vendor                                                                  *)

\* What is copied into gen/: the generated sources of the link closure, and
\* every header in bazel-out, those of earlier builds too.
Written == GenOf[lock] \cup {n \in Headers : outputs[n] # None}

\* A file that a submodule with changes of its own lacks ends the run.
Record ==
  /\ pc = "sync" /\ todo = {}
  /\ \/ /\ pc' = "generate"
        /\ todo' = Written
        /\ UNCHANGED <<cfg, outcome, past, maintainer>>
     \/ dirty # {} /\ Raise
  /\ UNCHANGED <<workspace, crate>>

Generate(n) ==
  /\ pc = "generate" /\ n \in todo
  /\ gen' = [gen EXCEPT ![n] = outputs[n]]
  /\ todo' = todo \ {n}
  /\ UNCHANGED <<workspace, heads, lists, pc, cfg, outcome, past, maintainer>>

\* Mutation: nothing is pruned.
PruneNothing ==
  /\ pc = "generate" /\ todo = {}
  /\ pc' = "prune"
  /\ UNCHANGED <<workspace, crate, todo, cfg, outcome, past, maintainer>>

ToPrune ==
  /\ pc = "generate" /\ todo = {}
  /\ pc' = "prune"
  /\ todo' = {n \in Names \ Written : gen[n] # None}
  /\ UNCHANGED <<workspace, crate, cfg, outcome, past, maintainer>>

Prune(n) ==
  /\ pc = "prune" /\ n \in todo
  /\ gen' = [gen EXCEPT ![n] = None]
  /\ todo' = todo \ {n}
  /\ UNCHANGED <<workspace, heads, lists, pc, cfg, outcome, past, maintainer>>

ToLists ==
  /\ pc = "prune" /\ todo = {}
  /\ pc' = "lists"
  /\ todo' = Modules
  /\ UNCHANGED <<workspace, crate, cfg, outcome, past, maintainer>>

WriteList(s) ==
  /\ pc = "lists" /\ s \in todo
  /\ lists' = [lists EXCEPT ![s] = lock]
  /\ todo' = todo \ {s}
  /\ UNCHANGED <<workspace, heads, gen, pc, cfg, outcome, past, maintainer>>

Done ==
  /\ pc = "lists" /\ todo = {}
  /\ pc' = "idle"
  /\ outcome' = "done"
  /\ UNCHANGED <<workspace, crate, todo, cfg, past, maintainer>>

-----------------------------------------------------------------------------

\* What a step leaves behind when it is cut short.
Leftover ==
  \/ /\ pc = "remove"
     /\ tree' = [tree EXCEPT !.whole = FALSE]
     /\ stamp' \in {stamp, None} /\ module' \in {module, None} /\ lock' \in {lock, None}
     /\ UNCHANGED <<archive, outputs, gen>>
  \/ /\ pc = "fetch" /\ archive[cfg.build.ref] = "none"
     /\ archive' = [archive EXCEPT ![cfg.build.ref] = "torn"]
     /\ UNCHANGED <<tree, stamp, module, lock, outputs, gen>>
  \/ /\ pc = "unpack"
     /\ tree' = [ref |-> cfg.build.ref, whole |-> FALSE]
     /\ UNCHANGED <<archive, stamp, module, lock, outputs, gen>>
  \/ /\ pc = "overrides" /\ module # cfg.build.overrides
     /\ tree' = [tree EXCEPT !.whole = FALSE]
     /\ UNCHANGED <<archive, stamp, module, lock, outputs, gen>>
  \/ /\ pc = "probe" /\ tree.whole
     /\ lock' \in {lock, Resolved}
     /\ \E S \in SUBSET GenOf[Resolved] : Made(S)
     /\ UNCHANGED <<archive, tree, stamp, module, gen>>
  \/ /\ pc = "generate"
     /\ \E n \in todo : gen' = [gen EXCEPT ![n] = None]
     /\ UNCHANGED workspace
  \/ UNCHANGED <<workspace, gen>>

\* The run is killed, or a command, the network or the disk fails it.
Abort ==
  /\ pc \in AbortPlaces /\ aborts < MaxAborts
  /\ Leftover
  /\ pc' = "idle"
  /\ outcome' = "failed"
  /\ todo' = {}
  /\ aborts' = aborts + 1
  /\ spoilt' = (spoilt \/ pc \in {"remove", "relock"}
                       \/ (pc = "overrides" /\ module # cfg.build.overrides))
  /\ UNCHANGED <<heads, lists, cfg, maintainer>>

Run ==
  \/ Start \/ Prepare \/ Remove \/ Fetch \/ Verify \/ Unpack \/ Stamp \/ Override
  \/ Relock \/ Probe \/ Check \/ Record \/ ToPrune \/ ToLists \/ Done
  \/ \E s \in Modules : Sync(s) \/ WriteList(s)
  \/ \E n \in Names : Generate(n) \/ Prune(n)

Next == Run \/ EditConfig \/ EditVersion \/ Work \/ Tidy \/ Abort

Spec == Init /\ [][Next]_vars

\* A run goes on until it ends, and the maintainer runs the script again.
FairSpec == Spec /\ WF_vars(Run)

-----------------------------------------------------------------------------
(* Properties.                                                             *)

\* The crate is what build b calls for: submodules, generated sources and file
\* lists fit together.
Vendored(b) ==
  /\ \A s \in Modules : heads[s] = Pin[b][s] /\ lists[s] = b
  /\ \A n \in Names :
       IF n \in GenOf[b] THEN gen[n] = b ELSE gen[n] = None \/ n \in Headers

\* A run that says it is done leaves submodules, generated sources and file lists
\* that all belong to one build of the pinned ref, whatever earlier runs, killed
\* anywhere, left half done.
DoneIsCoherent ==
  outcome = "done" => \E b \in Builds : b.ref = cfg.build.ref /\ Vendored(b)

\* Bazel is asked to build all of the tree at the pinned ref with the overrides
\* of versions.json, and never with a lock made for others: runs cut short leave
\* nothing behind that a later one trusts wrongly, with the three exceptions that
\* `spoilt` stands for, and these only until the tree is removed.
BuildsWhatIsPinned ==
  pc = "probe" /\ ~spoilt =>
    /\ tree = [ref |-> cfg.build.ref, whole |-> TRUE]
    /\ module = cfg.build.overrides
    /\ lock \in {None, cfg.build}

\* However often runs were cut short, running the script again gets there, once
\* the pins rest, nobody's work is in the way and nothing is spoilt.
Recovers ==
  \A c \in Configs :
    []( [](config = c /\ c.pinned /\ dirty = {} /\ targeted = Version[c.build] /\ ~spoilt)
        => <>Vendored(c.build) )

\* The script: "The lock pins the old resolution; drop it so bazel re-resolves."
\* Then bazel never finds a lock that was made for other overrides.
LockIsDropped == pc = "probe" => lock \in {None, cfg.build}
=============================================================================
