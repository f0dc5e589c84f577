---------------------------- MODULE BuildSettings ----------------------------
(***************************************************************************)
(* What a client hands to a fyra::BackendBuilder, and what one run of the  *)
(* pipeline makes of it (BackendBuilder.cpp, CompilerPipeline.cpp).        *)
(*                                                                         *)
(* A unit is the module a build works on.  It is described by what has     *)
(* been done to it: the modules it was put together from, and the settings *)
(* under which each stage ran, or Nothing for a stage that did not.        *)
(***************************************************************************)
EXTENDS Naturals, Sequences

CONSTANTS
    TargetNames,          \* what target() may be called with: triples and their aliases
    Canonical,      \* resolveTargetTriple
    Resolvable,     \* the triples TargetDescriptor and TargetResolver know
    Wasm,           \* those of them whose architecture is WASM32
    DefaultTriple,
    Levels, DefaultLevel,
    Switches,       \* enableSLP, enableLoopVectorization, enableLoopUnroll, enableEGraph
    Additional,     \* the modules that addModule may be called with
    Sources,        \* the states of the source module
    Clashing,       \* the parts that linkModules refuses to put together
    Rejected,       \* the parts that the validator refuses once linked
    MaxModules, MaxFeatures,   \* bounds: how many of each a client adds
    Nothing

Triples == {Canonical[n] : n \in TargetNames}
Configs == [triple : Triples, level : Levels, validate : BOOLEAN,
            on : SUBSET Switches, lto : BOOLEAN]
LinkInputs == {"object", "library", "import"}

ASSUME SettingsAssumption ==
    /\ Canonical \in [TargetNames -> Triples]
    /\ DefaultTriple \in Triples /\ DefaultLevel \in Levels
    /\ Wasm \subseteq Resolvable
    /\ MaxModules \in Nat /\ MaxFeatures \in Nat
    /\ Nothing \notin Sources /\ Nothing \notin {"collision", "invalid", "target"}

VARIABLES
    cfg,        \* config_ and enableLTO_
    features,   \* how often targetFeature has been called
    mods,       \* additionalModules_
    added,      \* which of the three kinds of link inputs have been given
    source      \* what srcModule_ holds now: the client owns it and may edit it

settings == <<cfg, features, mods, added, source>>

SettingsType ==
    /\ cfg \in Configs
    /\ features \in 0 .. MaxFeatures
    /\ mods \in Seq(Additional) /\ Len(mods) <= MaxModules
    /\ added \subseteq LinkInputs
    /\ source \in Sources

SettingsInit ==
    /\ cfg = [triple |-> DefaultTriple, level |-> DefaultLevel, validate |-> TRUE,
              on |-> Switches, lto |-> TRUE]
    /\ features = 0 /\ mods = <<>> /\ added = {}
    /\ source \in Sources

----------------------------------------------------------------------------
(* ensurePrepared clones the source and, with LTO on, links the additional *)
(* modules into the clone.  With LTO off they are not part of the build.   *)
PartsOf(c, ms, s) == [src |-> s, linked |-> IF c.lto THEN ms ELSE <<>>]

Clone(parts) == [parts |-> parts, ssa |-> FALSE, opt |-> Nothing, alloc |-> Nothing]

(* What an optimization run and a register allocation depend on.           *)
OptKey(c) == <<c.level, c.triple, c.on>>
AllocKey(c) == IF c.triple \in Wasm THEN Nothing ELSE c.triple

(* The unit that a builder makes when it does everything from the start.   *)
Fresh(c, ms, s) == [parts |-> PartsOf(c, ms, s), ssa |-> TRUE,
                    opt |-> OptKey(c), alloc |-> AllocKey(c)]

(* The error with which such a build ends, or Nothing.                     *)
FreshError(c, ms, s) ==
    LET parts == PartsOf(c, ms, s)
    IN  IF parts.linked # <<>> /\ parts \in Clashing THEN "collision"
        ELSE IF c.validate /\ parts \in Rejected THEN "invalid"
        ELSE IF c.triple \notin Resolvable THEN "target"
        ELSE Nothing

(* What each emission reads besides the unit.                              *)
Kinds == {"assembly", "object", "static", "executable", "flat", "shared", "apk", "wat", "wasm"}
UsesFeatures(kind, c) ==
    \/ kind \in {"static", "executable", "flat", "shared", "apk"}
    \/ kind = "assembly" /\ c.triple \notin Wasm
UsedInputs(kind) ==
    CASE kind \in {"executable", "shared", "apk"} -> LinkInputs
      [] kind = "flat" -> {"object", "import"}
      [] OTHER -> {}

(* A successful emission, and the result of one that failed.               *)
Artifact(kind, u) ==
    [kind |-> kind, unit |-> u, triple |-> cfg.triple,
     features |-> IF UsesFeatures(kind, cfg) THEN features ELSE 0,
     inputs |-> added \cap UsedInputs(kind)]
Failure(kind, e) == [kind |-> kind, error |-> e]
=============================================================================
