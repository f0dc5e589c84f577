---------------------------- MODULE BuildSession ----------------------------
(***************************************************************************)
(* fyra::BackendBuilder as it works: a prepared module and the stages of   *)
(* the pipeline are kept from one emission to the next and dropped when a  *)
(* setting changes.  A builder is used by one thread; what is hard is the  *)
(* order of setters, failing emissions, retries and edits of the source.   *)
(***************************************************************************)
EXTENDS BuildSettings

VARIABLES
    unit,       \* preparedModule_, or Nothing
    done,       \* the pipeline_'s isSSAPrepared_, isOptimized_, isRegAllocated_
    prepared,   \* isPrepared_
    out         \* what the last call returned

session == <<unit, done, prepared>>
sessionVars == <<settings, session, out>>

Stages == {"ssa", "opt", "alloc"}

SessionInit == SettingsInit /\ unit = Nothing /\ done = {} /\ prepared = FALSE /\ out = Nothing

InvalidateUnitOnly ==                 \* variant: the pipeline keeps its stages
    unit' = Nothing /\ prepared' = FALSE /\ UNCHANGED done

InvalidatePrepared == unit' = Nothing /\ done' = {} /\ prepared' = FALSE

----------------------------------------------------------------------------
(* The setters.  One that does not change its setting keeps the session.   *)
ConfigureKeeping(c) ==                \* variant: a new triple keeps the unit
    /\ cfg' = c
    /\ IF c = [cfg EXCEPT !.triple = c.triple] THEN UNCHANGED session ELSE InvalidatePrepared
    /\ out' = Nothing
    /\ UNCHANGED <<features, mods, added, source>>

Configure(c) ==
    /\ cfg' = c
    /\ IF c = cfg THEN UNCHANGED session ELSE InvalidatePrepared
    /\ out' = Nothing
    /\ UNCHANGED <<features, mods, added, source>>

Target(name) == Configure([cfg EXCEPT !.triple = Canonical[name]])
Optimize(level) == Configure([cfg EXCEPT !.level = level])
Validate(enabled) == Configure([cfg EXCEPT !.validate = enabled])
Enable(switch, enabled) ==
    Configure([cfg EXCEPT !.on = IF enabled THEN @ \cup {switch} ELSE @ \ {switch}])
EnableLTO(enabled) == Configure([cfg EXCEPT !.lto = enabled])

TargetFeature ==
    /\ features < MaxFeatures
    /\ features' = features + 1
    /\ InvalidatePrepared
    /\ out' = Nothing
    /\ UNCHANGED <<cfg, mods, added, source>>

AddModuleQuietly(m) ==                \* variant: the unit is not dropped
    /\ Len(mods) < MaxModules
    /\ mods' = Append(mods, m)
    /\ out' = Nothing
    /\ UNCHANGED <<cfg, features, added, source, session>>

AddModule(m) ==
    /\ Len(mods) < MaxModules
    /\ mods' = Append(mods, m)
    /\ InvalidatePrepared
    /\ out' = Nothing
    /\ UNCHANGED <<cfg, features, added, source>>

(* addObject, addStaticLibrary, importSymbol: read when an image is linked,*)
(* so the unit stays.                                                      *)
AddInput(input) ==
    /\ added' = added \cup {input}
    /\ out' = Nothing
    /\ UNCHANGED <<cfg, features, mods, source, session>>

(* The client edits the module it gave to the constructor.                 *)
EditSource(s) ==
    /\ source' = s
    /\ out' = Nothing
    /\ UNCHANGED <<cfg, features, mods, added, session>>

----------------------------------------------------------------------------
(* CompilerPipeline: a stage that has run on some unit is not run again.   *)
AfterSSA(u) == IF "ssa" \in done THEN u ELSE [u EXCEPT !.ssa = TRUE]
AfterOpt(u) == IF "opt" \in done THEN u ELSE [u EXCEPT !.opt = OptKey(cfg)]
AfterAlloc(u) == IF "alloc" \in done THEN u ELSE [u EXCEPT !.alloc = AllocKey(cfg)]
AllocFails == "alloc" \notin done /\ cfg.triple \notin Resolvable

CloneParts == PartsOf(cfg, mods, source)
LinkFails == CloneParts.linked # <<>> /\ CloneParts \in Clashing
ValidationFails == cfg.validate /\ CloneParts \in Rejected

(* An ensurePrepared that does not return at once: it ends with an error   *)
(* after linking, after validation or in register allocation, or prepares. *)
PrepareError ==
    IF LinkFails THEN "collision"
    ELSE IF ValidationFails THEN "invalid"
    ELSE IF AllocFails THEN "target"
    ELSE Nothing

(* The clone as far as the run gets with it, and the stages it records.    *)
(* runOptimizations cannot fail: the one error that it looks for is that a *)
(* pass was given a function without blocks, and it skips those.           *)
PreparedUnit ==
    IF LinkFails \/ ValidationFails THEN Clone(CloneParts)
    ELSE IF AllocFails THEN AfterOpt(AfterSSA(Clone(CloneParts)))
    ELSE AfterAlloc(AfterOpt(AfterSSA(Clone(CloneParts))))

StagesDone ==
    IF LinkFails \/ ValidationFails THEN done
    ELSE IF AllocFails THEN done \cup {"ssa", "opt"}
    ELSE Stages

EnsurePrepared ==
    /\ unit' = PreparedUnit /\ done' = StagesDone
    /\ prepared' = (PrepareError = Nothing)

(* emitAssembly ... emitWasm.  Code generation and writing may still fail. *)
Emit(kind) ==
    /\ IF prepared THEN UNCHANGED session ELSE EnsurePrepared
    /\ IF ~prepared /\ PrepareError # Nothing
       THEN out' = Failure(kind, PrepareError)
       ELSE out' \in {Artifact(kind, unit'), Failure(kind, "backend")}
    /\ UNCHANGED settings

SessionNext ==
    \/ \E name \in TargetNames : Target(name)
    \/ \E level \in Levels : Optimize(level)
    \/ \E b \in BOOLEAN : Validate(b) \/ EnableLTO(b) \/ \E sw \in Switches : Enable(sw, b)
    \/ TargetFeature
    \/ \E m \in Additional : AddModule(m)
    \/ \E i \in LinkInputs : AddInput(i)
    \/ \E s \in Sources : EditSource(s)
    \/ \E kind \in Kinds : Emit(kind)

SessionSpec == SessionInit /\ [][SessionNext]_sessionVars

----------------------------------------------------------------------------
Parts == [src : Sources, linked : Seq(Additional)]
Units == [parts : Parts, ssa : BOOLEAN, opt : {Nothing} \cup (Levels \X Triples \X SUBSET Switches),
          alloc : {Nothing} \cup Triples]

SessionTypeOK ==
    /\ SettingsType
    /\ unit \in {Nothing} \cup Units
    /\ done \subseteq Stages
    /\ prepared \in BOOLEAN

(* A session that is prepared holds what a new builder with the present    *)
(* settings would make of the source it was cloned from, and that build    *)
(* would succeed.                                                          *)
PreparedIsFresh ==
    prepared => /\ unit = Fresh(cfg, mods, unit.parts.src)
                /\ FreshError(cfg, mods, unit.parts.src) = Nothing

(* A run that fails in register allocation leaves the earlier stages       *)
(* marked as done although the next attempt starts from a new clone.  That *)
(* is harmless only because no attempt can succeed before a setter resets  *)
(* the marks.                                                              *)
LeftoversAreHarmless ==
    ~prepared /\ done # {} => "alloc" \notin done /\ cfg.triple \notin Resolvable

(* The session does what the contract says.                                *)
Contract == INSTANCE BuildContract
                WITH snap <- IF prepared THEN unit.parts.src ELSE Nothing
MeetsContract == Contract!Spec
=============================================================================
