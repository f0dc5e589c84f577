---------------------------- MODULE BuildContract ----------------------------
(***************************************************************************)
(* What a client of BackendBuilder relies on: whatever it set, emitted and *)
(* set again before, an emission gives what a new builder with the present *)
(* settings would give.  The one thing a session remembers is the source   *)
(* module: from the first successful preparation until the settings change *)
(* every emission is of the source as it was then.                         *)
(***************************************************************************)
EXTENDS BuildSettings

VARIABLES
    snap,       \* the source module the session has settled on, or Nothing
    out         \* what the last call emitted, Nothing for a call that emits nothing

vars == <<settings, snap, out>>

Init == SettingsInit /\ snap = Nothing /\ out = Nothing

(* Any setter: a change of settings ends the snapshot.                     *)
Configure ==
    /\ cfg' \in Configs
    /\ snap' = IF cfg' = cfg THEN snap ELSE Nothing
    /\ out' = Nothing
    /\ UNCHANGED <<features, mods, added, source>>

Extend ==
    /\ \/ features' = features + 1 /\ UNCHANGED mods
       \/ \E m \in Additional : mods' = Append(mods, m) /\ UNCHANGED features
    /\ snap' = Nothing /\ out' = Nothing
    /\ UNCHANGED <<cfg, added, source>>

AddInput ==
    /\ added' \in SUBSET LinkInputs /\ added \subseteq added'
    /\ out' = Nothing
    /\ UNCHANGED <<cfg, features, mods, source, snap>>

EditSource ==
    /\ source' \in Sources
    /\ out' = Nothing
    /\ UNCHANGED <<cfg, features, mods, added, snap>>

Seen == IF snap = Nothing THEN source ELSE snap

(* A fresh build of the source that the session sees: its error, or its    *)
(* artifact, unless writing that fails.                                    *)
Emit(kind) ==
    LET error == FreshError(cfg, mods, Seen)
    IN  IF error # Nothing
        THEN out' = Failure(kind, error) /\ UNCHANGED <<settings, snap>>
        ELSE /\ out' \in {Artifact(kind, Fresh(cfg, mods, Seen)), Failure(kind, "backend")}
             /\ snap' = Seen
             /\ UNCHANGED settings

Next == Configure \/ Extend \/ AddInput \/ EditSource \/ \E kind \in Kinds : Emit(kind)

Spec == Init /\ [][Next]_vars
=============================================================================
