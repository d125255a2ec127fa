------------------------------ MODULE Settings ------------------------------
(***************************************************************************)
(* settings.json as the installer sees it: which hook commands stand under *)
(* which event and matcher, which permissions are allowed, and the claim   *)
(* the manifest keeps of what the installer put there.                     *)
(*                                                                         *)
(* A hook is <<slot, command>>; a slot is an event with a matcher, two of  *)
(* which are the targets of the binary's own hooks.  Commands are told     *)
(* apart only as far as the code does: the ones of the deployed binary,    *)
(* the defaults of earlier installers, edited variants of either, the      *)
(* template's scripts, and whatever else the user has.  Lists are sets:    *)
(* the code looks commands up by value, and order means nothing to it.     *)
(* ok is FALSE for a document, or a section, of the wrong JSON type.       *)
(***************************************************************************)

CONSTANTS
  Template      \* the rendered template: [hooks, allow]

TargetSlots == {"enrich", "dirty"}
BinaryCommands == {"remy-cc hook enrich", "remy-cc hook dirty"}
LegacyDefaults == {"legacy script", "legacy daemon"}
Edited == "edited target"
ScriptCommands == {"legacy script", Edited}     \* the ones naming a retired script

NoClaim == [hooks |-> {}, allow |-> {}]

(* verify_settings_claim: all that was claimed is still there *)
ClaimHolds(doc, claim) ==
  /\ doc.ok
  /\ claim.hooks \subseteq doc.hooks
  /\ claim.allow \subseteq doc.allow

(* remove_prior_target_hooks: what the merge takes out of the target slots *)
Cleared(doc, prior) ==
  {h \in doc.hooks : /\ h[1] \in TargetSlots
                     /\ \/ h[2] \in {c[2] : c \in prior.hooks}
                        \/ h[2] \in LegacyDefaults}

(* and what makes it refuse *)
Modified(doc, prior) ==
  {h \in doc.hooks \ Cleared(doc, prior) :
     h[1] \in TargetSlots /\ h[2] \in {Edited} \cup BinaryCommands}

(* prior is NoClaim when there is no manifest: nothing to verify *)
Mergeable(doc, prior) == ClaimHolds(doc, prior) /\ Modified(doc, prior) = {}

Merged(doc, prior) ==
  [doc EXCEPT !.hooks = (@ \ Cleared(doc, prior)) \cup Template.hooks,
              !.allow = @ \cup Template.allow]

(* Mutant: permissions that the user already had are claimed too *)
ClaimsEverything(doc, prior) == [hooks |-> Template.hooks, allow |-> Template.allow]

ClaimAfter(doc, prior) ==
  [hooks |-> Template.hooks,
   allow |-> {p \in Template.allow : p \notin doc.allow \/ p \in prior.allow}]

(* remove_settings_claim_lenient: whatever is still there of the claim *)
Unclaimed(doc, claim) ==
  IF doc.ok THEN [doc EXCEPT !.hooks = @ \ claim.hooks, !.allow = @ \ claim.allow]
            ELSE doc

(* remove_dead_hook_entries: hooks of scripts that a legacy cleanup deleted *)
WithoutDeadHooks(doc) ==
  IF doc.ok THEN [doc EXCEPT !.hooks = {h \in @ : h[2] \notin ScriptCommands}] ELSE doc
=============================================================================
