----------------------------- MODULE MCInstaller ----------------------------
EXTENDS Installer, TLC

CONSTANTS bin, skill, desc

At(b, s, d) == bin :> b @@ skill :> s @@ desc :> d

MCShips == <<At("bin1", "skill1", Absent), At("bin2", "skill2", Absent)>>
MCLegacyRecords == At(Absent, "old skill", Absent)

MCTemplate ==
  [hooks |-> {<<"enrich", "remy-cc hook enrich">>, <<"other", "guard script">>}, allow |-> {"Bash"}]
MCUserHooks == {<<"enrich", "edited target">>}
MCUserAllows == {"Bash"}

Symmetric == Permutations(Procs)

(* A machine without Remy-CC and a v4 installation whose binary runs while *)
(* another program has the skill open; with two operations at the cost of  *)
(* the user's act, or with that act and one operation: files of the user,  *)
(* a legacy and a v3 installation; an unreadable manifest.                 *)
MCInitialStates ==
  LET empty == [ok |-> TRUE, hooks |-> {}, allow |-> {}]
      old == [empty EXCEPT !.hooks = {<<"enrich", "legacy script">>}]
      mine == [empty EXCEPT !.allow = {"Bash"}]
      nothing == At(Absent, Absent, Absent)
      free == At("free", "free", "free")
      all == [ops |-> 0, user |-> 0, kills |-> 0]
      state(d, m, s, l) == [disk |-> d, held |-> free, manifest |-> m, settings |-> s, legacy |-> l,
                            budget |-> all]
      either(m) == {[m EXCEPT !.budget.user = 1], [m EXCEPT !.budget.ops = 1]}
      manifestOf(v, d, s) == [schema |-> v, files |-> d, claim |-> [hooks |-> s.hooks, allow |-> {}]]
      v3 == At(Absent, "skill1", Absent)
      v4 == At("bin1", "skill1", "python")
      merged == [mine EXCEPT !.hooks = Template.hooks]
  IN {state(nothing, NoManifest, mine, "none"),
      [state(v4, manifestOf(4, v4, merged), merged, "none")
         EXCEPT !.held = At("image", "pinned", "free")],
      state(nothing, [NoManifest EXCEPT !.schema = 2], [empty EXCEPT !.ok = FALSE], "none")}
     \cup either(state(At(Absent, User, Absent), NoManifest, empty, "unreadable"))
     \cup either(state(At(Absent, "old skill", User), NoManifest, old, "present"))
     \cup either(state(v3, manifestOf(3, v3, old), old, "none"))
=============================================================================
