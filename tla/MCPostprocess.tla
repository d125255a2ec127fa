---------------------------- MODULE MCPostprocess ---------------------------
(***************************************************************************)
(* Three files: 1 is app.py, 2 and 3 are in a package, 3 possibly in C;    *)
(* m and the method C.m share their short name; the suffix of one module   *)
(* matches both package files, that of another only file 2, and a third    *)
(* module belongs to the standard library.                                 *)
(***************************************************************************)
EXTENDS Postprocess

MCAnswersTo == <<{"C.m", "m"}, {"m"}>>
MCMatches == [both |-> {2, 3}, two |-> {2}, os |-> {}]

Source(defs, calls, imports, bindings, emits, handles) ==
  [row |-> TRUE, defs |-> defs, calls |-> calls, imports |-> imports,
   bindings |-> bindings, emits |-> emits, handles |-> handles]

Sources == {
  Source({2}, {}, {}, {}, {}, {}),
  Source({1, 2}, {<<"C.m", "name">>}, {}, {}, {<<"s", 2>>}, {<<"s", 1>>}),
  Source({1}, {<<"m", "attribute">>}, {}, {}, {}, {<<"s", 1>>}),
  Source({}, {<<"m", "name">>}, {3}, {}, {}, {}),
  Source({}, {<<"m", "name">>}, {}, {<<"both", "m">>}, {}, {}),
  Source({}, {<<"m", "name">>}, {}, {<<"two", "m">>}, {}, {<<"s", 2>>}),
  Source({2}, {<<"m", "name">>}, {}, {<<"os", "m">>}, {}, {})}

OneC == <<"py", "py", "c">>

(* A C file has no import bindings and includes no Python file *)
MCContents ==
  [f \in Files |-> {s \in Sources : LanguageOf[f] = "py" \/ (s.bindings = {} /\ s.imports = {})}]

(* app.py is a group of its own *)
TwoGroups == <<"_root", "pkg", "pkg">>
=============================================================================
