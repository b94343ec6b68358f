----------------------------- MODULE MCJniParams -----------------------------
(***************************************************************************)
(* Input files for model checking JniParams, generated from small choices: *)
(* the outer class (Foo, or MyFoo whose name ends in that of a nested      *)
(* class Foo), its imports (none, a top-level class, two, a bare import of *)
(* a nested class, a class of the file's own package), its nested         *)
(* classes, its @JNIAdditionalImport entries (none, a name android.jar     *)
(* also has, an already imported class, a qualified name) and the types it *)
(* resolves: one list every context resolves, then one of the names that   *)
(* only some contexts resolve.  OtherFile, of another package, imports     *)
(* another class named Bar.                                                *)
(***************************************************************************)
EXTENDS JniParams

File(pkg, name, imps, classes, additional, uses) ==
  [package |-> pkg, name |-> name, imports |-> imps, classes |-> classes,
   additional |-> additional, uses |-> uses]

ImportChoices ==
  {<<>>, <<"org.cr.base.Bar">>, <<"org.cr.base.Bar", "java.util.List">>,
   <<"org.cr.base.Bar.Nested">>, <<"org.cr.Bar">>}
ClassChoices(name) == {<<name>>, <<name, "Inner">>} \cup IF name = "MyFoo" THEN {<<name, "Foo">>} ELSE {}
AdditionalChoices == {<<>>, <<"View.class">>, <<"Bar.class">>, <<"a.B.class">>}
CommonUses == <<"int[][]", "Bar", "Inner", "View", "String[]", "java/lang/Object", "boolean">>
LastUses == {<<"Bar.Nested">>, <<"List<String>">>, <<"Nested">>, <<"Foo">>}

GeneratedFiles ==
  UNION {{File("org.cr", n, i, c, a, CommonUses \o u) :
            i \in ImportChoices, c \in ClassChoices(n), a \in AdditionalChoices, u \in LastUses} :
         n \in {"Foo", "MyFoo"}}

OtherFile == File("org.other", "Other", <<"org.other.util.Bar">>, <<"Other">>, <<>>, <<"Bar">>)

MCFiles == GeneratedFiles \cup {OtherFile}

MCImplicitClasses == <<"android/app/Activity.class", "android/view/View.class",
                       "java/util/List.class", "android/os/Bundle.class">>
=============================================================================
