---------------------------- MODULE MCJniHeader ----------------------------
(***************************************************************************)
(* The method models TLC enumerates for JniHeader: every list of at most  *)
(* two natives and at most two @CalledByNative methods drawn from small    *)
(* menus, with and without --native_exports_optional.                      *)
(***************************************************************************)
EXTENDS JniHeader

MCOuterClass == "org/cr_app/Foo"

(***************************************************************************)
(* natives: a plain one, one of a nested class, one with '_' in its name,  *)
(* and one with "native" inside its name.                                  *)
(***************************************************************************)
NativeMenu ==
  {[javaName |-> "nativeInit", cls |-> ""],
   [javaName |-> "nativeGetnativeWindow", cls |-> ""],
   [javaName |-> "nativeOnEvent", cls |-> "Inner"],
   [javaName |-> "nativeSet_Value", cls |-> ""]}

(***************************************************************************)
(* @CalledByNative methods: overloads of foo on int (static), int[],       *)
(* int[][] and on two classes with the same initials, overloads of get    *)
(* (one returning a class whose name ends in L), a foo of a nested class, *)
(* and static methods returning a String and a String[].                  *)
(***************************************************************************)
CBN(cls, name, ret, params, returnType, static) ==
  [cls |-> cls, name |-> name, ret |-> ret, params |-> params,
   returnType |-> returnType, static |-> static, ctor |-> FALSE]

CalledByNativeMenu ==
  {CBN("", "foo", "V", <<"I">>, "void", TRUE),
   CBN("", "foo", "V", <<"[I">>, "void", FALSE),
   CBN("", "foo", "V", <<"[[I">>, "void", FALSE),
   CBN("", "foo", "V", <<"Lorg/cr/Bar;">>, "void", FALSE),
   CBN("", "foo", "V", <<"Lorg/cr/Baz;">>, "void", FALSE),
   CBN("", "get", "Lorg/cr/GURL;", <<>>, "GURL", FALSE),
   CBN("", "get", "I", <<"I">>, "int", FALSE),
   CBN("Inner", "foo", "V", <<"J">>, "void", FALSE),
   CBN("", "title", "Ljava/lang/String;", <<>>, "String", TRUE),
   CBN("", "names", "[Ljava/lang/String;", <<"Z">>, "String[]", TRUE)}

(* Lists of at most two distinct entries of a menu. *)
UpToTwo(S) == {<<>>} \cup {<<x>> : x \in S} \cup ({<<x, y>> : x \in S, y \in S} \ {<<x, x>> : x \in S})

MCInputs ==
  {[natives |-> n, calledByNatives |-> c, nativeExportsOptional |-> o] :
     n \in UpToTwo(NativeMenu), c \in UpToTwo(CalledByNativeMenu), o \in BOOLEAN}
(***************************************************************************)
(* One @CalledByNative method per file returning a class: Class<?> (as    *)
(* written in a source file), a ClassLoader (imported), and the raw       *)
(* java/lang/Class javap prints, beside a plain Object.                   *)
(***************************************************************************)
ClassReturnMenu ==
  {CBN("", "getKlass", "Ljava/lang/Class;", <<>>, "Class<?>", FALSE),
   CBN("", "getLoader", "Ljava/lang/ClassLoader;", <<>>, "ClassLoader", FALSE),
   CBN("", "getClass", "Ljava/lang/Class;", <<>>, "java/lang/Class", FALSE),
   CBN("", "get", "Ljava/lang/Object;", <<>>, "Object", TRUE)}

MCClassReturnInputs ==
  {[natives |-> <<>>, calledByNatives |-> <<m>>, nativeExportsOptional |-> o] :
     m \in ClassReturnMenu, o \in BOOLEAN}
=============================================================================
