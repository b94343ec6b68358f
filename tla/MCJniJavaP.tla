----------------------------- MODULE MCJniJavaP -----------------------------
(***************************************************************************)
(* The listings TLC feeds JniJavaP: what "javap -c -verbose -s" prints for *)
(* a class with at most two members of a small menu, in the layout of      *)
(* JDK 6 (each member's Signature: and Constant value: lines right below   *)
(* it) and of JDK 7 and later (descriptor:, flags:, then ConstantValue:),  *)
(* with and without a string literal "use size()" in the constant pool.   *)
(***************************************************************************)
EXTENDS JniJavaP

Other == [kind |-> "other"]
Desc(s) == [kind |-> "descriptor", sig |-> s]

(* The members: an instance and a static method, a constructor, an int    *)
(* constant, and a static final int without a constant value.            *)
MemberMenu ==
  {[kind |-> "method", static |-> FALSE, ret |-> "int", name |-> "size", params |-> <<>>, desc |-> "()I"],
   [kind |-> "method", static |-> TRUE, ret |-> "java.lang.String", name |-> "valueOf",
    params |-> <<"int">>, desc |-> "(I)Ljava/lang/String;"],
   [kind |-> "ctor", params |-> <<"long">>, desc |-> "(J)V"],
   [kind |-> "const", name |-> "MAX", value |-> 5, desc |-> "I"],
   [kind |-> "field", name |-> "SEED", desc |-> "I"]}

(* A top-level class, a generic one, and a nested one. *)
ClassMenu == {"a.Foo", "a.Bar<T>", "a.Foo$Inner"}

(* The class name without its type parameters, as javap prints a constructor. *)
Unparameterized(c) == IF HasChar(c, "<") THEN Before(c, FirstPos(c, "<")) ELSE c

(* A member's declaration line and the lines javap prints below it. *)
MemberLines(m, c, jdk6) ==
  LET decl == CASE m.kind = "method" ->
                     [kind |-> "method", static |-> m.static, ret |-> m.ret, name |-> m.name, params |-> m.params]
                [] m.kind = "ctor" -> [kind |-> "ctor", cls |-> Unparameterized(c), params |-> m.params]
                [] OTHER -> [kind |-> "field", name |-> m.name]
      value == IF m.kind = "const" THEN <<[kind |-> "value", value |-> m.value]>> ELSE <<>>
      code == IF m.kind \in {"method", "ctor"} THEN <<Other>> ELSE <<>>
  IN IF jdk6 THEN <<decl, Desc(m.desc)>> \o value \o code \o <<Other>>
     ELSE <<decl, Desc(m.desc), Other>> \o value \o code \o <<Other>>

(* Lists of at most two distinct members. *)
MemberLists ==
  {<<>>} \cup {<<x>> : x \in MemberMenu}
  \cup ({<<x, y>> : x, y \in MemberMenu} \ {<<x, x>> : x \in MemberMenu})

Render(c, ms, jdk6, str) ==
  LET pool == IF str THEN <<[kind |-> "string"], [kind |-> "string"], Other>> ELSE <<Other>>
      body == FoldLeft(LAMBDA acc, m : acc \o MemberLines(m, c, jdk6), <<>>, ms)
  IN <<Other, Other, [kind |-> "class", name |-> c], Other>> \o pool \o <<Other>> \o body \o <<Other>>

MCListings ==
  {[members |-> ms, lines |-> Render(c, ms, jdk6, str)] :
     c \in ClassMenu, ms \in MemberLists, jdk6 \in BOOLEAN, str \in BOOLEAN}
=============================================================================
