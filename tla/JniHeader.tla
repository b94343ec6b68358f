------------------------------ MODULE JniHeader ------------------------------
(***************************************************************************)
(* One conversion's method model on its way to a header:                   *)
(* ExtractCalledByNatives ends with MangleCalledByNatives, which gives     *)
(* every @CalledByNative method its method_id_var_name, and                *)
(* InlHeaderFileGenerator.GetContent then emits, per class, a class path   *)
(* and a class handle, per native a stub, per called-by-native a jmethodID *)
(* cell and a stub, and, with --native_exports_optional, the kMethods      *)
(* tables and RegisterNativesImpl.  The header is abstracted to those      *)
(* definitions: their C++ names and what each one refers to.               *)
(*                                                                         *)
(* A type is given by its JNI descriptor, the value JniParams.JavaToJni    *)
(* returns for it (JniParams models how it is found).                      *)
(***************************************************************************)
EXTENDS Naturals, Sequences, SequencesExt, FiniteSets, JniStrings

CONSTANTS
  OuterClass,  \* InlHeaderFileGenerator.fully_qualified_class, e.g. "org/cr/Foo"
  Inputs       \* the method models the extractors can produce for that class

(* NativeMethod: the Java name (nativeX), and the class of @NativeCall, or "". *)
NativeType == [javaName : STRING, cls : STRING]
(***************************************************************************)
(* CalledByNative: the class of @CalledByNative("X") or "", the name, the  *)
(* descriptors of the return type and the parameters, the return type as  *)
(* the extractor captured it (return_type), static, and is_constructor.   *)
(***************************************************************************)
CalledByNativeType == [cls : STRING, name : STRING, ret : STRING, params : Seq(STRING),
                       returnType : STRING, static : BOOLEAN, ctor : BOOLEAN]
InputType == [natives : Seq(NativeType), calledByNatives : Seq(CalledByNativeType),
              nativeExportsOptional : BOOLEAN]

(* self.class_name: the last segment of the class path. *)
ClassName == LastSegment(OuterClass, "/")

(***************************************************************************)
(* Inputs are models of one Java class: no nested class has the name of   *)
(* the class itself (Java forbids it).                                     *)
(***************************************************************************)
ASSUME InputsAssumption ==
  /\ OuterClass \in STRING
  /\ Inputs \subseteq InputType
  /\ \A inp \in Inputs :
       /\ \A i \in DOMAIN inp.natives : inp.natives[i].cls # ClassName
       /\ \A i \in DOMAIN inp.calledByNatives : inp.calledByNatives[i].cls # ClassName

VARIABLES
  natives,          \* the NativeMethod list ExtractNatives returned
  calledByNatives,  \* the CalledByNative list ExtractCalledByNatives built
  exportsOptional,  \* options.native_exports_optional
  methodIds,        \* the method_id_var_name of each CalledByNative
  header,           \* the generated content, abstracted
  phase             \* "extracted", "mangled", "generated", or the error raised

vars == <<natives, calledByNatives, exportsOptional, methodIds, header, phase>>

-----------------------------------------------------------------------------
(***************************************************************************)
(* The overload mangler.                                                   *)
(***************************************************************************)

(* GetMangledParam: one character of a descriptor longer than two. *)
MangledChar(datatype, i) ==
  LET c == Char(datatype, i)
  IN IF c = "[" THEN "A"
     ELSE IF IsUpper(c) \/ Char(datatype, i - 1) \in {"/", "L"} THEN ToUpper(c)
     ELSE ""

(* GetMangledParam: the loop runs from the second character on. *)
GetMangledParam(datatype) ==
  IF Len(datatype) <= 2 THEN Replace(datatype, "[", "A")
  ELSE LET M[i \in 2 .. Len(datatype) + 1] ==
             IF i > Len(datatype) THEN "" ELSE MangledChar(datatype, i) \o M[i + 1]
       IN M[2]

(* GetMangledMethodName: name, then '_'.join of the return type and the params. *)
GetMangledMethodName(name, params, returnType) ==
  LET items == <<GetMangledParam(returnType)>> \o [i \in DOMAIN params |-> GetMangledParam(params[i])]
  IN name \o FoldLeft(LAMBDA acc, x : acc \o "_" \o x, Head(items), Tail(items))

(* The methods method_counts puts in the group of method i. *)
Group(cbns, i) == {j \in DOMAIN cbns : cbns[j].cls = cbns[i].cls /\ cbns[j].name = cbns[i].name}
(* Faulty variant: a group counts as overloaded from three members on (detected by OverloadedMethodMangled). *)
OverloadedOffByOne(cbns, i) == Cardinality(Group(cbns, i)) > 2
Overloaded(cbns, i) == Cardinality(Group(cbns, i)) > 1
MangledName(cbns, i) == GetMangledMethodName(cbns[i].name, cbns[i].params, cbns[i].ret)

(* Faulty variant: overloads counted by name only (detected by UniqueMethodKeepsPlainName). *)
MethodIdsByNameOnly(cbns) ==
  [i \in DOMAIN cbns |->
     IF Cardinality({j \in DOMAIN cbns : cbns[j].name = cbns[i].name}) > 1
     THEN GetMangledMethodName(cbns[i].name, cbns[i].params, cbns[i].ret)
     ELSE cbns[i].name]

(* Faulty variant: only overloaded methods get an id, the others none (detected by TypeOK). *)
MethodIdsOverloadedOnly(cbns) ==
  [i \in {i \in DOMAIN cbns : Overloaded(cbns, i)} |-> MangledName(cbns, i)]

(* MangleCalledByNatives: the plain name unless the group has several members. *)
MethodIds(cbns) ==
  [i \in DOMAIN cbns |->
     IF Overloaded(cbns, i) THEN MangledName(cbns, i) ELSE cbns[i].name]

(* The assert of GetMangledMethodName: re.match only anchors at the start. *)
IdentifierChars == {Char("0123456789_" \o Lower \o Upper, k) : k \in 1 .. 63}
AssertMatchesPrefix(s) == Len(s) > 0 /\ Char(s, 1) \in IdentifierChars

-----------------------------------------------------------------------------
(***************************************************************************)
(* The header synthesizer.                                                 *)
(***************************************************************************)

(* The C++ class name a method is emitted under: java_class_name or self.class_name. *)
JavaClass(m) == IF m.cls # EmptyString THEN m.cls ELSE ClassName

(* GetUniqueClasses(origin): class name -> JNI class path. *)
UniqueClasses(origin) ==
  LET inner == {origin[i].cls : i \in {i \in DOMAIN origin : origin[i].cls # EmptyString}}
  IN [c \in {ClassName} \cup inner |-> IF c \in inner THEN OuterClass \o "$" \o c ELSE OuterClass]

(* The union of two dicts, the second one's entries winning (dict.update). *)
Update(d, e) == [c \in DOMAIN d \cup DOMAIN e |-> IF c \in DOMAIN e THEN e[c] ELSE d[c]]

(* Faulty variant: the natives' classes are left out (detected by ClassHandlesDefined). *)
ClassPathDefinitionsCalledByNativesOnly(nats, cbns, optional) == UniqueClasses(cbns)

(* GetClassPathDefinitions: the classes of k<X>ClassPath and g_<X>_clazz. *)
ClassPathDefinitions(nats, cbns, optional) ==
  IF optional THEN Update(UniqueClasses(cbns), UniqueClasses(nats)) ELSE UniqueClasses(cbns)

(* ExtractNatives: name=match.group('name').replace('native', ''). *)
NativeName(n) == Replace(n.javaName, "native", "")

(* GetStubName: Java_<class path, '_' -> '_1', '/' -> '_'>[_00024<class>]_native<name>. *)
GetStubName(n) ==
  "Java_" \o Replace(Replace(OuterClass, "_", "_1"), "/", "_")
  \o (IF n.cls # EmptyString THEN "_00024" \o n.cls ELSE "")
  \o "_native" \o NativeName(n)

(* Faulty variant: only natives naming their class are listed (detected by NativesRegisteredInOwnTable). *)
KMethodsExplicitOnly(nats, clazz) ==
  SelectSeq(nats, LAMBDA n : n.cls = clazz)

(* GetKMethodsString(clazz): the natives of clazz, in order. *)
KMethods(nats, clazz) ==
  SelectSeq(nats, LAMBDA n : n.cls = clazz \/ (n.cls = EmptyString /\ clazz = ClassName))

(* SubstituteNativeMethods: one table per class with a non-empty kMethods. *)
TableClasses(nats, optional) ==
  IF optional
  THEN {c \in DOMAIN Update(UniqueClasses(nats), [c \in {ClassName} |-> OuterClass]) :
          KMethods(nats, c) # <<>>}
  ELSE {}

(* java_pod_type_map and java_type_map of JavaDataTypeToC. *)
JavaPodTypeMap ==
  "int" :> "jint" @@ "byte" :> "jbyte" @@ "char" :> "jchar" @@ "short" :> "jshort"
  @@ "boolean" :> "jboolean" @@ "long" :> "jlong" @@ "double" :> "jdouble" @@ "float" :> "jfloat"
JavaTypeMap ==
  "void" :> "void" @@ "String" :> "jstring" @@ "Throwable" :> "jthrowable"
  @@ "java/lang/String" :> "jstring" @@ "java/lang/Class" :> "jclass"
  @@ "java/lang/Throwable" :> "jthrowable"

(* java_type[:-2] *)
ElementType(t) == SubSeq(t, 1, Len(t) - 2)

(* JavaDataTypeToC: the first branch that applies, in the order of the code. *)
JavaDataTypeToC(t) ==
  IF t \in DOMAIN JavaPodTypeMap THEN JavaPodTypeMap[t]
  ELSE IF t \in DOMAIN JavaTypeMap THEN JavaTypeMap[t]
  ELSE IF EndsWith(t, "[]")
       THEN IF ElementType(t) \in DOMAIN JavaPodTypeMap
            THEN JavaPodTypeMap[ElementType(t)] \o "Array" ELSE "jobjectArray"
  ELSE IF StartsWith(t, "Class") THEN "jclass"
  ELSE "jobject"

(* The type_map of GetStaticCastForReturnType: strings, throwables, arrays of primitives. *)
StaticCastMap ==
  ("String" :> "jstring" @@ "java/lang/String" :> "jstring"
   @@ "Throwable" :> "jthrowable" @@ "java/lang/Throwable" :> "jthrowable")
  @@ [t \in {p \o "[]" : p \in DOMAIN JavaPodTypeMap} |-> JavaPodTypeMap[ElementType(t)] \o "Array"]

(* GetStaticCastForReturnType: the cast, or None (as ""). *)
GetStaticCastForReturnType(t) ==
  IF t \in DOMAIN StaticCastMap THEN StaticCastMap[t]
  ELSE IF EndsWith(t, "[]") THEN "jobjectArray"
  ELSE EmptyString

(* env_call_map of GetEnvCall. *)
EnvCallMap ==
  "boolean" :> "Boolean" @@ "byte" :> "Byte" @@ "char" :> "Char" @@ "short" :> "Short"
  @@ "int" :> "Int" @@ "long" :> "Long" @@ "float" :> "Float" @@ "void" :> "Void"
  @@ "double" :> "Double" @@ "Object" :> "Object"

(* Faulty variant: a static method called through the instance path (detected by StubInvocationFollowsDescriptor). *)
GetEnvCallIgnoringStatic(ctor, static, t) ==
  IF ctor THEN "NewObject"
  ELSE "Call" \o (IF t \in DOMAIN EnvCallMap THEN EnvCallMap[t] ELSE "Object") \o "Method"

(* GetEnvCall: the env->Call<X>Method (or NewObject) a stub dispatches through. *)
GetEnvCall(ctor, static, t) ==
  IF ctor THEN "NewObject"
  ELSE "Call" \o (IF static THEN "Static" ELSE "")
       \o (IF t \in DOMAIN EnvCallMap THEN EnvCallMap[t] ELSE "Object") \o "Method"

(* re.match(RE_SCOPED_JNI_TYPES, c): one of the prefixes, or "Array" anywhere. *)
IsScopedJniType(c) ==
  \/ \E p \in {"jobject", "jclass", "jstring", "jthrowable"} : StartsWith(c, p)
  \/ \E k \in 1 .. Len(c) : StartsWith(SubSeq(c, k, Len(c)), "Array")

(***************************************************************************)
(* GetCalledByNativeValues: the stub's class and method id, the C type of *)
(* ret (return_type), whether the stub returns it wrapped in a            *)
(* ScopedJavaLocalRef, the static_cast around the call, and the call.     *)
(***************************************************************************)
CalledByNativeStub(m, id) ==
  LET cType == JavaDataTypeToC(m.returnType)
  IN [cls     |-> JavaClass(m),
      var     |-> id,
      cType   |-> cType,
      wrapped |-> cType # "void" /\ IsScopedJniType(cType),
      cast    |-> GetStaticCastForReturnType(m.returnType),
      call    |-> GetEnvCall(m.ctor, m.static, m.returnType)]

(* GetContent: the definitions the header makes and the names they use. *)
Content(nats, cbns, ids, optional) ==
  [classes     |-> ClassPathDefinitions(nats, cbns, optional),
   nativeStubs |-> [i \in DOMAIN nats |-> GetStubName(nats[i])],
   methodStubs |-> [i \in DOMAIN cbns |-> CalledByNativeStub(cbns[i], ids[i])],
   tables      |-> [c \in TableClasses(nats, optional) |->
                      [k \in DOMAIN KMethods(nats, c) |-> GetStubName(KMethods(nats, c)[k])]],
   registered  |-> TableClasses(nats, optional)]

-----------------------------------------------------------------------------
(***************************************************************************)
(* The conversion.                                                         *)
(***************************************************************************)

(* No content yet. *)
NoHeader == [classes |-> <<>>, nativeStubs |-> <<>>, methodStubs |-> <<>>, tables |-> <<>>,
             registered |-> {}]

Init ==
  /\ \E inp \in Inputs :
       /\ natives = inp.natives
       /\ calledByNatives = inp.calledByNatives
       /\ exportsOptional = inp.nativeExportsOptional
  /\ methodIds = <<>>
  /\ header = NoHeader
  /\ phase = "extracted"

(* The return of ExtractCalledByNatives: MangleCalledByNatives. *)
MangleCalledByNatives ==
  /\ phase = "extracted"
  /\ methodIds' = MethodIds(calledByNatives)
  /\ phase' = IF \A i \in DOMAIN calledByNatives :
                   Overloaded(calledByNatives, i) => AssertMatchesPrefix(MangledName(calledByNatives, i))
              THEN "mangled" ELSE "AssertionError"
  /\ UNCHANGED <<natives, calledByNatives, exportsOptional, header>>

(* JNIFromJavaSource.__init__: no native and no @CalledByNative method. *)
RejectNoJniMethods ==
  /\ phase = "mangled"
  /\ natives = <<>> /\ calledByNatives = <<>>
  /\ phase' = "NoJniMethods"
  /\ UNCHANGED <<natives, calledByNatives, exportsOptional, methodIds, header>>

(* InlHeaderFileGenerator.GetContent, with its assert on the two sections. *)
GetContent ==
  /\ phase = "mangled"
  /\ natives # <<>> \/ calledByNatives # <<>>
  /\ header' = Content(natives, calledByNatives, methodIds, exportsOptional)
  /\ phase' = IF (DOMAIN header'.tables = {}) = (header'.registered = {})
              THEN "generated" ELSE "AssertionError"
  /\ UNCHANGED <<natives, calledByNatives, exportsOptional, methodIds>>

Next == MangleCalledByNatives \/ RejectNoJniMethods \/ GetContent

Spec == Init /\ [][Next]_vars

-----------------------------------------------------------------------------
(***************************************************************************)
(* Properties.                                                             *)
(***************************************************************************)

(* Every variable holds what the steps above can put in it. *)
TypeOK ==
  /\ natives \in Seq(NativeType)
  /\ calledByNatives \in Seq(CalledByNativeType)
  /\ exportsOptional \in BOOLEAN
  /\ methodIds \in Seq(STRING)
  /\ phase \in {"mangled", "generated"} => DOMAIN methodIds = DOMAIN calledByNatives
  /\ phase \in {"extracted", "mangled", "generated", "AssertionError", "NoJniMethods"}
  /\ DOMAIN header = {"classes", "nativeStubs", "methodStubs", "tables", "registered"}
  /\ \A c \in DOMAIN header.classes : c \in STRING /\ header.classes[c] \in STRING
  /\ header.nativeStubs \in Seq(STRING)
  /\ header.methodStubs \in Seq([cls : STRING, var : STRING, cType : STRING, wrapped : BOOLEAN,
                                  cast : STRING, call : STRING])
  /\ \A c \in DOMAIN header.tables : c \in STRING /\ header.tables[c] \in Seq(STRING)
  /\ header.registered \subseteq STRING

(* The JNI class path of a class named in the header: the class or a nested one. *)
PathOf(c) == IF c = ClassName THEN OuterClass ELSE OuterClass \o "$" \o c

(***************************************************************************)
(* Every class handle the header uses, <X>_clazz(env) in a called-by-      *)
(* native stub or in RegisterNativesImpl, is defined by                    *)
(* GetClassPathDefinitions, with the JNI path of the class that declares   *)
(* the method.  The definitions and the uses come from different dicts     *)
(* (the called-by-natives' and the natives' GetUniqueClasses), joined only *)
(* under --native_exports_optional.                                        *)
(***************************************************************************)
ClassHandlesDefined ==
  phase = "generated" =>
    LET used == {header.methodStubs[i].cls : i \in DOMAIN header.methodStubs} \cup header.registered
    IN \A c \in used : c \in DOMAIN header.classes /\ header.classes[c] = PathOf(c)

(***************************************************************************)
(* With --native_exports_optional every native is listed in exactly one    *)
(* kMethods table, the one of the class that declares it, and every table  *)
(* is registered against that class; without it there are no tables and   *)
(* no RegisterNativesImpl (the assert of GetContent).                      *)
(***************************************************************************)
NativesRegisteredInOwnTable ==
  phase = "generated" =>
    IF exportsOptional
    THEN /\ DOMAIN header.tables = header.registered
         /\ \A i \in DOMAIN natives :
              {c \in DOMAIN header.tables : GetStubName(natives[i]) \in Range(header.tables[c])}
                = {JavaClass(natives[i])}
    ELSE DOMAIN header.tables = {} /\ header.registered = {}

(***************************************************************************)
(* A @CalledByNative method that no other method of its class shares a     *)
(* name with keeps its plain name as identifier (spec, "Testable           *)
(* properties": overload mangling).  The class is the spec's enclosing     *)
(* class, the current file's when the annotation names none; the code      *)
(* groups by java_class_name, which is '' then.                            *)
(***************************************************************************)
UniqueMethodKeepsPlainName ==
  phase \in {"mangled", "generated"} =>
    \A i \in DOMAIN calledByNatives :
      ~(\E j \in DOMAIN calledByNatives :
          /\ j # i
          /\ JavaClass(calledByNatives[j]) = JavaClass(calledByNatives[i])
          /\ calledByNatives[j].name = calledByNatives[i].name)
      => methodIds[i] = calledByNatives[i].name

(***************************************************************************)
(* A @CalledByNative method that shares its name with another method of   *)
(* its class does not keep the plain name: MangleCalledByNatives gives it *)
(* the mangled one (spec 4.3: groups of size >1 get a mangled identifier).*)
(***************************************************************************)
OverloadedMethodMangled ==
  phase \in {"mangled", "generated"} =>
    \A i, j \in DOMAIN calledByNatives :
      /\ j # i
      /\ JavaClass(calledByNatives[j]) = JavaClass(calledByNatives[i])
      /\ calledByNatives[j].name = calledByNatives[i].name
      => methodIds[i] # calledByNatives[i].name

(***************************************************************************)
(* The method identifiers MangleCalledByNatives gives are spliced into the *)
(* C names g_<X>_<id> and Java_<X>_<id>, so they must be distinct C        *)
(* identifiers: two same-named methods of one class with different        *)
(* parameter lists get two distinct identifiers (the docstring of          *)
(* GetMangledMethodName: unique for all valid overloads), and every       *)
(* identifier has letters, digits and underscores only (spec 4.3:         *)
(* otherwise an internal-invariant failure aborts).                        *)
(***************************************************************************)
MethodIdsDistinctIdentifiers ==
  phase \in {"mangled", "generated"} =>
    /\ \A i, j \in DOMAIN calledByNatives :
         /\ i # j
         /\ calledByNatives[i].cls = calledByNatives[j].cls
         /\ calledByNatives[i].name = calledByNatives[j].name
         /\ calledByNatives[i].params # calledByNatives[j].params
         => methodIds[i] # methodIds[j]
    /\ \A i \in DOMAIN methodIds :
         \A k \in 1 .. Len(methodIds[i]) : Char(methodIds[i], k) \in IdentifierChars

(* The JNI short-name escape of a class path or a method name. *)
JniEscapeChar(c) ==
  CASE c = "_" -> "_1" [] c = "/" -> "_" [] c = "$" -> "_00024" [] OTHER -> c
JniEscape(s) ==
  LET E[k \in 1 .. Len(s) + 1] == IF k > Len(s) THEN "" ELSE JniEscapeChar(Char(s, k)) \o E[k + 1]
  IN E[1]

(***************************************************************************)
(* Each native stub carries the name the VM looks up for the native        *)
(* method: Java_, the escaped binary class name, _, the escaped method     *)
(* name (spec 4.4: the runtime binds it by naming convention alone, which  *)
(* is how natives are bound without --native_exports_optional).           *)
(***************************************************************************)
NativeStubNamesFollowJniNaming ==
  phase = "generated" =>
    \A i \in DOMAIN natives :
      header.nativeStubs[i] =
        "Java_" \o JniEscape(PathOf(JavaClass(natives[i]))) \o "_" \o JniEscape(natives[i].javaName)
(***************************************************************************)
(* The JNI contract a stub is compiled and run against (jni.h): the C     *)
(* type of a value of each descriptor, the Call<Type>Method each result   *)
(* kind is fetched with, and the C++ conversions between the handle types *)
(* (_jclass, _jstring, _jthrowable and the arrays derive from _jobject).  *)
(***************************************************************************)
(* The primitive descriptors: the C type and the Call<Kind>Method of each. *)
PrimitiveCType ==
  "V" :> "void" @@ "Z" :> "jboolean" @@ "B" :> "jbyte" @@ "C" :> "jchar" @@ "S" :> "jshort"
  @@ "I" :> "jint" @@ "J" :> "jlong" @@ "F" :> "jfloat" @@ "D" :> "jdouble"
PrimitiveKind ==
  "V" :> "Void" @@ "Z" :> "Boolean" @@ "B" :> "Byte" @@ "C" :> "Char" @@ "S" :> "Short"
  @@ "I" :> "Int" @@ "J" :> "Long" @@ "F" :> "Float" @@ "D" :> "Double"

(* The C type jni.h gives a value of descriptor d. *)
JniCType(d) ==
  IF d \in DOMAIN PrimitiveCType THEN PrimitiveCType[d]
  ELSE IF d = "Ljava/lang/String;" THEN "jstring"
  ELSE IF d = "Ljava/lang/Class;" THEN "jclass"
  ELSE IF d = "Ljava/lang/Throwable;" THEN "jthrowable"
  ELSE IF Len(d) = 2 /\ Char(d, 1) = "[" /\ Char(d, 2) \in DOMAIN PrimitiveCType
       THEN PrimitiveCType[Char(d, 2)] \o "Array"
  ELSE IF Char(d, 1) = "[" THEN "jobjectArray"
  ELSE "jobject"

(* The JNI function that calls a method whose result has descriptor d. *)
JniCallFor(m) ==
  IF m.ctor THEN "NewObject"
  ELSE "Call" \o (IF m.static THEN "Static" ELSE "")
       \o (IF m.ret \in DOMAIN PrimitiveKind THEN PrimitiveKind[m.ret] ELSE "Object") \o "Method"

(* The C type a JNI call function returns: Call[Static]<Kind>Method's, or jobject. *)
CallResultCType(call) ==
  LET kinds == {d \in DOMAIN PrimitiveKind :
                  call \in {"Call" \o PrimitiveKind[d] \o "Method", "CallStatic" \o PrimitiveKind[d] \o "Method"}}
  IN IF kinds # {} THEN PrimitiveCType[CHOOSE d \in kinds : TRUE] ELSE "jobject"

(* The handle types, all pointers to classes derived from _jobject. *)
ReferenceCTypes ==
  {"jobject", "jclass", "jstring", "jthrowable", "jobjectArray"}
  \cup {PrimitiveCType[d] \o "Array" : d \in DOMAIN PrimitiveCType \ {"V"}}

(* A value of C type from converts implicitly to C type to: the same type, *)
(* or an upcast of a handle to jobject.                                   *)
Converts(from, to) == from = to \/ (to = "jobject" /\ from \in ReferenceCTypes)

(* The type of the expression assigned to ret: the static_cast, or the call's result. *)
AssignedCType(stub) == IF stub.cast # EmptyString THEN stub.cast ELSE CallResultCType(stub.call)

(***************************************************************************)
(* Every called-by-native stub dispatches through the JNI call function   *)
(* of its method's result kind and static-ness (NewObject for a           *)
(* constructor), and returns a reference result wrapped in a              *)
(* ScopedJavaLocalRef and a primitive one bare (spec 4.4: "performs the   *)
(* call via the invocation path selected by return type and               *)
(* static/constructor-ness ... wraps reference-typed results").  The call *)
(* is chosen by GetEnvCall from the written return type, the method id by *)
(* GetMethodIDImpl from the descriptor JniParams computed: a disagreement  *)
(* compiles, and calls the method through the wrong JNI function at run   *)
(* time.                                                                  *)
(***************************************************************************)
StubInvocationFollowsDescriptor ==
  phase = "generated" =>
    \A i \in DOMAIN calledByNatives :
      /\ header.methodStubs[i].call = JniCallFor(calledByNatives[i])
      /\ header.methodStubs[i].wrapped <=> Char(calledByNatives[i].ret, 1) \in {"L", "["}

(***************************************************************************)
(* The result of every stub is well typed: the C type of ret holds every  *)
(* value the method can return (JniCType of its descriptor converts to    *)
(* it), and the expression "ret = [static_cast<T>(]env->Call...(...)[)]"   *)
(* the stub assigns compiles (its type converts to the type of ret).      *)
(***************************************************************************)
StubReturnWellTyped ==
  phase = "generated" =>
    \A i \in DOMAIN calledByNatives :
      header.methodStubs[i].cType # "void" =>
        /\ Converts(JniCType(calledByNatives[i].ret), header.methodStubs[i].cType)
        /\ Converts(AssignedCType(header.methodStubs[i]), header.methodStubs[i].cType)
=============================================================================
