--------------------------- MODULE JniHeaderProofs ---------------------------
(***************************************************************************)
(* Proofs about JniHeader, for every class path and every method model    *)
(* the extractors can produce, with and without --native_exports_optional. *)
(***************************************************************************)
EXTENDS JniHeader, FiniteSetTheorems, TLAPS

(* The method model and the option are those of one input, for good. *)
InputIsFixed ==
  \E inp \in Inputs :
    /\ natives = inp.natives
    /\ calledByNatives = inp.calledByNatives
    /\ exportsOptional = inp.nativeExportsOptional

(* A generated header is GetContent's content for the current model. *)
HeaderIsContent ==
  phase = "generated" => header = Content(natives, calledByNatives, methodIds, exportsOptional)

(* Once mangled, the ids are MangleCalledByNatives' for the current model. *)
IdsAreMangled ==
  phase \in {"mangled", "generated"} => methodIds = MethodIds(calledByNatives)

IInv == InputIsFixed /\ HeaderIsContent /\ IdsAreMangled

(* No method of the model names the outer class as its own class. *)
NoOwnName(origin) == \A i \in DOMAIN origin : origin[i].cls # ClassName

(* A class dict maps each class to its JNI path. *)
MapsToPaths(d) == \A c \in DOMAIN d : d[c] = PathOf(c)

-----------------------------------------------------------------------------

(* GetUniqueClasses: the outer class and every named nested class are in  *)
(* the dict, each with its JNI path.                                       *)
LEMMA UniqueClassesPaths ==
  ASSUME NEW origin, NoOwnName(origin)
  PROVE  /\ ClassName \in DOMAIN UniqueClasses(origin)
         /\ \A i \in DOMAIN origin :
              origin[i].cls # EmptyString => origin[i].cls \in DOMAIN UniqueClasses(origin)
         /\ MapsToPaths(UniqueClasses(origin))
<1> DEFINE inner == {origin[i].cls : i \in {i \in DOMAIN origin : origin[i].cls # EmptyString}}
<1>1. UniqueClasses(origin) = [c \in {ClassName} \cup inner |->
                                 IF c \in inner THEN OuterClass \o "$" \o c ELSE OuterClass]
  BY DEF UniqueClasses
<1>2. ClassName \notin inner
  BY DEF NoOwnName
<1>3. \A c \in inner : OuterClass \o "$" \o c = PathOf(c)
  BY <1>2 DEF PathOf
<1>4. OuterClass = PathOf(ClassName)
  BY DEF PathOf
<1>5. QED
  BY <1>1, <1>3, <1>4 DEF MapsToPaths

(* dict.update keeps every entry at its path if both dicts do. *)
LEMMA UpdatePaths ==
  ASSUME NEW d, NEW e, MapsToPaths(d), MapsToPaths(e)
  PROVE  /\ MapsToPaths(Update(d, e))
         /\ DOMAIN Update(d, e) = DOMAIN d \cup DOMAIN e
  BY DEF Update, MapsToPaths

(* GetClassPathDefinitions: every class of a called-by-native, and under  *)
(* the option every class of a native, is defined, each with its path.    *)
LEMMA DefinitionsPaths ==
  ASSUME NEW nats, NEW cbns, NEW optional \in BOOLEAN, NoOwnName(nats), NoOwnName(cbns)
  PROVE  /\ MapsToPaths(ClassPathDefinitions(nats, cbns, optional))
         /\ DOMAIN UniqueClasses(cbns) \subseteq DOMAIN ClassPathDefinitions(nats, cbns, optional)
         /\ optional => DOMAIN UniqueClasses(nats) \subseteq DOMAIN ClassPathDefinitions(nats, cbns, optional)
<1>1. MapsToPaths(UniqueClasses(cbns)) /\ MapsToPaths(UniqueClasses(nats))
  BY UniqueClassesPaths
<1>2. CASE optional
  BY <1>1, <1>2, UpdatePaths DEF ClassPathDefinitions
<1>3. CASE ~optional
  BY <1>1, <1>3 DEF ClassPathDefinitions
<1>4. QED
  BY <1>2, <1>3

(* The C++ class of a called-by-native has a GetUniqueClasses entry. *)
LEMMA JavaClassDefined ==
  ASSUME NEW cbns, NoOwnName(cbns), NEW i \in DOMAIN cbns
  PROVE  JavaClass(cbns[i]) \in DOMAIN UniqueClasses(cbns)
  BY UniqueClassesPaths DEF JavaClass

(* The classes RegisterNativesImpl registers have GetUniqueClasses entries. *)
LEMMA TableClassesDefined ==
  ASSUME NEW nats, NoOwnName(nats), NEW optional \in BOOLEAN
  PROVE  /\ optional => TableClasses(nats, optional) \subseteq DOMAIN UniqueClasses(nats)
         /\ ~optional => TableClasses(nats, optional) = {}
<1>1. ClassName \in DOMAIN UniqueClasses(nats)
  BY UniqueClassesPaths
<1>2. DOMAIN Update(UniqueClasses(nats), [c \in {ClassName} |-> OuterClass])
        = DOMAIN UniqueClasses(nats) \cup {ClassName}
  BY DEF Update
<1>3. QED
  BY <1>1, <1>2 DEF TableClasses

-----------------------------------------------------------------------------

LEMMA InitIInv == Init => IInv
  BY DEF Init, IInv, InputIsFixed, HeaderIsContent, IdsAreMangled

LEMMA NextIInv == IInv /\ [Next]_vars => IInv'
<1> SUFFICES ASSUME IInv, [Next]_vars PROVE IInv'
  OBVIOUS
<1>1. InputIsFixed'
  BY DEF IInv, InputIsFixed, Next, vars, MangleCalledByNatives, RejectNoJniMethods, GetContent
<1>2. HeaderIsContent'
  <2>1. CASE MangleCalledByNatives
    BY <2>1 DEF MangleCalledByNatives, HeaderIsContent
  <2>2. CASE RejectNoJniMethods
    BY <2>2 DEF RejectNoJniMethods, HeaderIsContent
  <2>3. CASE GetContent
    BY <2>3 DEF GetContent, HeaderIsContent
  <2>4. CASE UNCHANGED vars
    BY <2>4 DEF vars, IInv, HeaderIsContent
  <2>5. QED
    BY <2>1, <2>2, <2>3, <2>4 DEF Next
<1>3. IdsAreMangled'
  <2>1. CASE MangleCalledByNatives
    BY <2>1 DEF MangleCalledByNatives, IdsAreMangled
  <2>2. CASE RejectNoJniMethods
    BY <2>2 DEF RejectNoJniMethods, IdsAreMangled
  <2>3. CASE GetContent
    BY <2>3 DEF GetContent, IInv, IdsAreMangled
  <2>4. CASE UNCHANGED vars
    BY <2>4 DEF vars, IInv, IdsAreMangled
  <2>5. QED
    BY <2>1, <2>2, <2>3, <2>4 DEF Next
<1>4. QED
  BY <1>1, <1>2, <1>3 DEF IInv

(***************************************************************************)
(* For every class and every method model, with and without               *)
(* --native_exports_optional, every class handle a called-by-native stub  *)
(* or RegisterNativesImpl uses is defined by GetClassPathDefinitions with  *)
(* the JNI path of its class (the property ClassHandlesDefined the run     *)
(* jni_header_pass checks).                                                *)
(***************************************************************************)
THEOREM ClassHandlesAlwaysDefined == Spec => []ClassHandlesDefined
<1>1. IInv => ClassHandlesDefined
  <2> SUFFICES ASSUME IInv, phase = "generated",
                      NEW c \in {header.methodStubs[i].cls : i \in DOMAIN header.methodStubs}
                                \cup header.registered
               PROVE  c \in DOMAIN header.classes /\ header.classes[c] = PathOf(c)
    BY DEF ClassHandlesDefined
  <2>1. PICK inp \in Inputs : /\ natives = inp.natives
                              /\ calledByNatives = inp.calledByNatives
                              /\ exportsOptional = inp.nativeExportsOptional
    BY DEF IInv, InputIsFixed
  <2>2. NoOwnName(natives) /\ NoOwnName(calledByNatives) /\ exportsOptional \in BOOLEAN
    BY <2>1, InputsAssumption DEF NoOwnName, InputType
  <2> DEFINE defs == ClassPathDefinitions(natives, calledByNatives, exportsOptional)
  <2>3. header.classes = defs
        /\ header.methodStubs = [i \in DOMAIN calledByNatives |->
                                   CalledByNativeStub(calledByNatives[i], methodIds[i])]
        /\ header.registered = TableClasses(natives, exportsOptional)
    BY DEF IInv, HeaderIsContent, Content
  <2>4. MapsToPaths(defs)
    BY <2>2, DefinitionsPaths
  <2>5. c \in DOMAIN defs
    <3>1. CASE c \in {header.methodStubs[i].cls : i \in DOMAIN header.methodStubs}
      <4>1. PICK i \in DOMAIN calledByNatives : c = JavaClass(calledByNatives[i])
        BY <2>3, <3>1 DEF CalledByNativeStub
      <4>2. QED
        BY <2>2, <4>1, JavaClassDefined, DefinitionsPaths
    <3>2. CASE c \in header.registered
      BY <2>2, <2>3, <3>2, TableClassesDefined, DefinitionsPaths
    <3>3. QED
      BY <3>1, <3>2
  <2>6. QED
    BY <2>3, <2>4, <2>5 DEF MapsToPaths
<1>2. QED
  BY <1>1, InitIInv, NextIInv, PTL DEF Spec

(***************************************************************************)
(* A method no other method of its class shares a name with is alone in   *)
(* its method_counts group: the code groups by java_class_name, and two   *)
(* methods with the same java_class_name have the same enclosing class.   *)
(***************************************************************************)
LEMMA UniqueMethodNotOverloaded ==
  ASSUME NEW cbns, NEW i \in DOMAIN cbns,
         ~\E j \in DOMAIN cbns :
            /\ j # i
            /\ JavaClass(cbns[j]) = JavaClass(cbns[i])
            /\ cbns[j].name = cbns[i].name
  PROVE  ~Overloaded(cbns, i)
<1>1. Group(cbns, i) = {i}
  <2>1. ASSUME NEW j \in Group(cbns, i) PROVE j = i
    <3>1. j \in DOMAIN cbns /\ cbns[j].cls = cbns[i].cls /\ cbns[j].name = cbns[i].name
      BY <2>1 DEF Group
    <3>2. JavaClass(cbns[j]) = JavaClass(cbns[i])
      BY <3>1 DEF JavaClass
    <3>3. QED
      BY <3>1, <3>2
  <2>2. i \in Group(cbns, i)
    BY DEF Group
  <2>3. QED
    BY <2>1, <2>2
<1>2. Cardinality({i}) = 1
  BY FS_Singleton
<1>3. QED
  BY <1>1, <1>2 DEF Overloaded

(***************************************************************************)
(* For every class path and every method model, a @CalledByNative method  *)
(* that no other method of its class shares a name with keeps its plain   *)
(* name as method id, in the mangled model and in the header generated    *)
(* from it (MangleCalledByNatives; the property UniqueMethodKeepsPlainName *)
(* the run jni_header_pass checks).                                        *)
(***************************************************************************)
THEOREM PlainNameKept == Spec => []UniqueMethodKeepsPlainName
<1>1. IInv => UniqueMethodKeepsPlainName
  <2> SUFFICES ASSUME IInv, phase \in {"mangled", "generated"},
                      NEW i \in DOMAIN calledByNatives,
                      ~\E j \in DOMAIN calledByNatives :
                         /\ j # i
                         /\ JavaClass(calledByNatives[j]) = JavaClass(calledByNatives[i])
                         /\ calledByNatives[j].name = calledByNatives[i].name
               PROVE  methodIds[i] = calledByNatives[i].name
    BY DEF UniqueMethodKeepsPlainName
  <2>1. methodIds = MethodIds(calledByNatives)
    BY DEF IInv, IdsAreMangled
  <2>2. ~Overloaded(calledByNatives, i)
    BY UniqueMethodNotOverloaded
  <2>3. QED
    BY <2>1, <2>2 DEF MethodIds
<1>2. QED
  BY <1>1, InitIInv, NextIInv, PTL DEF Spec
=============================================================================
