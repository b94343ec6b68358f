------------------------------ MODULE JniParams ------------------------------
(***************************************************************************)
(* The resolution context of jni_generator.py and its type resolver.       *)
(*                                                                         *)
(* JniParams keeps the context of a conversion in class attributes:        *)
(* _fully_qualified_class, _package, _imports, _inner_classes and the      *)
(* lazily loaded _implicit_imports.  JNIFromJavaSource.__init__ sets the   *)
(* class with SetFullyQualifiedClass, fills the context with               *)
(* ExtractImportsAndInnerClasses (imports, then nested class names, then   *)
(* @JNIAdditionalImport entries through AddAdditionalImport), and every    *)
(* later step of the conversion resolves type names with JavaToJni.        *)
(* SetFullyQualifiedClass overwrites the class and the package but nothing *)
(* ever empties _imports or _inner_classes: a process that converts        *)
(* several files resolves the later ones in the accumulated context.       *)
(*                                                                         *)
(* A conversion is modelled as the ordered list of the context-building    *)
(* and resolving steps its input file gives rise to; the process runs at   *)
(* most MaxConversions of them one after the other.  Names are strings and *)
(* are matched character by character as the code matches them.           *)
(***************************************************************************)
EXTENDS Naturals, Sequences, SequencesExt, JniStrings

CONSTANTS
  Files,           \* the input files a conversion may be run on
  ImplicitClasses, \* the lines of android_jar.classes, e.g. "android/app/Activity.class"
  MaxConversions   \* how many files one process converts

(***************************************************************************)
(* An input file, as the regular expressions of the extractor see it once  *)
(* comments are removed:                                                   *)
(*   package    the "package" line, e.g. "org.chromium.foo";               *)
(*   name       the file's base name, the outer class;                     *)
(*   imports    the captures of re_import, in order;                       *)
(*   classes    the names captured by re_inner ("class X" and              *)
(*              "interface X"), the outer class included, in order;        *)
(*   additional the comma-separated entries of @JNIAdditionalImport;       *)
(*   uses       the type names the conversion resolves, in the order the   *)
(*              mangler and the header generator resolve them.             *)
(***************************************************************************)
FileType == [package : STRING, name : STRING, imports : Seq(STRING),
             classes : Seq(STRING), additional : Seq(STRING), uses : Seq(STRING)]

(***************************************************************************)
(* A class literal in @JNIAdditionalImport ends in ".class" (the assert),  *)
(* and a file has a package: ExtractFullyQualifiedJavaClassName raises     *)
(* without one, ExtractImportsAndInnerClasses with an empty one.           *)
(***************************************************************************)
ASSUME FilesAssumption ==
  /\ Files # {}
  /\ Files \subseteq FileType
  /\ \A f \in Files : f.package # EmptyString
  /\ \A f \in Files : \A i \in 1 .. Len(f.additional) : EndsWith(f.additional[i], ".class")

ASSUME ImplicitClassesAssumption == ImplicitClasses \in Seq(STRING)

ASSUME MaxConversionsAssumption == MaxConversions \in Nat \ {0}

VARIABLES
  fqc,             \* JniParams._fully_qualified_class, "L" + the class path
  package,         \* JniParams._package
  imports,         \* JniParams._imports
  innerClasses,    \* JniParams._inner_classes
  implicitImports, \* JniParams._implicit_imports, <<>> until first loaded
  file,            \* the file being converted
  todo,            \* the steps of the conversion still to run
  outcome,         \* "running", "ok", or the exception that ended it
  conversions      \* how many conversions the process has started

vars == <<fqc, package, imports, innerClasses, implicitImports, file, todo,
          outcome, conversions>>

Errors == {"QualifiedAdditionalImport", "DuplicateAdditionalImport",
           "InnerClassImport", "UnimportedOuterClass", "AmbiguousClass"}

-----------------------------------------------------------------------------
(***************************************************************************)
(* Context building.                                                       *)
(***************************************************************************)

(* ExtractFullyQualifiedJavaClassName: the class path of the file. *)
FullyQualifiedClass(f) == Replace(f.package, ".", "/") \o "/" \o f.name

(* SetFullyQualifiedClass: _fully_qualified_class and _package for f. *)
ClassDescriptor(f) == "L" \o FullyQualifiedClass(f)
PackagePath(f) == AllButLastSegment(FullyQualifiedClass(f), "/")

(* Faulty variant: the dots of the import are kept (detected by ImportedNameResolvesToItsImport). *)
ImportEntryKeepsDots(text) == "L" \o text

(* The entry re_import adds for "import <text>;". *)
ImportEntry(text) == "L" \o Replace(text, ".", "/")

(* Faulty variant: the '$' separator is forgotten (detected by TypeOK). *)
InnerEntryNoDollar(outer, name) == outer \o name

(* The entry a nested class "class <name>" adds. *)
InnerEntry(outer, name) == outer \o "$" \o name

(* The entry AddAdditionalImport builds for "<name>.class". *)
RawClassName(classLiteral) == SubSeq(classLiteral, 1, Len(classLiteral) - Len(".class"))
(* Faulty variant: '.' instead of '/' before the name (detected by AdditionalImportResolvesToPackage). *)
AdditionalEntryDotted(pkg, classLiteral) == "L" \o pkg \o "." \o RawClassName(classLiteral)
AdditionalEntry(pkg, classLiteral) == "L" \o pkg \o "/" \o RawClassName(classLiteral)

(* The steps of converting f, in the order JNIFromJavaSource runs them. *)
Step(kind, texts) == [i \in 1 .. Len(texts) |-> [kind |-> kind, text |-> texts[i]]]
Steps(f) == Step("import", f.imports) \o Step("class", f.classes)
              \o Step("additional", f.additional) \o Step("use", f.uses)

-----------------------------------------------------------------------------
(***************************************************************************)
(* The type resolver, JavaToJni.                                           *)
(***************************************************************************)

PodCode == [int |-> "I", boolean |-> "Z", char |-> "C", short |-> "S",
            long |-> "J", double |-> "D", float |-> "F", byte |-> "B",
            void |-> "V"]

ObjectParamList == <<"Ljava/lang/Boolean", "Ljava/lang/Integer", "Ljava/lang/Long",
                     "Ljava/lang/Object", "Ljava/lang/String", "Ljava/lang/Class",
                     "Ljava/lang/CharSequence", "Ljava/lang/Runnable",
                     "Ljava/lang/Throwable">>

(* How many "[]" the while loop strips from the end of param. *)
HasArraySuffixes(param, k) ==
  /\ 2 * k <= Len(param)
  /\ \A j \in 1 .. k : SubSeq(param, Len(param) - 2 * j + 1, Len(param) - 2 * j + 2) = "[]"
ArrayDepth(param) ==
  CHOOSE k \in 0 .. Len(param) : HasArraySuffixes(param, k) /\ ~HasArraySuffixes(param, k + 1)
ArrayPrefix(k) == LET P[i \in 0 .. k] == IF i = 0 THEN "" ELSE "[" \o P[i - 1] IN P[k]

(* The name left once arrays and a generic suffix are stripped. *)
BaseName(param) ==
  LET p == SubSeq(param, 1, Len(param) - 2 * ArrayDepth(param))
  IN IF HasChar(p, "<") THEN Before(p, FirstPos(p, "<")) ELSE p

(* The match against the well-known classes, the class and its inner ones. *)
KnownMatch(q, p) ==
  \/ EndsWith(q, "/" \o p)
  \/ EndsWith(q, "$" \o Replace(p, ".", "$"))
  \/ q = "L" \o p

(* len(components) > 2 and components[-2][0].isupper() on q.split('/'). *)
IsNestedPath(q) ==
  LET outerPath == AllButLastSegment(q, "/")
  IN /\ HasChar(outerPath, "/")
     /\ IsUpper(Char(LastSegment(outerPath, "/"), 1))

(* Faulty variant: the table is read before it is loaded (detected by AmbiguousNameNeverGuessed). *)
LoadedImplicitImportsUnloaded == implicitImports

(* The table _CheckImplicitImports uses: loaded on its first use. *)
LoadedImplicitImports == IF implicitImports = <<>> THEN ImplicitClasses ELSE implicitImports

(* _CheckImplicitImports: some implicitly visible class has name p. *)
Ambiguous(p) ==
  \E i \in 1 .. Len(LoadedImplicitImports) :
    EndsWith(Replace(Replace(LoadedImplicitImports[i], ".class", ""), "/", "."), "." \o p)

(* Which rule of JavaToJni decides p, in the order the code tries them. *)
KnownIndex(p) == SelectInSeq(ObjectParamList \o <<fqc>> \o innerClasses, LAMBDA q : KnownMatch(q, p))
ImportIndex(p) == SelectInSeq(imports, LAMBDA q : EndsWith(q, "/" \o p))
OuterName(p) == Replace(Before(p, LastPos(p, ".")), ".", "/")
OuterImportIndex(p) == SelectInSeq(imports, LAMBDA q : EndsWith(q, "/" \o OuterName(p)))
Rule(p) ==
  IF p \in DOMAIN PodCode THEN "pod"
  ELSE IF HasChar(p, "/") THEN "qualified"
  ELSE IF KnownIndex(p) # 0 THEN "known"
  ELSE IF ImportIndex(p) # 0 THEN
    IF IsNestedPath(imports[ImportIndex(p)]) THEN "innerImport" ELSE "import"
  ELSE IF HasChar(p, ".") THEN
    IF OuterImportIndex(p) # 0 THEN "outerImport" ELSE "unimportedOuter"
  ELSE "fallback"

Ok(descriptor) == [ok |-> TRUE, value |-> descriptor]
Fail(error) == [ok |-> FALSE, value |-> error]

(* JavaToJni(param): the JNI descriptor of param, or the SyntaxError. *)
JavaToJni(param) ==
  LET p == BaseName(param)
      pre == ArrayPrefix(ArrayDepth(param))
      known == (ObjectParamList \o <<fqc>> \o innerClasses)[KnownIndex(p)]
  IN CASE Rule(p) = "pod" -> Ok(pre \o PodCode[p])
       [] Rule(p) = "qualified" -> Ok(pre \o "L" \o p \o ";")
       [] Rule(p) = "known" -> Ok(pre \o known \o ";")
       [] Rule(p) = "innerImport" -> Fail("InnerClassImport")
       [] Rule(p) = "import" -> Ok(pre \o imports[ImportIndex(p)] \o ";")
       [] Rule(p) = "outerImport" ->
            Ok(pre \o imports[OuterImportIndex(p)] \o "$" \o LastSegment(p, ".") \o ";")
       [] Rule(p) = "unimportedOuter" -> Fail("UnimportedOuterClass")
       [] Rule(p) = "fallback" ->
            IF Ambiguous(p) THEN Fail("AmbiguousClass")
            ELSE Ok(pre \o "L" \o package \o "/" \o p \o ";")

-----------------------------------------------------------------------------
(***************************************************************************)
(* The process.                                                            *)
(***************************************************************************)

Init ==
  /\ fqc = EmptyString
  /\ package = EmptyString
  /\ imports = <<>>
  /\ innerClasses = <<>>
  /\ implicitImports = <<>>
  /\ file = CHOOSE f \in Files : TRUE
  /\ todo = <<>>
  /\ outcome = "ok"
  /\ conversions = 0

(* Faulty variant: _package split from the "L"-prefixed class (detected by TypeOK). *)
SetFullyQualifiedClassPackageFromDescriptor(f) ==
  /\ outcome # "running"
  /\ conversions < MaxConversions
  /\ fqc' = ClassDescriptor(f)
  /\ package' = AllButLastSegment(ClassDescriptor(f), "/")
  /\ file' = f
  /\ todo' = Steps(f)
  /\ outcome' = "running"
  /\ conversions' = conversions + 1
  /\ UNCHANGED <<imports, innerClasses, implicitImports>>

(* JNIFromJavaSource.__init__ starts on f: SetFullyQualifiedClass. *)
SetFullyQualifiedClass(f) ==
  /\ outcome # "running"
  /\ conversions < MaxConversions
  /\ fqc' = ClassDescriptor(f)
  /\ package' = PackagePath(f)
  /\ file' = f
  /\ todo' = Steps(f)
  /\ outcome' = "running"
  /\ conversions' = conversions + 1
  /\ UNCHANGED <<imports, innerClasses, implicitImports>>

(* ExtractImportsAndInnerClasses: one import. *)
ExtractImport ==
  /\ outcome = "running"
  /\ todo # <<>> /\ Head(todo).kind = "import"
  /\ imports' = Append(imports, ImportEntry(Head(todo).text))
  /\ todo' = Tail(todo)
  /\ UNCHANGED <<fqc, package, innerClasses, implicitImports, file, outcome, conversions>>

(* ExtractImportsAndInnerClasses: one "class X" or "interface X". *)
ExtractInnerClass ==
  /\ outcome = "running"
  /\ todo # <<>> /\ Head(todo).kind = "class"
  /\ innerClasses' = IF EndsWith(fqc, Head(todo).text) THEN innerClasses
                     ELSE Append(innerClasses, InnerEntry(fqc, Head(todo).text))
  /\ todo' = Tail(todo)
  /\ UNCHANGED <<fqc, package, imports, implicitImports, file, outcome, conversions>>

(* AddAdditionalImport for one entry of @JNIAdditionalImport. *)
AddAdditionalImport ==
  /\ outcome = "running"
  /\ todo # <<>> /\ Head(todo).kind = "additional"
  /\ LET literal == Head(todo).text
         new == AdditionalEntry(package, literal)
     IN \/ /\ HasChar(RawClassName(literal), ".")
           /\ outcome' = "QualifiedAdditionalImport"
           /\ todo' = <<>>
           /\ UNCHANGED imports
        \/ /\ ~HasChar(RawClassName(literal), ".")
           /\ new \in Range(imports)
           /\ outcome' = "DuplicateAdditionalImport"
           /\ todo' = <<>>
           /\ UNCHANGED imports
        \/ /\ ~HasChar(RawClassName(literal), ".")
           /\ new \notin Range(imports)
           /\ imports' = Append(imports, new)
           /\ todo' = Tail(todo)
           /\ UNCHANGED outcome
  /\ UNCHANGED <<fqc, package, innerClasses, implicitImports, file, conversions>>

(* One call of JavaToJni; a SyntaxError ends the conversion. *)
ResolveType ==
  /\ outcome = "running"
  /\ todo # <<>> /\ Head(todo).kind = "use"
  /\ LET result == JavaToJni(Head(todo).text)
     IN /\ todo' = IF result.ok THEN Tail(todo) ELSE <<>>
        /\ outcome' = IF result.ok THEN outcome ELSE result.value
  /\ implicitImports' = IF Rule(BaseName(Head(todo).text)) = "fallback"
                        THEN LoadedImplicitImports ELSE implicitImports
  /\ UNCHANGED <<fqc, package, imports, innerClasses, file, conversions>>

(* Every type resolved: the conversion produces its header. *)
FinishConversion ==
  /\ outcome = "running"
  /\ todo = <<>>
  /\ outcome' = "ok"
  /\ UNCHANGED <<fqc, package, imports, innerClasses, implicitImports, file, todo, conversions>>

Next ==
  \/ \E f \in Files : SetFullyQualifiedClass(f)
  \/ ExtractImport
  \/ ExtractInnerClass
  \/ AddAdditionalImport
  \/ ResolveType
  \/ FinishConversion

Spec == Init /\ [][Next]_vars

-----------------------------------------------------------------------------
(***************************************************************************)
(* Properties.  They speak of a conversion whose context is complete       *)
(* (only resolutions are left) and compare what JavaToJni returns with the *)
(* class the file itself names, in Java's terms.                           *)
(***************************************************************************)

(* Every variable holds what the operations above can put in it. *)
ImportTexts == UNION {Range(f.imports) : f \in Files}
ClassLiterals == UNION {Range(f.additional) : f \in Files}
ClassNames == UNION {Range(f.classes) : f \in Files}
UseTexts == UNION {Range(f.uses) : f \in Files}
ImportEntries ==
  {ImportEntry(t) : t \in ImportTexts}
  \cup {AdditionalEntry(PackagePath(g), a) : g \in Files, a \in ClassLiterals}
InnerEntries == {InnerEntry(ClassDescriptor(g), n) : g \in Files, n \in ClassNames}
StepType ==
  {[kind |-> "import", text |-> t] : t \in ImportTexts} \cup {[kind |-> "class", text |-> t] : t \in ClassNames}
  \cup {[kind |-> "additional", text |-> t] : t \in ClassLiterals} \cup {[kind |-> "use", text |-> t] : t \in UseTexts}
TypeOK ==
  /\ fqc \in {EmptyString} \cup {ClassDescriptor(f) : f \in Files}
  /\ package \in {EmptyString} \cup {PackagePath(f) : f \in Files}
  /\ imports \in Seq(ImportEntries)
  /\ innerClasses \in Seq(InnerEntries)
  /\ implicitImports \in {<<>>, ImplicitClasses}
  /\ file \in Files
  /\ todo \in Seq(StepType)
  /\ outcome \in {"running", "ok"} \cup Errors
  /\ conversions \in 0 .. MaxConversions

(* The context is complete: only calls of JavaToJni are left. *)
Resolving == outcome = "running" /\ \A i \in DOMAIN todo : todo[i].kind = "use"

(* A plain class name: no package, nesting, array or generic part. *)
IsSimpleName(u) ==
  /\ u # "" /\ u \notin DOMAIN PodCode
  /\ \A c \in {".", "/", "[", "<"} : ~HasChar(u, c)

(* The JNI descriptor of the class with Java binary name n. *)
BinaryDescriptor(n) == "L" \o Replace(n, ".", "/") \o ";"

(* The file declares u itself, or u is one of the java.lang classes the resolver always knows. *)
DeclaredIn(f, u) == u \in Range(f.classes)
WellKnownName(u) == \E i \in DOMAIN ObjectParamList : EndsWith(ObjectParamList[i], "/" \o u)

(* An import names a top-level class: the segment before its name is a package (lower case). *)
TopLevelImport(text) == ~IsUpper(Char(LastSegment(AllButLastSegment(text, "."), "."), 1))
ImportsName(f, u) == \E i \in DOMAIN f.imports : LastSegment(f.imports[i], ".") = u
AdditionallyImports(f, u) == u \o ".class" \in Range(f.additional)

(* android.jar has a class whose simple name is u. *)
ImplicitlyVisible(u) ==
  \E i \in DOMAIN ImplicitClasses :
    LastSegment(SubSeq(ImplicitClasses[i], 1, Len(ImplicitClasses[i]) - Len(".class")), "/") = u

(***************************************************************************)
(* A class the file imports by name is resolved to that import (spec,      *)
(* "Testable properties": after adding the import, resolution yields the   *)
(* imported binary name), unless the file declares a class of that name or *)
(* it is one of the well-known java.lang classes.  This is what breaks     *)
(* when _imports still holds the imports of an earlier conversion.         *)
(***************************************************************************)
ImportedNameResolvesToItsImport ==
  Resolving =>
    \A u \in Range(file.uses), i \in DOMAIN file.imports :
      /\ IsSimpleName(u)
      /\ LastSegment(file.imports[i], ".") = u
      /\ TopLevelImport(file.imports[i])
      /\ ~DeclaredIn(file, u) /\ ~WellKnownName(u)
      => JavaToJni(u) = Ok(BinaryDescriptor(file.imports[i]))

(***************************************************************************)
(* A name listed in @JNIAdditionalImport resolves to the class of that     *)
(* name in the file's own package, even when android.jar has a class of    *)
(* the same name (the reason the annotation exists), unless the file also  *)
(* imports, declares or implicitly knows a class of that name.             *)
(***************************************************************************)
AdditionalImportResolvesToPackage ==
  Resolving =>
    \A u \in Range(file.uses) :
      /\ IsSimpleName(u) /\ AdditionallyImports(file, u)
      /\ ~ImportsName(file, u) /\ ~DeclaredIn(file, u) /\ ~WellKnownName(u)
      => JavaToJni(u) = Ok(BinaryDescriptor(file.package \o "." \o u))

(***************************************************************************)
(* A name that nothing in the file imports or declares, and that names a   *)
(* class of android.jar, is never guessed to be in the file's package:     *)
(* resolution fails (JniParams._CheckImplicitImports, with its table       *)
(* loaded lazily on first use).                                            *)
(***************************************************************************)
AmbiguousNameNeverGuessed ==
  Resolving =>
    \A u \in Range(file.uses) :
      /\ IsSimpleName(u) /\ ImplicitlyVisible(u)
      /\ ~ImportsName(file, u) /\ ~AdditionallyImports(file, u)
      /\ ~DeclaredIn(file, u) /\ ~WellKnownName(u)
      => ~JavaToJni(u).ok

(***************************************************************************)
(* A class the file declares nested in its outer class is resolved to      *)
(* Outer$Inner (spec 4.2, step 5: inner classes discovered during          *)
(* extraction), unless it is one of the well-known java.lang names.        *)
(***************************************************************************)
DeclaredInnerClassResolvesToNested ==
  Resolving =>
    \A u \in Range(file.uses) :
      /\ IsSimpleName(u) /\ DeclaredIn(file, u) /\ u # file.name
      /\ ~WellKnownName(u) /\ ~ImportsName(file, u)
      => JavaToJni(u) = Ok(BinaryDescriptor(file.package \o "." \o file.name \o "$" \o u))

(***************************************************************************)
(* A bare import of a nested class is rejected while the imports are       *)
(* processed, before any type is resolved (spec, "Testable properties":    *)
(* inner-class handling).                                                  *)
(***************************************************************************)
InnerClassImportRejectedBeforeResolution ==
  Resolving => \A i \in DOMAIN file.imports : TopLevelImport(file.imports[i])
=============================================================================
