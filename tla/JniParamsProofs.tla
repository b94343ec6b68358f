--------------------------- MODULE JniParamsProofs ---------------------------
(***************************************************************************)
(* Proofs about JniParams, for every set of input files, every             *)
(* android.jar class list and every number of conversions per process.    *)
(***************************************************************************)
EXTENDS JniParams, SequenceTheorems, TLAPS

(***************************************************************************)
(* While a conversion runs, the class half of the context is the current   *)
(* file's: SetFullyQualifiedClass overwrites _fully_qualified_class and    *)
(* _package at its start and nothing else writes them.  (The import half   *)
(* has no such property: JniParamsStale shows it.)  TypeOK needs this to   *)
(* type the entries ExtractInnerClass and AddAdditionalImport build from   *)
(* fqc and package.                                                        *)
(***************************************************************************)
ClassContextIsCurrent ==
  outcome = "running" =>
    /\ fqc = ClassDescriptor(file)
    /\ package = PackagePath(file)

IInv == TypeOK /\ ClassContextIsCurrent

-----------------------------------------------------------------------------

(* The steps of a conversion are typed steps. *)
LEMMA StepsType ==
  ASSUME NEW f \in Files
  PROVE  Steps(f) \in Seq(StepType)
<1>1. f \in FileType
  BY FilesAssumption
<1>2. Step("import", f.imports) \in Seq(StepType)
  <2>1. \A i \in 1 .. Len(f.imports) : f.imports[i] \in ImportTexts
    BY <1>1 DEF ImportTexts, Range, FileType
  <2>2. QED
    BY <1>1, <2>1 DEF Step, StepType, FileType
<1>3. Step("class", f.classes) \in Seq(StepType)
  <2>1. \A i \in 1 .. Len(f.classes) : f.classes[i] \in ClassNames
    BY <1>1 DEF ClassNames, Range, FileType
  <2>2. QED
    BY <1>1, <2>1 DEF Step, StepType, FileType
<1>4. Step("additional", f.additional) \in Seq(StepType)
  <2>1. \A i \in 1 .. Len(f.additional) : f.additional[i] \in ClassLiterals
    BY <1>1 DEF ClassLiterals, Range, FileType
  <2>2. QED
    BY <1>1, <2>1 DEF Step, StepType, FileType
<1>5. Step("use", f.uses) \in Seq(StepType)
  <2>1. \A i \in 1 .. Len(f.uses) : f.uses[i] \in UseTexts
    BY <1>1 DEF UseTexts, Range, FileType
  <2>2. QED
    BY <1>1, <2>1 DEF Step, StepType, FileType
<1>6. QED
  BY <1>2, <1>3, <1>4, <1>5, ConcatProperties DEF Steps

(* A failed resolution reports one of the resolver's errors. *)
LEMMA JavaToJniFailure ==
  ASSUME NEW param
  PROVE  ~JavaToJni(param).ok => JavaToJni(param).value \in Errors
<1>1. Rule(BaseName(param)) \in {"pod", "qualified", "known", "innerImport", "import",
                                 "outerImport", "unimportedOuter", "fallback"}
  BY DEF Rule
<1>2. QED
  BY <1>1 DEF JavaToJni, Ok, Fail, Errors

-----------------------------------------------------------------------------

LEMMA InitIInv == Init => IInv
<1> SUFFICES ASSUME Init PROVE IInv
  OBVIOUS
<1>1. fqc \in {EmptyString} \cup {ClassDescriptor(f) : f \in Files}
  BY DEF Init
<1>2. package \in {EmptyString} \cup {PackagePath(f) : f \in Files}
  BY DEF Init
<1>3. imports \in Seq(ImportEntries) /\ innerClasses \in Seq(InnerEntries) /\ todo \in Seq(StepType)
  BY EmptySeq DEF Init
<1>4. implicitImports \in {<<>>, ImplicitClasses}
  BY DEF Init
<1>5. file \in Files
  BY FilesAssumption DEF Init
<1>6. outcome \in {"running", "ok"} \cup Errors
  BY DEF Init
<1>7. conversions \in 0 .. MaxConversions
  BY MaxConversionsAssumption DEF Init
<1>8. ClassContextIsCurrent
  BY DEF Init, ClassContextIsCurrent
<1>9. QED
  BY <1>1, <1>2, <1>3, <1>4, <1>5, <1>6, <1>7, <1>8 DEF IInv, TypeOK

LEMMA NextIInv == IInv /\ [Next]_vars => IInv'
<1> SUFFICES ASSUME IInv, [Next]_vars PROVE IInv'
  OBVIOUS
<1> USE DEF IInv, TypeOK, ClassContextIsCurrent
<1>1. CASE \E f \in Files : SetFullyQualifiedClass(f)
  <2>1. PICK f \in Files : SetFullyQualifiedClass(f)
    BY <1>1
  <2>2. Steps(f) \in Seq(StepType)
    BY StepsType
  <2>3. QED
    BY <2>1, <2>2, MaxConversionsAssumption DEF SetFullyQualifiedClass
<1>2. CASE ExtractImport
  <2>1. Head(todo) \in StepType /\ Tail(todo) \in Seq(StepType)
    BY <1>2, HeadTailProperties DEF ExtractImport
  <2>2. ImportEntry(Head(todo).text) \in ImportEntries
    BY <1>2, <2>1 DEF ExtractImport, StepType, ImportEntry, ImportEntries
  <2>3. QED
    BY <1>2, <2>1, <2>2, AppendProperties DEF ExtractImport
<1>3. CASE ExtractInnerClass
  <2>1. Head(todo) \in StepType /\ Tail(todo) \in Seq(StepType)
    BY <1>3, HeadTailProperties DEF ExtractInnerClass
  <2>2. Head(todo).text \in ClassNames
    BY <1>3, <2>1 DEF ExtractInnerClass, StepType
  <2>3. fqc = ClassDescriptor(file)
    BY <1>3 DEF ExtractInnerClass
  <2>4. InnerEntry(fqc, Head(todo).text) \in InnerEntries
    BY <2>2, <2>3 DEF InnerEntries
  <2>5. QED
    BY <1>3, <2>1, <2>4, AppendProperties DEF ExtractInnerClass
<1>4. CASE AddAdditionalImport
  <2>1. Head(todo) \in StepType /\ Tail(todo) \in Seq(StepType)
    BY <1>4, HeadTailProperties DEF AddAdditionalImport
  <2>2. Head(todo).text \in ClassLiterals
    BY <1>4, <2>1 DEF AddAdditionalImport, StepType
  <2>3. package = PackagePath(file)
    BY <1>4 DEF AddAdditionalImport
  <2>4. AdditionalEntry(package, Head(todo).text) \in ImportEntries
    BY <2>2, <2>3 DEF ImportEntries
  <2>5. Append(imports, AdditionalEntry(package, Head(todo).text)) \in Seq(ImportEntries)
    BY <2>4, AppendProperties
  <2>6. <<>> \in Seq(StepType)
    BY EmptySeq
  <2>7. QED
    BY <1>4, <2>1, <2>5, <2>6 DEF AddAdditionalImport, Errors
<1>5. CASE ResolveType
  <2>1. Tail(todo) \in Seq(StepType)
    BY <1>5, HeadTailProperties DEF ResolveType
  <2>2. ~JavaToJni(Head(todo).text).ok => JavaToJni(Head(todo).text).value \in Errors
    BY JavaToJniFailure
  <2>3. LoadedImplicitImports \in {<<>>, ImplicitClasses}
    BY DEF LoadedImplicitImports
  <2>4. QED
    BY <1>5, <2>1, <2>2, <2>3 DEF ResolveType
<1>6. CASE FinishConversion
  BY <1>6 DEF FinishConversion
<1>7. CASE UNCHANGED vars
  BY <1>7 DEF vars
<1>8. QED
  BY <1>1, <1>2, <1>3, <1>4, <1>5, <1>6, <1>7 DEF Next

-----------------------------------------------------------------------------

(***************************************************************************)
(* Type correctness: every variable of JniParams only ever holds a value   *)
(* the operations can build from the input files (SetFullyQualifiedClass,  *)
(* the import, nested-class and additional-import steps of                 *)
(* ExtractImportsAndInnerClasses, JavaToJni with its lazy table load).     *)
(***************************************************************************)
THEOREM TypeCorrect == Spec => []TypeOK
<1>1. Spec => []IInv
  BY InitIInv, NextIInv, PTL DEF Spec
<1>2. QED
  BY <1>1, PTL DEF IInv
=============================================================================
