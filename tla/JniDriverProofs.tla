--------------------------- MODULE JniDriverProofs ---------------------------
(***************************************************************************)
(* Proofs about JniDriver, for every set of input versions, every          *)
(* conversion result and every number of runs: its type invariant, and    *)
(* that GenerateJNIHeader implements the output specification JniOutput.  *)
(***************************************************************************)
EXTENDS JniDriver, TLAPS

(***************************************************************************)
(* While a process runs, its content is the conversion of the current      *)
(* input (edits wait for the process to end), and while it has the file    *)
(* open the file on disk is the truncated one.                             *)
(***************************************************************************)
RunIsCurrent ==
  /\ pc \in {"converted", "opened"} => content = Gen[input] /\ content \in Contents
  /\ pc = "opened" => out = TornFile

IInv == TypeOK /\ RunIsCurrent

-----------------------------------------------------------------------------

LEMMA InitIInv == Init => IInv
<1> SUFFICES ASSUME Init PROVE IInv
  OBVIOUS
<1>1. input \in Sources /\ optimize \in BOOLEAN
  BY DEF Init
<1>2. out \in FileValues /\ content \in Contents \cup {NoFile}
  BY DEF Init, FileValues
<1>3. pc \in {"idle", "converted", "opened"}
  BY DEF Init
<1>4. status \in {"none", "ok", "killed", "IOError"} \cup Errors
  BY DEF Init
<1>5. runs \in 0 .. MaxRuns
  BY MaxRunsAssumption DEF Init
<1>6. RunIsCurrent
  BY DEF Init, RunIsCurrent
<1>7. QED
  BY <1>1, <1>2, <1>3, <1>4, <1>5, <1>6 DEF IInv, TypeOK

LEMMA NextIInv == IInv /\ [Next]_vars => IInv'
<1> SUFFICES ASSUME IInv, [Next]_vars PROVE IInv'
  OBVIOUS
<1> USE OutputAssumption DEF IInv, TypeOK, RunIsCurrent, FileValues
<1>1. CASE Edit
  BY <1>1 DEF Edit
<1>2. CASE \E opt \in BOOLEAN : Convert(opt)
  <2>1. PICK opt \in BOOLEAN : Convert(opt)
    BY <1>2
  <2>2. runs' \in 0 .. MaxRuns /\ optimize' \in BOOLEAN
    BY <2>1, MaxRunsAssumption DEF Convert
  <2>3. CASE Gen[input] \in Errors
    BY <2>1, <2>2, <2>3 DEF Convert
  <2>4. CASE Gen[input] \notin Errors
    <3>1. Gen[input] \in Contents
      BY <2>4
    <3>2. QED
      BY <2>1, <2>2, <2>4, <3>1 DEF Convert
  <2>5. QED
    BY <2>3, <2>4
<1>3. CASE OptimizeSkip
  BY <1>3 DEF OptimizeSkip
<1>4. CASE Open
  BY <1>4 DEF Open
<1>5. CASE Write
  BY <1>5 DEF Write
<1>6. CASE WriteFails
  BY <1>6 DEF WriteFails
<1>7. CASE Kill
  BY <1>7 DEF Kill
<1>8. CASE UNCHANGED vars
  BY <1>8 DEF vars
<1>9. QED
  BY <1>1, <1>2, <1>3, <1>4, <1>5, <1>6, <1>7, <1>8 DEF Next

(***************************************************************************)
(* Type correctness: the output file only ever holds nothing, a header or *)
(* a torn file, and a process only ever holds a header as its content,    *)
(* through every sequence of edits, runs, kills and failed writes.         *)
(***************************************************************************)
THEOREM TypeCorrect == Spec => []TypeOK
<1>1. Spec => []IInv
  BY InitIInv, NextIInv, PTL DEF Spec
<1>2. QED
  BY <1>1, PTL DEF IInv

-----------------------------------------------------------------------------

LEMMA InitRefines == Init => Abs!Init
  BY DEF Init, Abs!Init

(* Every step of the driver is a step of JniOutput or leaves its state.   *)
LEMMA NextRefines == IInv /\ [Next]_vars => [Abs!Next]_Abs!absVars
<1> SUFFICES ASSUME IInv, [Next]_vars PROVE [Abs!Next]_Abs!absVars
  OBVIOUS
<1> USE OutputAssumption DEF IInv, TypeOK, RunIsCurrent
<1>1. CASE Edit
  <2>1. Abs!Edit
    BY <1>1 DEF Edit, Abs!Edit
  <2>2. QED
    BY <2>1 DEF Abs!Next
<1>2. CASE \E opt \in BOOLEAN : Convert(opt)
  <2>1. PICK opt \in BOOLEAN : Convert(opt)
    BY <1>2
  <2>2. CASE Gen[input] \in Errors
    <3>1. Abs!Generate
      BY <2>1, <2>2 DEF Convert, Abs!Generate
    <3>2. QED
      BY <3>1 DEF Abs!Next
  <2>3. CASE Gen[input] \notin Errors
    BY <2>1, <2>3 DEF Convert, Abs!absVars
  <2>4. QED
    BY <2>2, <2>3
<1>3. CASE OptimizeSkip
  <2>1. Abs!Generate
    BY <1>3 DEF OptimizeSkip, Abs!Generate
  <2>2. QED
    BY <2>1 DEF Abs!Next
<1>4. CASE Open
  <2>1. Abs!Generate
    BY <1>4 DEF Open, Abs!Generate
  <2>2. QED
    BY <2>1 DEF Abs!Next
<1>5. CASE Write
  BY <1>5 DEF Write, Abs!absVars
<1>6. CASE WriteFails
  <2>1. Abs!Interrupt
    BY <1>6 DEF WriteFails, Abs!Interrupt, Abs!Interruptions
  <2>2. QED
    BY <2>1 DEF Abs!Next
<1>7. CASE Kill
  <2>1. Abs!Interrupt
    BY <1>7 DEF Kill, Abs!Interrupt, Abs!Interruptions
  <2>2. QED
    BY <2>1 DEF Abs!Next
<1>8. CASE UNCHANGED vars
  BY <1>8 DEF vars, Abs!absVars
<1>9. QED
  BY <1>1, <1>2, <1>3, <1>4, <1>5, <1>6, <1>7, <1>8 DEF Next

(***************************************************************************)
(* GenerateJNIHeader implements JniOutput (the property JniOutputSpec the  *)
(* run jni_driver_pass checks): for every input history, every run that   *)
(* exits with 0 leaves its conversion's header in the output, a failing    *)
(* conversion leaves the output alone, and only a killed process or a     *)
(* failed write leaves a torn file.                                        *)
(***************************************************************************)
THEOREM Refinement == Spec => JniOutputSpec
<1>1. Spec => []IInv
  BY InitIInv, NextIInv, PTL DEF Spec
<1>2. QED
  BY <1>1, InitRefines, NextRefines, PTL DEF Spec, JniOutputSpec, Abs!Spec
=============================================================================
