------------------------------ MODULE JniDriver ------------------------------
(***************************************************************************)
(* GenerateJNIHeader run again and again over one input and one output     *)
(* file, as a build does.  Each run is a new process (main): it converts   *)
(* the input, then, with --optimize_generation, reads the existing output *)
(* and returns if it is equal, else opens the output for writing, which    *)
(* truncates it, and writes the content.  A process can be killed at any   *)
(* point, and the write can fail (disk full).                              *)
(*                                                                         *)
(* The conversion itself (JniParams, JniHeader) is abstracted to its      *)
(* result Gen[s] for each version s of the input.                          *)
(***************************************************************************)
EXTENDS Naturals

CONSTANTS
  Sources, Contents, Errors, Gen, NoFile, TornFile,  \* as in JniOutput
  MaxRuns   \* the number of processes a behaviour starts

ASSUME OutputAssumption ==
  /\ Gen \in [Sources -> Contents \cup Errors]
  /\ Contents \cap Errors = {}
  /\ NoFile \notin Contents
  /\ TornFile \notin Contents
  /\ NoFile # TornFile

ASSUME MaxRunsAssumption == MaxRuns \in Nat

VARIABLES
  input,     \* the current version of the input .java file
  out,       \* the output file: NoFile, a header, or TornFile
  pc,        \* the running process: "idle" (none), "converted", "opened"
  optimize,  \* options.optimize_generation of the running process
  content,   \* its local content; NoFile while there is none
  status,    \* how the last process ended: "none", "ok", an error, "killed", "IOError"
  runs       \* the number of processes started

vars == <<input, out, pc, optimize, content, status, runs>>

FileValues == Contents \cup {NoFile, TornFile}

Init ==
  /\ input \in Sources
  /\ out = NoFile
  /\ pc = "idle"
  /\ optimize = FALSE
  /\ content = NoFile
  /\ status = "none"
  /\ runs = 0

(* The input is edited while no generator runs (CreateFromFile reads it   *)
(* once, so a later edit cannot reach a running conversion).              *)
Edit ==
  /\ pc = "idle"
  /\ \E s \in Sources \ {input} : input' = s
  /\ UNCHANGED <<out, pc, optimize, content, status, runs>>

(* A process starts and converts the input.  ParseError exits with 1,      *)
(* other exceptions propagate: either way nothing is written.              *)
Convert(opt) ==
  /\ pc = "idle"
  /\ runs < MaxRuns
  /\ runs' = runs + 1
  /\ optimize' = opt
  /\ IF Gen[input] \in Errors
     THEN /\ status' = Gen[input]
          /\ UNCHANGED <<pc, content>>
     ELSE /\ content' = Gen[input]
          /\ pc' = "converted"
          /\ UNCHANGED status
  /\ UNCHANGED <<input, out>>

(* Faulty variant: the check of the optimizing read compares nothing,      *)
(* any existing file is kept (detected by the refinement of JniOutput).    *)
OptimizeSkipIfExists ==
  /\ pc = "converted"
  /\ optimize /\ out # NoFile
  /\ pc' = "idle" /\ status' = "ok" /\ content' = NoFile
  /\ UNCHANGED <<input, out, optimize, runs>>

(* --optimize_generation and the existing file already holds the content: *)
(* return without writing.                                                 *)
OptimizeSkip ==
  /\ pc = "converted"
  /\ optimize /\ out = content
  /\ pc' = "idle" /\ status' = "ok" /\ content' = NoFile
  /\ UNCHANGED <<input, out, optimize, runs>>

(* file(output_file, 'w'): the file is created or truncated. *)
Open ==
  /\ pc = "converted"
  /\ ~(optimize /\ out = content)
  /\ out' = TornFile
  /\ pc' = "opened"
  /\ UNCHANGED <<input, optimize, content, status, runs>>

(* f.write(content), and the process exits with 0. *)
Write ==
  /\ pc = "opened"
  /\ out' = content
  /\ pc' = "idle" /\ status' = "ok" /\ content' = NoFile
  /\ UNCHANGED <<input, optimize, runs>>

(* f.write raises IOError: the file keeps what was written of it. *)
WriteFails ==
  /\ pc = "opened"
  /\ pc' = "idle" /\ status' = "IOError" /\ content' = NoFile
  /\ UNCHANGED <<input, out, optimize, runs>>

(* The build kills the process after its conversion or after the open. *)
Kill ==
  /\ pc \in {"converted", "opened"}
  /\ pc' = "idle" /\ status' = "killed" /\ content' = NoFile
  /\ UNCHANGED <<input, out, optimize, runs>>

Next ==
  \/ Edit
  \/ \E opt \in BOOLEAN : Convert(opt)
  \/ OptimizeSkip
  \/ Open
  \/ Write
  \/ WriteFails
  \/ Kill

Spec == Init /\ [][Next]_vars

-----------------------------------------------------------------------------

(* Every variable holds what the steps above can put in it. *)
TypeOK ==
  /\ input \in Sources
  /\ out \in FileValues
  /\ pc \in {"idle", "converted", "opened"}
  /\ optimize \in BOOLEAN
  /\ content \in Contents \cup {NoFile}
  /\ status \in {"none", "ok", "killed", "IOError"} \cup Errors
  /\ runs \in 0 .. MaxRuns

(***************************************************************************)
(* The refinement mapping.  A run takes effect, for JniOutput, when it     *)
(* opens the file (or returns on the optimizing read): from then on the    *)
(* file is, abstractly, the new content, and the truncated file on disk is *)
(* the write in progress.                                                  *)
(***************************************************************************)
Abs == INSTANCE JniOutput WITH
         file <- IF pc = "opened" THEN content ELSE out,
         lastRun <- IF pc = "opened" THEN "ok" ELSE status

(***************************************************************************)
(* GenerateJNIHeader implements JniOutput: after every run that exits with *)
(* 0 the output holds the content of the input it converted, whether it   *)
(* wrote it or found it there under --optimize_generation; a failing       *)
(* conversion never touches the file; a torn file only comes from a killed *)
(* process or a failed write.                                              *)
(***************************************************************************)
JniOutputSpec == Abs!Spec

(***************************************************************************)
(* Generation is all-or-nothing (spec: "no partial header is ever         *)
(* produced", and after a conversion error "no output file exists         *)
(* afterward, even if one existed from a prior successful run"): once a   *)
(* process of GenerateJNIHeader has ended, the output is not a torn       *)
(* header, and it is absent if that process failed to convert its input.  *)
(***************************************************************************)
AllOrNothingOutput ==
  pc = "idle" =>
    /\ out # TornFile
    /\ status \in Errors => out = NoFile
=============================================================================
