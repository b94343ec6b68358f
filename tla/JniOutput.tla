------------------------------ MODULE JniOutput ------------------------------
(***************************************************************************)
(* What the generator promises of its output file, one run at a time.     *)
(* A run converts the current input.  If the conversion succeeds the file  *)
(* holds its content afterwards; if it fails the file is left alone.  A   *)
(* run that is killed, or whose write fails, leaves the file as it was or *)
(* torn.  Nothing else changes the file.                                   *)
(***************************************************************************)
CONSTANTS
  Sources,   \* the versions the input .java file can have
  Contents,  \* the headers a conversion can produce
  Errors,    \* the exceptions a conversion can end with
  Gen,       \* Gen[s]: what converting version s gives, a header or an error
  NoFile,    \* the output file does not exist
  TornFile   \* the output file is truncated or partially written

(* Gen maps into Contents \cup Errors, two disjoint sets, and neither      *)
(* NoFile nor TornFile is a header: JniDriver, which instantiates this      *)
(* module, assumes it (OutputAssumption).                                   *)

(* How a run can end without a result of its conversion. *)
Interruptions == {"killed", "IOError"}

VARIABLES
  input,    \* the current version of the input file
  file,     \* the output file
  lastRun   \* how the last run ended: "none", "ok", an error, an interruption

absVars == <<input, file, lastRun>>

Init ==
  /\ input \in Sources
  /\ file = NoFile
  /\ lastRun = "none"

(* Someone edits the input between two runs. *)
Edit ==
  /\ input' \in Sources
  /\ UNCHANGED <<file, lastRun>>

(* A run to completion: the result of the conversion replaces the file, an *)
(* error leaves it.                                                         *)
Generate ==
  /\ IF Gen[input] \in Errors
     THEN file' = file /\ lastRun' = Gen[input]
     ELSE file' = Gen[input] /\ lastRun' = "ok"
  /\ UNCHANGED input

(* A run that ends early: the file is unchanged or torn. *)
Interrupt ==
  /\ lastRun' \in Interruptions
  /\ file' \in {file, TornFile}
  /\ UNCHANGED input

Next == Edit \/ Generate \/ Interrupt

Spec == Init /\ [][Next]_absVars
=============================================================================
