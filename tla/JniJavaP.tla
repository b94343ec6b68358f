------------------------------ MODULE JniJavaP ------------------------------
(***************************************************************************)
(* JNIFromJavaP.__init__: the method model of a class read from the        *)
(* output of "javap -c -verbose -s".  The listing is scanned four times:   *)
(* for the first class line (its name is the class), from the third line   *)
(* on for methods, then for constructors, each taking its signature from   *)
(* the line below it; MangleCalledByNatives names the methods; a last scan *)
(* reads the int constants, each with its value two or three lines below. *)
(*                                                                         *)
(* A line is abstracted to what the regular expressions of __init__ see    *)
(* in it: its kind, and the groups they capture.  "string" is a line of   *)
(* the constant pool or of the bytecode holding a string literal of the   *)
(* shape "<word> <word>(", which re_method matches.                         *)
(***************************************************************************)
EXTENDS Naturals, Sequences, SequencesExt, JniStrings

CONSTANTS
  Listings   \* the listings javap can print: [members, lines], members the class's own

VARIABLES
  listing,      \* the listing being converted
  pc,           \* "class", "methods", "ctors", "mangle", "consts", "done", or the exception
  lineno,       \* the line the current scan is at
  fqc,          \* self.fully_qualified_class
  calledByNatives,
  methodIds,    \* the method_id_var_name MangleCalledByNatives gives each
  constants     \* self.constant_fields

vars == <<listing, pc, lineno, fqc, calledByNatives, methodIds, constants>>

(* The mangler of JniHeader, for MangleCalledByNatives. *)
Hdr == INSTANCE JniHeader WITH OuterClass <- "", Inputs <- {},
         natives <- <<>>, calledByNatives <- <<>>, exportsOptional <- FALSE,
         methodIds <- <<>>, header <- <<>>, phase <- "extracted"

Lines == listing.lines
Line(k) == listing.lines[k]

-----------------------------------------------------------------------------
(***************************************************************************)
(* The regular expressions of __init__, on abstract lines.                 *)
(***************************************************************************)

(* '.*?(public).*?(class|interface) (?P<class_name>\S+?)( |\Z)' *)
ClassMatch(l) == l.kind = "class"

(* re_method: a method declaration, or a string literal of that shape. *)
MethodMatch(l) == l.kind \in {"method", "string"}

(***************************************************************************)
(* re_constructor, 'public ' + the class with '/' -> '.' + '\(': the dots *)
(* match any character, and the '$' of a nested class is an end-of-line  *)
(* anchor, which no '(' can follow.                                       *)
(***************************************************************************)
CtorMatch(l, cls) ==
  l.kind = "ctor" /\ l.cls = Replace(cls, "/", ".") /\ ~HasChar(cls, "$")

(* re_constant_field and re_constant_field_value. *)
ConstantFieldMatch(l) == l.kind = "field"
ConstantValueMatch(l) == l.kind = "value"

(* ParseJavaPSignature: find('Signature: '), else index('descriptor: '). *)
HasSignaturePrefix(l) == l.kind = "descriptor"

(* The class name: '.' -> '/', and the <...> of Java 7's javap stripped. *)
RawClass(name) ==
  LET n == Replace(name, ".", "/") IN IF HasChar(n, "<") THEN Before(n, FirstPos(n, "<")) ELSE n

(* JniParams.JavaToJni on a name javap prints: a primitive or a qualified class. *)
PodParamMap ==
  "int" :> "I" @@ "boolean" :> "Z" @@ "char" :> "C" @@ "short" :> "S"
  @@ "long" :> "J" @@ "double" :> "D" @@ "float" :> "F" @@ "byte" :> "B" @@ "void" :> "V"
JavaToJni(t) ==
  IF t \in DOMAIN PodParamMap THEN PodParamMap[t] ELSE "L" \o t \o ";"

(* Faulty variant: every method taken as an instance method (detected by MethodsExtracted). *)
MethodEntryInstanceOnly(l, sigLine) ==
  [cls |-> EmptyString, name |-> l.name, static |-> FALSE, ctor |-> FALSE,
   returnType |-> Replace(l.ret, ".", "/"), ret |-> JavaToJni(Replace(l.ret, ".", "/")),
   params |-> [i \in DOMAIN l.params |-> JavaToJni(Replace(l.params[i], ".", "/"))],
   signature |-> sigLine.sig]

(* CalledByNative(system_class=True, java_class_name='', ...) of a match. *)
MethodEntry(l, sigLine) ==
  [cls |-> EmptyString, name |-> l.name, static |-> l.static, ctor |-> FALSE,
   returnType |-> Replace(l.ret, ".", "/"), ret |-> JavaToJni(Replace(l.ret, ".", "/")),
   params |-> [i \in DOMAIN l.params |-> JavaToJni(Replace(l.params[i], ".", "/"))],
   signature |-> sigLine.sig]
CtorEntry(l, sigLine, cls) ==
  [cls |-> EmptyString, name |-> "Constructor", static |-> FALSE, ctor |-> TRUE,
   returnType |-> cls, ret |-> JavaToJni(cls),
   params |-> [i \in DOMAIN l.params |-> JavaToJni(Replace(l.params[i], ".", "/"))],
   signature |-> sigLine.sig]

-----------------------------------------------------------------------------

Init ==
  /\ listing \in Listings
  /\ pc = "class"
  /\ lineno = 1
  /\ fqc = EmptyString
  /\ calledByNatives = <<>>
  /\ methodIds = <<>>
  /\ constants = <<>>

(* The loop over the lines that breaks at the first class line; with none, *)
(* self.fully_qualified_class is never set.                                *)
FindClass ==
  /\ pc = "class"
  /\ LET found == {k \in DOMAIN Lines : ClassMatch(Line(k))}
     IN IF found = {}
        THEN pc' = "AttributeError" /\ UNCHANGED fqc
        ELSE /\ fqc' = RawClass(Line(CHOOSE k \in found : \A j \in found : k <= j).name)
             /\ pc' = "methods"
  /\ lineno' = 3
  /\ UNCHANGED <<listing, calledByNatives, methodIds, constants>>

(***************************************************************************)
(* One line of the method loop (enumerate(contents[2:], 2)): a match takes *)
(* its signature from the next line, which raises IndexError past the end *)
(* and ValueError when it carries neither prefix.                          *)
(***************************************************************************)
ScanMethod ==
  /\ pc = "methods"
  /\ lineno <= Len(Lines)
  /\ IF ~MethodMatch(Line(lineno))
     THEN lineno' = lineno + 1 /\ UNCHANGED <<pc, calledByNatives>>
     ELSE IF lineno + 1 > Len(Lines) THEN pc' = "IndexError" /\ UNCHANGED <<lineno, calledByNatives>>
     ELSE IF ~HasSignaturePrefix(Line(lineno + 1))
          THEN pc' = "ValueError" /\ UNCHANGED <<lineno, calledByNatives>>
     ELSE /\ calledByNatives' = Append(calledByNatives, MethodEntry(Line(lineno), Line(lineno + 1)))
          /\ lineno' = lineno + 1
          /\ UNCHANGED pc
  /\ UNCHANGED <<listing, fqc, methodIds, constants>>

(* One line of the constructor loop. *)
ScanConstructor ==
  /\ pc = "ctors"
  /\ lineno <= Len(Lines)
  /\ IF ~CtorMatch(Line(lineno), fqc)
     THEN lineno' = lineno + 1 /\ UNCHANGED <<pc, calledByNatives>>
     ELSE IF lineno + 1 > Len(Lines) THEN pc' = "IndexError" /\ UNCHANGED <<lineno, calledByNatives>>
     ELSE IF ~HasSignaturePrefix(Line(lineno + 1))
          THEN pc' = "ValueError" /\ UNCHANGED <<lineno, calledByNatives>>
     ELSE /\ calledByNatives' = Append(calledByNatives, CtorEntry(Line(lineno), Line(lineno + 1), fqc))
          /\ lineno' = lineno + 1
          /\ UNCHANGED pc
  /\ UNCHANGED <<listing, fqc, methodIds, constants>>

(* A scan reaches the end of the listing and the next one starts. *)
EndScan ==
  /\ pc \in {"methods", "ctors", "consts"}
  /\ lineno > Len(Lines)
  /\ pc' = CASE pc = "methods" -> "ctors" [] pc = "ctors" -> "mangle" [] OTHER -> "done"
  /\ lineno' = 3
  /\ UNCHANGED <<listing, fqc, calledByNatives, methodIds, constants>>

(* Faulty variant: only overloaded methods get an id (detected by TypeOK). *)
MangleOverloadedOnly ==
  /\ pc = "mangle"
  /\ methodIds' = Hdr!MethodIdsOverloadedOnly(calledByNatives)
  /\ pc' = "consts"
  /\ UNCHANGED <<listing, lineno, fqc, calledByNatives, constants>>

(* MangleCalledByNatives, with the assert of GetMangledMethodName. *)
Mangle ==
  /\ pc = "mangle"
  /\ methodIds' = Hdr!MethodIds(calledByNatives)
  /\ pc' = IF \A i \in DOMAIN calledByNatives :
                Hdr!Overloaded(calledByNatives, i) => Hdr!AssertMatchesPrefix(Hdr!MangledName(calledByNatives, i))
           THEN "consts" ELSE "AssertionError"
  /\ UNCHANGED <<listing, lineno, fqc, calledByNatives, constants>>

(* Faulty variant: the value is looked for two lines below only, as JDK 6 *)
(* prints it (detected by ConstantsExtracted).                            *)
ScanConstantJdk6Only ==
  /\ pc = "consts"
  /\ lineno <= Len(Lines)
  /\ IF ConstantFieldMatch(Line(lineno)) /\ lineno + 2 > Len(Lines)
     THEN pc' = "IndexError" /\ UNCHANGED <<lineno, constants>>
     ELSE /\ constants' = IF ConstantFieldMatch(Line(lineno)) /\ ConstantValueMatch(Line(lineno + 2))
                          THEN Append(constants, [name |-> Line(lineno).name, value |-> Line(lineno + 2).value])
                          ELSE constants
          /\ lineno' = lineno + 1 /\ UNCHANGED pc
  /\ UNCHANGED <<listing, fqc, calledByNatives, methodIds>>

(***************************************************************************)
(* One line of the constant loop: the value is looked for two lines below *)
(* the field, then three; each look past the end raises IndexError; a     *)
(* field with no value line is skipped.                                   *)
(***************************************************************************)
ScanConstant ==
  /\ pc = "consts"
  /\ lineno <= Len(Lines)
  /\ IF ~ConstantFieldMatch(Line(lineno))
     THEN lineno' = lineno + 1 /\ UNCHANGED <<pc, constants>>
     ELSE IF lineno + 2 > Len(Lines) THEN pc' = "IndexError" /\ UNCHANGED <<lineno, constants>>
     ELSE IF ConstantValueMatch(Line(lineno + 2))
          THEN /\ constants' = Append(constants, [name |-> Line(lineno).name, value |-> Line(lineno + 2).value])
               /\ lineno' = lineno + 1 /\ UNCHANGED pc
     ELSE IF lineno + 3 > Len(Lines) THEN pc' = "IndexError" /\ UNCHANGED <<lineno, constants>>
     ELSE /\ constants' = IF ConstantValueMatch(Line(lineno + 3))
                          THEN Append(constants, [name |-> Line(lineno).name, value |-> Line(lineno + 3).value])
                          ELSE constants
          /\ lineno' = lineno + 1 /\ UNCHANGED pc
  /\ UNCHANGED <<listing, fqc, calledByNatives, methodIds>>

Next == FindClass \/ ScanMethod \/ ScanConstructor \/ EndScan \/ Mangle \/ ScanConstant

Spec == Init /\ [][Next]_vars

-----------------------------------------------------------------------------
(***************************************************************************)
(* Properties.  A listing's members are the class's own declarations,     *)
(* in the order javap prints them.                                         *)
(***************************************************************************)

(* Every variable holds what the steps above can put in it. *)
TypeOK ==
  /\ listing \in Listings
  /\ pc \in {"class", "methods", "ctors", "mangle", "consts", "done",
             "AttributeError", "IndexError", "ValueError", "AssertionError"}
  /\ lineno \in 1 .. Len(Lines) + 1
  /\ calledByNatives \in Seq([cls : STRING, name : STRING, static : BOOLEAN, ctor : BOOLEAN,
                              returnType : STRING, ret : STRING, params : Seq(STRING),
                              signature : STRING])
  /\ pc \in {"consts", "done"} => DOMAIN methodIds = DOMAIN calledByNatives
  /\ constants \in Seq([name : STRING, value : Nat])

MembersOfKind(k) == SelectSeq(listing.members, LAMBDA m : m.kind = k)
Methods == SelectSeq(calledByNatives, LAMBDA c : ~c.ctor)
Constructors == SelectSeq(calledByNatives, LAMBDA c : c.ctor)

(***************************************************************************)
(* Each public method of the class gives one called-by-native, in order,   *)
(* with its name, its static-ness and the descriptor javap printed for it *)
(* (spec 3.2: "the authoritative JNI signature taken verbatim from a       *)
(* companion line"), whichever JDK's layout the listing has.               *)
(***************************************************************************)
MethodsExtracted ==
  pc = "done" =>
    /\ Len(Methods) = Len(MembersOfKind("method"))
    /\ \A i \in DOMAIN Methods :
         /\ Methods[i].name = MembersOfKind("method")[i].name
         /\ Methods[i].static = MembersOfKind("method")[i].static
         /\ Methods[i].signature = MembersOfKind("method")[i].desc

(***************************************************************************)
(* A listing javap printed for a class is converted without an exception  *)
(* (spec 7: the only failures are extraction, resolution and internal     *)
(* invariant errors, none of which a well-formed listing raises), and each *)
(* public constructor of the class gives one called-by-native marked       *)
(* is_constructor, with its descriptor (spec 3.2: constructors are         *)
(* recognized by the signature-line shape).                                *)
(***************************************************************************)
ListingConverts ==
  /\ pc \notin {"AttributeError", "IndexError", "ValueError", "AssertionError"}
  /\ pc = "done" =>
       /\ Len(Constructors) = Len(MembersOfKind("ctor"))
       /\ \A i \in DOMAIN Constructors : Constructors[i].signature = MembersOfKind("ctor")[i].desc

(***************************************************************************)
(* Each int constant with a constant value gives one constant field with   *)
(* its own value, in order, and a static final int without one gives none *)
(* (spec 3.2: the value is on a companion line a fixed number of lines     *)
(* below), in the layout of either JDK.                                    *)
(***************************************************************************)
ConstantsExtracted ==
  pc = "done" =>
    constants = [i \in DOMAIN MembersOfKind("const") |->
                   [name |-> MembersOfKind("const")[i].name, value |-> MembersOfKind("const")[i].value]]
=============================================================================
