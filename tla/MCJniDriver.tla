----------------------------- MODULE MCJniDriver -----------------------------
(***************************************************************************)
(* JniDriver for TLC: three versions of the input, two of which convert    *)
(* to different headers and one of which fails; a version that converts   *)
(* to the same header as another stands for an edit that does not change   *)
(* the output.                                                             *)
(***************************************************************************)
EXTENDS JniDriver

CONSTANTS s1, s2, s3, s4, h1, h2

MCSources == {s1, s2, s3, s4}
MCContents == {h1, h2}
MCErrors == {"SyntaxError", "ParseError"}
MCGen == [s \in MCSources |->
            CASE s = s1 -> h1 [] s = s2 -> h2 [] s = s3 -> h1 [] OTHER -> "SyntaxError"]
=============================================================================
