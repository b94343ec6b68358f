----------------------------- MODULE JniStrings -----------------------------
(***************************************************************************)
(* The Python string operations jni_generator.py applies to type names,    *)
(* import paths and identifiers: endswith, startswith, "in", index,        *)
(* replace, split and upper.  TLC treats a string as a sequence of         *)
(* one-character strings for Len, SubSeq and \o, which is all these        *)
(* definitions use, so a name is matched and rewritten character by        *)
(* character exactly as the generator does it.                             *)
(***************************************************************************)
EXTENDS Naturals, Sequences

(* Python's '' (named, so that proofs can keep it opaque). *)
EmptyString == ""

(* The i-th character of s, as a one-character string. *)
Char(s, i) == SubSeq(s, i, i)

(* s.endswith(t) and s.startswith(t). *)
EndsWith(s, t) == Len(t) <= Len(s) /\ SubSeq(s, Len(s) - Len(t) + 1, Len(s)) = t
StartsWith(s, t) == Len(t) <= Len(s) /\ SubSeq(s, 1, Len(t)) = t

(* The positions at which the one-character string c occurs in s. *)
Positions(s, c) == {i \in 1 .. Len(s) : Char(s, i) = c}

(* c in s, s.index(c) and s.rindex(c) for a one-character c. *)
HasChar(s, c) == Positions(s, c) # {}
FirstPos(s, c) == CHOOSE i \in Positions(s, c) : \A j \in Positions(s, c) : i <= j
LastPos(s, c) == CHOOSE i \in Positions(s, c) : \A j \in Positions(s, c) : j <= i

(* s[:i - 1] and s[i + 1:] around position i. *)
Before(s, i) == SubSeq(s, 1, i - 1)
After(s, i) == SubSeq(s, i + 1, Len(s))

(***************************************************************************)
(* s.replace(old, new): every non-overlapping occurrence of old, scanned   *)
(* from the left, is replaced by new.  R[k] is the rewritten suffix of s   *)
(* that starts at position k.                                              *)
(***************************************************************************)
Replace(s, old, new) ==
  LET R[k \in 1 .. Len(s) + 1] ==
        IF k > Len(s) THEN ""
        ELSE IF Len(old) > 0 /\ StartsWith(SubSeq(s, k, Len(s)), old)
             THEN new \o R[k + Len(old)]
             ELSE Char(s, k) \o R[k + 1]
  IN R[1]

(* '/'.join(s.split('/')[:-1]) and s.split('/')[-1]. *)
AllButLastSegment(s, sep) == IF HasChar(s, sep) THEN Before(s, LastPos(s, sep)) ELSE ""
LastSegment(s, sep) == IF HasChar(s, sep) THEN After(s, LastPos(s, sep)) ELSE s

(* c.isupper() and c.upper() for one character. *)
Lower == "abcdefghijklmnopqrstuvwxyz"
Upper == "ABCDEFGHIJKLMNOPQRSTUVWXYZ"
IsUpper(c) == \E i \in 1 .. Len(Upper) : Char(Upper, i) = c
ToUpper(c) == IF \E i \in 1 .. Len(Lower) : Char(Lower, i) = c
              THEN Char(Upper, CHOOSE i \in 1 .. Len(Lower) : Char(Lower, i) = c)
              ELSE c
=============================================================================
