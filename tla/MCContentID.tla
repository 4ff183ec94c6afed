---------------------------- MODULE MCContentID ----------------------------
(* Model-checking instances of ContentID: pools of two or three slots and *)
(* one or two content keys, all model values.                             *)
EXTENDS ContentID

CONSTANTS s1, s2, s3, k1, k2

MCSlots3 == {s1, s2, s3}
MCSlots == {s1, s2}
MCKeys2 == {k1, k2}
MCKeys == {k1}
=============================================================================
