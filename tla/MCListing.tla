------------------------------ MODULE MCListing -----------------------------
(* A collection of three items or of none, and one of two: enough for      *)
(* pages of one and of two, and for an offset into the wrong collection.   *)
EXTENDS Listing

CONSTANTS walked, other, w1, w2, w3, o1, o2, n1, n2

MCContents ==
  {[c \in Collections |-> IF c = walked THEN s ELSE <<o1, o2>>] : s \in {<<w1, w2, w3>>, <<>>}}
=============================================================================
