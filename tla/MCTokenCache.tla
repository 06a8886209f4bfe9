---------------------------- MODULE MCTokenCache ----------------------------
(* Two calls for one audience race each other, the clock and clear(); a    *)
(* third, for another audience, must stay apart from them.                 *)
EXTENDS TokenCache

CONSTANTS c1, c2, c3, fabric, powerbi

MCCalls == {c1, c2, c3}
MCAudiences == {fabric, powerbi}
MCAudienceOf == [c \in MCCalls |-> IF c = c3 THEN powerbi ELSE fabric]
=============================================================================
