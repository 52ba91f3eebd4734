------------------------------ MODULE MCHandshake ------------------------------
(* Handshake for TLC.  Tokens: the right one, the same between blanks, a   *)
(* wrong one, blanks only.                                                 *)
EXTENDS Handshake

Token(t, b) == [text |-> t, blanks |-> b]
TokensMC == {Token("t", FALSE), Token("", TRUE)}
RequestsMC ==
  {[json |-> TRUE, type |-> "auth", token |-> t, clientID |-> "c"] :
     t \in {Token("t", TRUE), Token("x", FALSE), Token("", TRUE)}}
  \union
  {[json |-> TRUE, type |-> "auth", token |-> Token("t", FALSE), clientID |-> ""],
   [json |-> FALSE, type |-> "", token |-> Token("", FALSE), clientID |-> ""]}
=============================================================================
