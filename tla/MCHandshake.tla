---------------------------- MODULE MCHandshake ----------------------------
(* An instance of Handshake for TLC: one named user and one that is not,   *)
(* three passwords of which one begins with another, and lists that name   *)
(* the user not at all, once, or twice in different case.                  *)
EXTENDS Handshake

MCNames == {"scott", "guest"}
MCPasswords == {<<1>>, <<1, 2>>, <<3>>}
Item(upper, password) == [name |-> "scott", upper |-> upper, password |-> password]
MCConfigured == {<<>>, <<Item(TRUE, <<1>>)>>, <<Item(FALSE, <<3>>), Item(TRUE, <<1, 2>>)>>}
=============================================================================
