------------------------------ MODULE CborDoc ------------------------------
(***************************************************************************)
(* Documents: what a caller of the encoder asks for, as the sequence of    *)
(* its tokens in the order of RFC 8949.  A token is what a head says: the  *)
(* major type and the argument, and the bytes of a string.  The items of   *)
(* an array or a map (labels and values) follow its token, and a tag       *)
(* precedes its item.                                                      *)
(***************************************************************************)
EXTENDS Integers, Sequences

Token(type, arg, b) == [form |-> "item", type |-> type, arg |-> arg, b |-> b]

Int_(n) == IF n < 0 THEN Token(1, -1 - n, <<>>) ELSE Token(0, n, <<>>)
Bytes_(b) == Token(2, Len(b), b)
Text_(b) == Token(3, Len(b), b)
Array_(n) == Token(4, n, <<>>)
Map_(n) == Token(5, n, <<>>)
Tag_(n) == Token(6, n, <<>>)
Simple_(n) == Token(7, n, <<>>)

\* The start of an array (4) or map (5) without a length, and the break (7) that ends it.
Indefinite(type) == [form |-> "indefinite", type |-> type, arg |-> 0, b |-> <<>>]

\* A byte string that holds the next n tokens.
Wrap_(n) == [form |-> "wrap", type |-> 2, arg |-> n, b |-> <<>>]
=============================================================================
