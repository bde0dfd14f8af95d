------------------------------ MODULE MCConfig ------------------------------
(***************************************************************************)
(* Main registers a key that comes after those of the clients; these are   *)
(* two in one section, and one that continues the first of them.  Two      *)
(* clients, so that saves can overlap.  Keys have up to three of three     *)
(* names, so that what a.a.c is written as after a.a, which is a.c, is a   *)
(* key as well.                                                            *)
(***************************************************************************)
EXTENDS Config

Names == <<"a", "b", "c">>

\* A key comes before those that continue it, and these before the keys that
\* begin with the next name: 12 of 39 begin with a name and go on, 3 of these
\* 12 with two names.
Keys ==
  [i \in 1..39 |->
     LET second == (i - 1) % 13
         third == (second - 1) % 4
         one == <<Names[(i - 1) \div 13 + 1]>>
         two == Append(one, Names[(second - 1) \div 4 + 1])
     IN IF second = 0 THEN one
        ELSE IF third = 0 THEN two
        ELSE Append(two, Names[third])]

CoreKeys == {<<"b", "a">>}
ClientKeys == {<<"a", "a">>, <<"a", "a", "c">>, <<"a", "b">>}
=============================================================================
