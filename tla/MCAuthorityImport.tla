---- MODULE MCAuthorityImport ----
(* Small authorities. *)
EXTENDS AuthorityImport

MCRecords == {"r", "a", "b", "c"}

World(links, names, same, known, editing) ==
  [links   |-> [x \in MCRecords |-> {<<l[2], l[3]>> : l \in {k \in links : k[1] = x}}],
   names   |-> [x \in MCRecords |-> IF x \in DOMAIN names THEN names[x] ELSE <<>>],
   same    |-> [x \in MCRecords |-> IF x \in DOMAIN same THEN same[x] ELSE x],
   known   |-> known,
   editing |-> editing]

\* r -> a -> b -> r, and a second way to b
Ring == World({<<"r", "t", "a">>, <<"a", "t", "b">>, <<"b", "t", "r">>, <<"r", "u", "b">>},
              <<>>, <<>>, {}, FALSE)

\* Two entities under one property that refer to a third, which refers to a known one
Diamond == World({<<"r", "t", "a">>, <<"r", "t", "b">>, <<"a", "u", "c">>, <<"b", "u", "c">>},
                 [b |-> <<"x">>, a |-> <<"x">>], <<>>, {}, FALSE)

\* Two records of which one redirects to the other, and one the main store knows
Redirect == World({<<"r", "t", "a">>, <<"r", "u", "b">>, <<"b", "t", "c">>},
                  <<>>, [a |-> "b"], {"c"}, FALSE)
RedirectKnown == World({<<"r", "t", "a">>, <<"r", "t", "b">>}, <<>>, [a |-> "b"], {"b"}, FALSE)

\* Names, one of them twice
Named2 == World({<<"r", "t", "a">>}, [r |-> <<"x", "y", "x">>, a |-> <<"x", "z">>], <<>>,
                {"y"}, FALSE)

\* The root is already in the main store, and its parts refer to it
Editing == World({<<"r", "t", "a">>, <<"a", "t", "b">>, <<"a", "u", "r">>, <<"b", "t", "r">>},
                 <<>>, <<>>, {"r"}, TRUE)

MCWorlds == {Ring, Diamond, Redirect, RedirectKnown, Named2, Editing}
====
