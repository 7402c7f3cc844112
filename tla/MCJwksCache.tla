---------------------------- MODULE MCJwksCache ----------------------------
(***************************************************************************)
(* Three keys of the issuer, two of them under one kid, in three documents *)
(* it switches between; tokens of each, one that names another key's kid,  *)
(* one of a key nobody published, and two that are not ours.               *)
(***************************************************************************)
EXTENDS JwksCache

K(kid, id) == [kid |-> kid, id |-> id]

MCKey == {K("mock-1", 1), K("mock-1", 2), K("next", 3)}
MCDocuments == { {K("mock-1", 1)}, {K("mock-1", 2), K("next", 3)}, {K("next", 3)} }

T(key, kid, exp) == [form |-> "ours", key |-> key, kid |-> kid, exp |-> exp]

MCToken == {T(K("mock-1", 1), "mock-1", 1), T(K("mock-1", 2), "mock-1", 2),
            T(K("next", 3), "mock-1", 2), T(K("mock-1", 9), "mock-1", 2),
            [T(K("next", 3), "next", 1) EXCEPT !.form = "foreign"],
            [T(K("next", 3), "next", 2) EXCEPT !.form = "not RS256"]}
=============================================================================
