---------------------------- MODULE MCCategories ----------------------------
(***************************************************************************)
(* A tenant with two categories, another tenant that guesses an id.        *)
(***************************************************************************)
EXTENDS Categories, TLC

CONSTANTS c1, c2, t1, t2, hardware, software

MCInitialRow ==
    [c \in Existing |-> [tenant |-> t1, name |-> IF c = c1 THEN hardware ELSE software]]

Ask(kind, t, c, n) == [kind |-> kind, tenant |-> t, category |-> c, name |-> n]

\* Everything that can be done to one category, and to the name of the other.
CategoryCalls ==
    {Ask("delete", t1, c1, NoName), Ask("file", t1, c1, NoName),
     Ask("update", t1, c1, NoName), Ask("update", t1, c1, hardware),
     Ask("update", t1, c1, software), Ask("update", t1, c2, hardware),
     Ask("create", t1, c1, hardware), Ask("create", t2, c1, hardware),
     Ask("delete", t2, c1, NoName), Ask("file", t2, c1, NoName)}

Symmetry == Permutations(Request)
=============================================================================
