--------------------------- MODULE MCProviderCalls --------------------------
(***************************************************************************)
(* A small instance of ProviderCalls: three identifiers, and two makers to *)
(* tell objects apart that carry the same one.                             *)
(***************************************************************************)
EXTENDS ProviderCalls

CONSTANTS Outer, Nested

MCContents == {c \in SUBSET Objects :
                  \A a, b \in c : a.id = b.id => a = b}

MCHosted(c) == {}

Symmetry == Permutations({Outer, Nested})
=============================================================================
