------------------------------ MODULE MCQueries ------------------------------
(* One block; in one of its contents the first two cells can be pruned. *)
EXTENDS MapQueries

Cells(a, b, c, d) == 4 :> a @@ 5 :> b @@ 6 :> c @@ 7 :> d
Contents == {Cells(8, 8, 8, 4), Cells(24, -8, -8, 4)}
=============================================================================
