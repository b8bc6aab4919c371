--------------------------- MODULE MCPublications ---------------------------
(* An instance of Publications for TLC.                                     *)
EXTENDS Publications, TLC

CONSTANTS sA, sB, v1, v2, a1, b1, m1

MCFirstFiled == (sA :> <<"Deportes", "Mesas">>) @@ (sB :> <<"Deportes", "Carpas">>)

MCSubOf == (a1 :> sA)

(* A product with every attribute and one without, one with two variants,   *)
(* one of them off; and edits: a variant omitted, one added with another    *)
(* brand, the subcategory changed with a stock, or with all variants.       *)
Base == [sub |-> None, brand |-> None, keep |-> {}, new |-> {}, off |-> {},
         stock |-> None, media |-> {}, values |-> {}]

MCForms == {
  [Base EXCEPT !.sub = sA, !.stock = 1, !.media = {m1}, !.values = {a1}],
  [Base EXCEPT !.sub = sA, !.new = {v1, v2}, !.off = {v2}],
  [Base EXCEPT !.sub = sB, !.stock = 2],
  [Base EXCEPT !.keep = {v1}],
  [Base EXCEPT !.new = {v2}, !.brand = b1],
  [Base EXCEPT !.sub = sB, !.keep = {v1, v2}] }

MCFirstShades == <<0, 2>>

MCShades == {0, 1, 2}

(* Slots for requests and files are interchangeable.                        *)
Symmetry == Permutations(Requests) \cup Permutations(Files)
==============================================================================
