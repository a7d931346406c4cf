----------------------------- MODULE MCTopTables -----------------------------
(* Constants of the runs of TopTables. *)
EXTENDS TopTables

Batch(n, bytes, ms, codes) ==
  [hits |-> n, bandwidth |-> n * bytes, rtSum |-> n * ms,
   rtCount |-> IF ms = 0 THEN 0 ELSE n, codes |-> codes]

\* Few large requests and many small ones, slow and fast.
MCLines ==
  [t \in AllKinds |->
     CASE t \in {"urls", "bucket_urls"} ->
            {Batch(1, 1, 9, {}), Batch(4, 1, 2, {}), Batch(1, 4, 0, {}), Batch(4, 1, 0, {})}
       [] t = "error_urls" -> {Batch(1, 1, 0, {404}), Batch(4, 1, 0, {500}), Batch(1, 4, 0, {404})}
       [] OTHER -> {Batch(1, 1, 0, {}), Batch(4, 1, 0, {}), Batch(1, 4, 0, {})}]

\* No definition tells one key from another.
KeySymmetry == Permutations(Keys)

MCTopNs == {0, 1, 2}
=============================================================================
