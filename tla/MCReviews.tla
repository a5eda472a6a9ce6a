------------------------------- MODULE MCReviews -------------------------------
(* Users, races and requests are model values named in the cfg files.        *)
EXTENDS Reviews
=============================================================================
