--------------------------- MODULE MCIndexRefresh ---------------------------
(* A small instance of IndexRefresh: the .cfg files give the bounds.        *)
EXTENDS IndexRefresh
=============================================================================
