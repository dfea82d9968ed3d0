-------------------------- MODULE MCFileTokenStore --------------------------
(* A small instance of FileTokenStore: the .cfg files give the bounds.       *)
EXTENDS FileTokenStore

OpenedEmpty == {EMPTY}
=============================================================================
