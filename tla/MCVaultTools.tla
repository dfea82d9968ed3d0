----------------------------- MODULE MCVaultTools -----------------------------
(***************************************************************************)
(* Two calls of any two tools over a vault where b/y links to a/x by name, *)
(* by path and in markdown, with a text among the links, and a canvas      *)
(* shows a/x.  A move of a/x to a/y makes the name y ambiguous.            *)
(***************************************************************************)
EXTENDS VaultTools

ax == <<"a", "x">>
ay == <<"a", "y">>
by == <<"b", "y">>
cx == <<"c", "x">>
cy == <<"c", "y">>
board == <<"b", "board">>
board2 == <<"c", "board">>

MCNotes == {ax, ay, by, cx, cy}
MCCanvases == {board, board2}

Job(tool, path, expect) ==
  [tool |-> tool, path |-> path, to |-> NoPath, paths |-> {}, expect |-> expect, links |-> TRUE]
Move(path, to, expect) == [Job("move", path, expect) EXCEPT !.to = to]
Folder(tool) == [Job(tool, <<"a">>, FALSE) EXCEPT !.to = <<"c">>]

MCJobs ==
  {Job("write", by, TRUE), Job("write", ax, FALSE), Job("write", board2, FALSE), Job("edit", by, TRUE),
   Job("append", by, FALSE), Job("unique", by, FALSE), Job("unique", cx, FALSE), Job("insert", by, TRUE),
   [Job("frontmatter", by, TRUE) EXCEPT !.paths = {by}], [Job("batch", by, FALSE) EXCEPT !.paths = {ax, by}],
   Job("addNode", board2, FALSE), Job("canvas", board, TRUE), [Job("create", ay, FALSE) EXCEPT !.paths = {ax}],
   Job("daily", cx, FALSE), Job("delete", by, TRUE), Job("delete", ax, FALSE), Folder("deleteFolder"),
   Move(ax, ay, TRUE), Move(ax, cx, FALSE), [Move(by, cy, FALSE) EXCEPT !.links = FALSE],
   Move(board, board2, FALSE), Folder("moveFolder")}

Old == Text("old")

MCFiles ==
  {[p \in MCNotes \union MCCanvases |->
      CASE p = ax -> <<Old, Wiki(ax)>> [] p = by -> <<Wiki(ax), Old, Wiki(<<"x">>), Md(ax), Wiki(board)>>
        [] p = board -> <<Node(ax), Node(by)>> [] OTHER -> Absent]}
=============================================================================
