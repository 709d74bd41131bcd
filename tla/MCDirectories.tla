---------------------------- MODULE MCDirectories ----------------------------
(* Both processes make names in the root and in a directory that one of   *)
(* them makes and removes.                                                *)
EXTENDS Directories, TLC

MCPaths == "p1" :> {<<"a">>, <<"a", "x">>, <<"s">>} @@ "p2" :> {<<"s">>, <<"a", "x">>}
MCRemove == "p1" :> {<<"a">>, <<"a", "x">>} @@ "p2" :> {}
=============================================================================
