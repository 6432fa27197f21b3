---------------------------- MODULE MCPostsCache ----------------------------
(* Values of PostsCache's constants for TLC. *)
EXTENDS PostsCache

AllPages == {<<"all", 1>>, <<"filtered", 1>>}
=============================================================================
