--------------------------- MODULE MCProfileImages ---------------------------
(* An instance of ProfileImages for TLC: a user with an image, one with the  *)
(* picture Google gave, and an administrator with an image; clients name a   *)
(* file, the directories of the storage directory, or a path in one.         *)
EXTENDS ProfileImages, TLC

MCInitialImage == [p \in {"u1", "u2", "a1"} |->
                     CASE p = "u1" -> <<"f1">> [] p = "u2" -> <<"url">>
                       [] p = "a1" -> <<"f2">>]
MCNames == {<<"f3">>, <<"user">>, <<"admin">>, <<"admin", "profile", "f3">>}

Symmetric == Permutations(Requests)

=============================================================================
