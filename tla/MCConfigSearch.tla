---------------------------- MODULE MCConfigSearch ----------------------------
(* A project p with two sub-directories, in the root directory.              *)
EXTENDS ConfigSearch

MCDirs == {<<>>, <<"p">>, <<"p", "a">>, <<"p", "b">>}
===============================================================================
