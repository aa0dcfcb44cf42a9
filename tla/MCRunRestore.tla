------------------------------ MODULE MCRunRestore ------------------------------
(* Two runs in a workspace of one file; the user has two texts.             *)
EXTENDS RunRestore
MCFiles == {"notes"}
MCTexts == {<<0, 0>>, <<0, 1>>, <<1, 0>>, <<2, 0>>}
MCFirst == {1}
MCSecond == {2}
=============================================================================
