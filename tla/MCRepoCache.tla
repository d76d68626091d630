----------------------------- MODULE MCRepoCache -----------------------------
(* Instantiates RepoCache for TLC.                                         *)
EXTENDS RepoCache

MCKeys == {0, 1}
=============================================================================
