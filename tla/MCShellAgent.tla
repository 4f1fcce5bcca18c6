---------------------------- MODULE MCShellAgent ----------------------------
(* A model that plans up to two calls at a time and reports a usage or not, *)
(* and a client that comes, goes and changes its mind.                      *)
EXTENDS ShellAgent

ReportedOrNot == {-1, 2}
=============================================================================
