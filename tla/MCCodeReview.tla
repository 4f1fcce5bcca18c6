---------------------------- MODULE MCCodeReview ----------------------------
(* Two workers of two releases that boot at any time, a tenant that         *)
(* overrides the prompt once, and two reviews.                              *)
EXTENDS CodeReview
=============================================================================
