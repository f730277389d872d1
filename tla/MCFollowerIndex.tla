-------------------------- MODULE MCFollowerIndex --------------------------
(* A follower with two values of each kind of parameter, one failing call, *)
(* one act of the server or another client and two edits.                  *)
EXTENDS FollowerIndex
=============================================================================
