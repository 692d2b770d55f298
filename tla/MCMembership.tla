---------------------------- MODULE MCMembership ----------------------------
(* One tenant of one founder, who may be joined by another user.           *)
EXTENDS Membership

CONSTANTS u1, u2, t1, t2

MCFounders == {<<u1, t1>>}
MCJoined == {<<u2, t1>>}
=============================================================================
