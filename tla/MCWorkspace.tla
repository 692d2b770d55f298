---------------------------- MODULE MCWorkspace -----------------------------
(* u1 founded t1 and belongs to t2, which u2 founded; u3 has no tenant.    *)
EXTENDS Workspace

CONSTANTS u1, u2, u3, t1, t2, t3, k1

MCFounders == {<<u1, t1>>, <<u2, t2>>}
MCJoined == {<<u1, t2>>}
=============================================================================
