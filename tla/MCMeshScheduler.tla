-------------------------- MODULE MCMeshScheduler ---------------------------
(* A group under each of the mesh plans, for TLC.                          *)
EXTENDS MeshScheduler

AllPlans ==
    [plan : {"full", "ring"}, fanout : {1}, hubs : {{}}]
      \union [plan : {"hub"}, fanout : {1}, hubs : {{}, {1, 2}}]
      \union [plan : {"partial"}, fanout : {1, 2}, hubs : {{}}]
=============================================================================
