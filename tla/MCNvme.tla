------------------------------- MODULE MCNvme --------------------------------
(* Queue layouts: the bootstrap core with the admin queue and queue 1, and  *)
(* with queue 1 only.                                                       *)
EXTENDS Nvme

BspOnly == [c \in {"bsp"} |-> {0, 1}]

BspOneQueue == [c \in {"bsp"} |-> {1}]
=============================================================================
