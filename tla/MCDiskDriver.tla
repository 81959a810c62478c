--------------------------- MODULE MCDiskDriver ----------------------------
(* The clients of the first bus read and write two sectors, those of the   *)
(* second read one: a cache for two sectors that three compete for.        *)
EXTENDS DiskDriver

MCRequests ==
    [b \in Listeners |-> {r \in Request : b = 0 \/ (r.op = "read" /\ r.lba = 0)}]
=============================================================================
