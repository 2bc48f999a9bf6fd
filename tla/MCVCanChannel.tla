--------------------------- MODULE MCVCanChannel ---------------------------
(* Three handles of one channel, with the ioctls of the bus and those of   *)
(* access rights and modes, or with those of the bus and of the buffers.   *)
EXTENDS VCanChannel, TLC

CONSTANTS f1, f2, f3, can, fd

BusIoctls == {"BUS"}
AccessIoctls == BusIoctls \cup
    {"OPEN_CHAN", "OPEN_EXCL", "OPEN_INIT_ACCESS", "OPEN_MODE",
     "OUTPUT_MODE"}
BufferIoctls == BusIoctls \cup {"OBJBUF", "OBJBUF_FREE_ALL"}

Symmetry == Permutations(Handle) \cup Permutations(Mode)
============================================================================
