--------------------------------- MODULE RawMemory ------------------------------
(* The memory that the buffers of src/src/common and src/src/vm_common get.    *)
CONSTANT JUNK  \* what is in memory nobody has written
================================================================================
