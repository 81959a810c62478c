---------------------------- MODULE MCKernelHeap ----------------------------
(* A heap of six pages, the last of which is also the first of the stacks.  *)
EXTENDS KernelHeap

MCSlabs == [tiny |-> 4, small |-> 3, large |-> 2]

MCSlabSize == [VirtualMap |-> "tiny", Object |-> "small", Thread |-> "small",
               Process |-> "large", Stack |-> "large"]

MCModuleSizes == <<1, 2>>
=============================================================================
