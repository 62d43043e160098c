------------------------------ MODULE MCVMemMap ------------------------------
(***************************************************************************)
(* Instances of VMemMap for TLC: four levels of tables with two entries    *)
(* each, so that the kernel's half of the address space is pages 8 to 15.  *)
(***************************************************************************)
EXTENDS VMemMap

Kernel == 8 .. 15

CacheFor(phys) == IF phys < 8 THEN "writecomplete" ELSE "uncached"

Request(virt, phys, size) ==
    [virt |-> virt, phys |-> phys, size |-> size, cache |-> CacheFor(phys)]

InKernel(r) == r.virt + r.size - 1 \in Kernel

GoodRequests ==
    {r \in {Request(v, p, n) : v \in Kernel, p \in 0 .. 15, n \in 1 .. 8} :
        /\ InKernel(r)
        /\ r.phys \in {r.virt - 8, (r.virt - 4) % 16}
        /\ MadeFor(r)}

=============================================================================
