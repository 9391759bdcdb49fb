----------------------------- MODULE MCPagedHart -----------------------------
(* PagedHart on the two shipped programs, and on every kernel that loads A   *)
(* or calls B and then takes any three steps.                                *)
EXTENDS PagedHart

Shipped == {MmuTest, DdrTest}
Kernels == {Kernel(<<first>> \o ops) : first \in {Lw(A), Call(B)}, ops \in [1..3 -> KernelOps]}
AllPrograms == Shipped \cup Kernels
=============================================================================
