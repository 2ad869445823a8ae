----------------------------- MODULE MCSnapTake -----------------------------
(* A single VM with two firecracker builds, with and without a CPU template,*)
(* on three hosts of which two differ in a feature that locks nothing; a    *)
(* server with an agent; and two servers, with disks that outlive the VMs   *)
(* or not.                                                                  *)
EXTENDS SnapTake

Build(v, c, p) == [vmm |-> v, config |-> c, posture |-> p]
T1 == [text |-> "t1", layout |-> 1]
Cpu(f) == [model |-> "m", flags |-> f]
SmallSettings ==
    {[servers |-> 1, agents |-> 0, cpus |-> {Cpu({"amx", "aes"}), Cpu({"amx"}), Cpu({"aes"})},
      builds |-> {Build("v1", None, "volatile"), Build("v2", T1, "volatile")}],
     [servers |-> 1, agents |-> 1, cpus |-> {Cpu({"amx"})},
      builds |-> {Build("v1", T1, "volatile")}],
     [servers |-> 2, agents |-> 0, cpus |-> {Cpu({"amx"})},
      builds |-> {Build("v1", None, "volatile"), Build("v1", None, "durable")}]}
=============================================================================
