----------------------------- MODULE MCGpuSharing -----------------------------
(* Instances of GpuSharing for TLC: threads as model values, and per kind  *)
(* of resource a descriptor its entry point takes and some it refuses.     *)
EXTENDS GpuSharing, TLC

CONSTANTS t1, t2, t3

Symmetry == Permutations(Threads)

ImageKinds == <<{"output"}, {"usm", "foreign", "cuda", "va"}, {"d3d11"}>>

Config(memory, handles, query) ==
    [versions |-> TRUE, release |-> TRUE, geometry |-> TRUE,
     backend |-> IF memory \in {"cuda_pointer", "cuda_array"} THEN "nvidia" ELSE "intel",
     memory |-> memory, native |-> memory, handles |-> handles, nv12 |-> TRUE,
     pitch |-> "packed", query |-> query]

KindConfigs ==
    [usm |-> {Config("usm", {0, 1, 2}, FALSE), Config("usm", {0, 1, 2, 3}, FALSE),
              Config("usm", {0, 1, 3}, FALSE), Config("usm", {0, 1, 2}, TRUE)},
     va |-> {Config("va", {0, 1}, FALSE), Config("va", {0, 1}, TRUE)},
     d3d11 |-> {Config("d3d11", {0, 2, 3}, FALSE), Config("d3d11", {0, 1, 2, 3}, FALSE)},
     cuda |-> {Config("cuda_pointer", {0, 1, 3}, FALSE), Config("cuda_array", {0, 1}, FALSE)},
     foreign |-> {Config("cuda_pointer", {0, 1, 3}, FALSE), Config("cuda_pointer", {0}, FALSE)}]

=============================================================================
