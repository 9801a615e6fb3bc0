----------------------------- MODULE MCMachine -----------------------------
(* The page manager, the drivers of the three devices and the in-memory filesystem.
   They share no state, so one of them at a time takes its steps. *)
EXTENDS Memory, Keyboard, Gpu, Disk, MemoryFs

VARIABLE part

MCModifierOf == [k \in ModifierKeys |->
  IF k \in {"left_shift", "right_shift"} THEN "SHIFT" ELSE "CTRL"]

\* Files are opened to read, to write, and to write anew.
MCFlagSets == {{}, {"CREATE", "TRUNCATE"}}

Symmetry == Permutations(Names)

machineVars == <<memoryVars, keyboardVars, gpuVars, diskVars, memoryFsVars, part>>

MCInit ==
  /\ MemoryInit /\ KeyboardInit /\ GpuInit /\ DiskInit /\ MemoryFsInit
  /\ part \in {"memory", "keyboard", "gpu", "disk", "files"}
  \* Which contents a disk starts with matters to the disk alone.
  /\ part # "disk" => storage = [s \in Sectors |-> Empty]

MCNext ==
  /\ UNCHANGED part
  /\ \/ /\ part = "memory" /\ MemoryNext
        /\ UNCHANGED <<keyboardVars, gpuVars, diskVars, memoryFsVars>>
     \/ /\ part = "keyboard" /\ KeyboardNext
        /\ UNCHANGED <<memoryVars, gpuVars, diskVars, memoryFsVars>>
     \/ /\ part = "gpu" /\ GpuNext
        /\ UNCHANGED <<memoryVars, keyboardVars, diskVars, memoryFsVars>>
     \/ /\ part = "disk" /\ DiskNext
        /\ UNCHANGED <<memoryVars, keyboardVars, gpuVars, memoryFsVars>>
     \/ /\ part = "files" /\ MemoryFsNext
        /\ UNCHANGED <<memoryVars, keyboardVars, gpuVars, diskVars>>

MCSpec == MCInit /\ [][MCNext]_machineVars
=============================================================================
