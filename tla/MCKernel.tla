----------------------------- MODULE MCKernel -----------------------------
(* The kernel, on either platform, under a few boot processes that may make any
   system call and the processes they spawn; and the graphics server with its
   applications.  The two share no state, so one of them at a time takes its steps. *)
EXTENDS Kernel, Graphics

VARIABLE part

Riscv == INSTANCE Kernel WITH Platform <- "riscv"

MCInit == Init /\ GraphicsInit /\ part \in {Platform, "riscv", "graphics"}

MCNext ==
  /\ UNCHANGED part
  /\ \/ /\ part = Platform /\ UNCHANGED graphicsVars
        /\ Next
     \/ /\ part = "riscv" /\ UNCHANGED graphicsVars
        /\ Riscv!Next
     \/ /\ part = "graphics" /\ UNCHANGED vars
        /\ GraphicsNext

\* The fairness is that of FairGraphicsSpec.
MCSpec == MCInit /\ [][MCNext]_<<vars, graphicsVars, part>> /\ GraphicsFairness

TwoBoot == <<"a", "b">>
ThreeBoot == <<"a", "b", "c">>
OneProgram == {"a"}
NoFlags == {{}}
OneResponse == {[error_code |-> "NONE", value |-> 0]}
=============================================================================
