-------------------------- MODULE MCAllocatedCode --------------------------
(***************************************************************************)
(* AllocatedCode on the functions of MCGraphColoring, with a second        *)
(* callee-saved register and a function that keeps two values across a     *)
(* call, so that the copies of both of these registers are spilled.        *)
(***************************************************************************)
EXTENDS AllocatedCode, MCGraphColoring

MCRunRegisters == <<"a0", "s0", "s1", "t0">>
MCRunSaved     == <<"s0", "s1">>

MCRunFunctions == MCFunctions @@ [
  across |-> Source(<<"x">>,
    << <<Op(1, "y", <<"x">>), Op(2, "w", <<"x", "y">>), Call(3, "r", <<"x">>),
         Op(4, "z", <<"y", "w">>), Op(5, "q", <<"z", "r">>), Ret(6, <<"q">>)>> >>,
    << {} >>)]

\* No parameter of these is in t0 when the entry block ends.
MCRunPrograms == {"leaf", "call", "loop", "pressure", "stackargs", "across"}

\* A parameter used before the only call finds t0 free for it.
MCEarly == {"early"}
=============================================================================
