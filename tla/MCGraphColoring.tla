-------------------------- MODULE MCGraphColoring --------------------------
(***************************************************************************)
(* Small LIR functions and a small register file for the allocator: a leaf *)
(* under register pressure, a value live across a call, a loop joined by   *)
(* the moves of RemovePhi, more simultaneous values than registers, and a  *)
(* parameter and an argument that travel on the stack.                     *)
(***************************************************************************)
EXTENDS GraphColoring_proofs

MCRegisters   == <<"a0", "s0", "t0">>
MCCalleeSaved == <<"s0">>
MCArgRegs     == <<"a0">>

Op(id, def, uses) == Instr(id, "op", def, uses, None)
Mv(id, to, from)  == Instr(id, "move", to, <<from>>, None)
Call(id, def, args) == Instr(id, "call", def, args, None)
Br(id, uses)  == Instr(id, "branch", None, uses, None)
Ret(id, uses) == Instr(id, "ret", None, uses, None)

Source(params, code, succ) ==
  [code |-> code, succ |-> succ, params |-> params,
   locals |-> {code[p[1]][p[2]].def : p \in Points([code |-> code])} \ {None},
   frame |-> <<>>, uid |-> 0]

MCFunctions == [
  leaf |-> Source(<<"x">>,
    << <<Op(1, "y", <<"x">>), Op(2, "z", <<"x", "y">>), Ret(3, <<"z">>)>> >>,
    << {} >>),
  call |-> Source(<<"x">>,
    << <<Op(1, "y", <<"x">>), Call(2, "r", <<"x">>), Op(3, "z", <<"y", "r">>),
         Ret(4, <<"z">>)>> >>,
    << {} >>),
  loop |-> Source(<<"x">>,
    << <<Mv(1, "s", "x"), Mv(2, "i", "x"), Br(3, <<>>)>>,
       <<Op(4, "s2", <<"s", "i">>), Op(5, "i2", <<"i">>),
         Mv(6, "s", "s2"), Mv(7, "i", "i2"), Br(8, <<"i">>)>>,
       <<Ret(9, <<"s">>)>> >>,
    << {2}, {2, 3}, {} >>),
  pressure |-> Source(<<"x">>,
    << <<Op(1, "a", <<"x">>), Op(2, "b", <<"x">>), Op(3, "c", <<"a", "b">>),
         Op(4, "d", <<"c", "x">>), Ret(5, <<"d">>)>> >>,
    << {} >>),
  stackargs |-> Source(<<"x", "y">>,
    << <<Call(1, "r", <<"x", "y">>), Op(2, "z", <<"y", "r">>), Ret(3, <<"z">>)>> >>,
    << {} >>),
  early |-> Source(<<"x", "y">>,
    << <<Op(1, "z", <<"x", "y">>), Call(2, "r", <<"z">>), Ret(3, <<"r">>)>> >>,
    << {} >>)]
MCPrograms == DOMAIN MCFunctions
=============================================================================
