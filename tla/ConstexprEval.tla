--------------------------- MODULE ConstexprEval ---------------------------
(***************************************************************************)
(* The interpreter of the intermediate representation, and the pass that    *)
(* replaces calls with constant arguments by what it finds they return.     *)
(*                                                                         *)
(* The interpreter has no memory here and no library (the mode that has is  *)
(* in no pipeline): it gives up on instructions that need them and after    *)
(* counter_limit instructions.  What functions returned is kept in a cache *)
(* that lives as long as one function is looked at.                        *)
(***************************************************************************)
EXTENDS LocalValueNumbering

\* Bound: 20000 in the code; small, so that programs reach it.
counter_limit == 40

Key(name, args) == <<name, args>>

-----------------------------------------------------------------------------
(* The interpreter: counter, cache and status, and of the function at work *)
(* where it is, the block before, the values and those of the phis of the   *)
(* block.  Its own abort() and log_error throw ("aborted", which the pass    *)
(* catches); the abort() that instructions of memory call is the one of the  *)
(* C library, and it ends the compiler ("killed"), like the signal of an     *)
(* integer division by zero.                                               *)

Interpreter0(cache) ==
  [counter |-> 0, cache |-> cache, status |-> "run", at |-> 0, from |-> NoBlock, env |-> <<>>, args |-> <<>>,
   phi_cache |-> <<>>, ret_value |-> None]

get_runtime_value(s, v) ==
  CASE v[1] = "var" -> s.env[v]
    [] v[1] = "arg" -> s.args[v[2]]
    [] OTHER -> v

\* do_interpret of the instructions that compute.
Interpreted(s, ins) ==
  LET v == [i \in DOMAIN ins.args |-> get_runtime_value(s, ins.args[i])]
      Set(r) == [s EXCEPT !.env = (ins.def :> r) @@ @]
  IN  CASE ins.op \in {"intbinary", "floatbinary", "icmp", "fcmp"} ->
             IF ins.sub \in {"div", "mod"} /\ TypeOf(v[1]) = I32 /\ IsZero(v[2]) THEN [s EXCEPT !.status = "killed"]
             ELSE Set(Result(ins.sub, v[1], v[2]))
        [] ins.op \in {"zext", "sitofp", "fptosi"} -> Set(CastConstant(v[1], TypeOf(ins.def)))
        [] ins.op \in {"alloc", "load", "store", "gep"} -> [s EXCEPT !.status = "killed"]
        [] OTHER -> [s EXCEPT !.status = "aborted"]

\* The phis of a block are read before any of them is set.
PhisInterpreted(s, phis) ==
  LET Read(r, phi) == IF r.counter >= counter_limit THEN [r EXCEPT !.status = "aborted"]
                      ELSE [r EXCEPT !.counter = @ + 1,
                                     !.phi_cache = (phi.def :> get_runtime_value(r, phi.opts[r.from])) @@ @]
      Set(read) == [read EXCEPT !.env = read.phi_cache @@ @, !.phi_cache = <<>>]
  IN  Set(Through(Read, s, phis))

RECURSIVE InterpretBlocks(_, _, _), InterpretCall(_, _, _), InterpretFunction(_, _, _, _)

\* Call::do_interpret: the function at work comes back when the other one is done.
InterpretCall(m, s, ins) ==
  LET args == [i \in DOMAIN ins.args |-> get_runtime_value(s, ins.args[i])]
      key == Key(ins.sub, args)
      Set(back, value) ==
        IF Runs(back) /\ Defines(ins) THEN [back EXCEPT !.env = (ins.def :> value) @@ @] ELSE back
      Back(called) ==
        Set([s EXCEPT !.counter = called.counter, !.status = called.status,
                      !.cache = IF Runs(called) THEN (key :> called.ret_value) @@ called.cache ELSE called.cache],
            called.ret_value)
      plain == \A i \in DOMAIN args : args[i][1] # "global"
  IN  CASE ins.sub \notin FunctionNames(m) \/ ~plain -> [s EXCEPT !.status = "aborted"]
        [] key \in DOMAIN s.cache -> Set(s, s.cache[key])
        [] OTHER -> Back(InterpretFunction(m, s, ins.sub, args))

InterpretBlocks(m, f, s) ==
  LET code == f.code[s.at]
      Step(r, ins) ==
        CASE ~Runs(r) -> r
          [] r.counter >= counter_limit -> [r EXCEPT !.status = "aborted"]
          [] ins.op = "call" -> InterpretCall(m, [r EXCEPT !.counter = @ + 1], ins)
          [] IsTerminator(ins) -> [r EXCEPT !.counter = @ + 1]
          [] OTHER -> Interpreted([r EXCEPT !.counter = @ + 1], ins)
      t == Last(code)
      Left(after) ==
        LET c == get_runtime_value(after, t.args[1])
            To(b) == InterpretBlocks(m, f, [after EXCEPT !.from = s.at, !.at = b])
        IN  CASE ~Runs(after) -> after
              [] t.op = "jump" -> To(t.to[1])
              [] t.op = "branch" -> To(t.to[IF IsZero(c) THEN 2 ELSE 1])
              [] t.op = "ret" -> [after EXCEPT !.ret_value = IF t.args = <<>> THEN ConstInt(0) ELSE c]
  IN  Left(Through(Step, PhisInterpreted(s, SelectSeq(code, IsPhi)), SelectSeq(code, LAMBDA ins : ~IsPhi(ins))))

\* interpret_function
InterpretFunction(m, s, name, args) ==
  LET f == FunctionNamed(m, name)
  IN  InterpretBlocks(m, f, [s EXCEPT !.at = Entry(f), !.from = NoBlock, !.env = <<>>, !.args = args,
                                      !.phi_cache = <<>>])

-----------------------------------------------------------------------------
(* The pass *)

is_constexpr_func(infos, name) ==
  /\ name \in DOMAIN infos
  /\ LET info == infos[name]
     IN  /\ ~info.memory_read /\ ~info.memory_write /\ ~info.memory_alloc
         /\ ~info.io_read /\ ~info.io_write
         /\ ~info.has_side_effect /\ info.no_state /\ info.has_return

\* run_on_func: the first call that can be replaced is; those before it that could not
\* leave the cache behind.  Where the interpreter is killed the compiler is.
EvaluateCall(m, infos, f) ==
  LET code == FlattenSeq([i \in DOMAIN f.blocks |-> f.code[f.blocks[i]]])
      Candidate(ins) == /\ ins.op = "call" /\ is_constexpr_func(infos, ins.sub)
                        /\ \A i \in DOMAIN ins.args : IsConstant(ins.args[i])
      Try(a, ins) ==
        LET key == Key(ins.sub, ins.args)
            Known(value) == [a EXCEPT !.done = TRUE, !.f = Replaced(@, ins.def, value)]
            Ran(run) == IF Runs(run) THEN Known(run.ret_value)
                        ELSE [a EXCEPT !.cache = run.cache, !.killed = run.status = "killed"]
        IN  CASE a.done \/ a.killed \/ ~Candidate(ins) -> a
              [] key \in DOMAIN a.cache -> Known(a.cache[key])
              [] OTHER -> Ran(InterpretFunction(m, Interpreter0(a.cache), ins.sub, ins.args))
  IN  Through(Try, [f |-> f, cache |-> <<>>, done |-> FALSE, killed |-> FALSE], code)

RECURSIVE EvaluateCalls(_, _)
\* ConstexprFuncEval::transform: the module and whether the compiler was killed.
EvaluateCalls(m, infos) ==
  LET In(a, i, r) == [m |-> [a.m EXCEPT !.functions[i] = r.f], changed |-> a.changed \/ r.done, killed |-> r.killed]
      Each(a, i) == IF a.killed THEN a ELSE In(a, i, EvaluateCall(a.m, infos, a.m.functions[i]))
      Again(round) == IF round.changed /\ ~round.killed THEN EvaluateCalls(DeadInstEliminate(round.m), infos)
                      ELSE [m |-> m, killed |-> round.killed]
  IN  Again(Through(Each, [m |-> m, changed |-> FALSE, killed |-> FALSE], [i \in DOMAIN m.functions |-> i]))

ConstexprFuncEval(m) == EvaluateCalls(m, FunctionInfos(m))
=============================================================================
