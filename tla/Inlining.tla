------------------------------ MODULE Inlining ------------------------------
(***************************************************************************)
(* Inlining: calls of functions that call nothing become copies of them.    *)
(***************************************************************************)
EXTENDS ControlFlow

Callers(infos, name) == {g \in DOMAIN infos : name \in infos[g].callees}

can_inline(m, infos, name) ==
  /\ name # "main"
  /\ Len(FunctionNamed(m, name).params) < 20
  /\ infos[name].callees = {} /\ Callers(infos, name) # {}
  /\ ~infos[name].is_recursive

\* FunctionCloneHelper::clone_function, with the names and blocks of the copy counted on
\* from `vars' and `blocks', and the arguments replaced by the parameters of a call.
Cloned(f, params, vars, blocks) ==
  LET Copy(v) == CASE v[1] = "var" -> Var(v[2] + vars, v[3])
                   [] v[1] = "arg" -> params[v[2]]
                   [] OTHER -> v
      InCopy(ins) == [ins EXCEPT !.def = Copy(@), !.args = [i \in DOMAIN @ |-> Copy(@[i])],
                                 !.to = [i \in DOMAIN @ |-> @[i] + blocks],
                                 !.opts = [b \in {c + blocks : c \in DOMAIN @} |-> Copy(@[b - blocks])]]
  IN  [f EXCEPT !.blocks = [i \in DOMAIN @ |-> @[i] + blocks],
                !.code = [b \in {c + blocks : c \in DOMAIN @} |->
                            [i \in DOMAIN @[b - blocks] |-> InCopy(@[b - blocks][i])]]]

\* Phis that had an option for b, which went there, now have it for next.
PhisFollow(f, b, next) ==
  [f EXCEPT !.code = [x \in DOMAIN @ |-> [i \in DOMAIN @[x] |->
     [@[x][i] EXCEPT !.opts = IF b \notin DOMAIN @ \/ x \notin Targets(f.code[b]) THEN @
                              ELSE [y \in (DOMAIN @ \ {b}) \cup {next} |-> IF y = next THEN @[b] ELSE @[y]]]]]]

\* replace_call: the block ends in a jump to the copy, whose returns go on to a block
\* with what came after the call; there a phi has the value returned.
replace_call(f, callee, call) ==
  LET b == CHOOSE c \in Blocks(f) : call \in ToSet(f.code[c])
      at == CHOOSE i \in DOMAIN f.code[b] : f.code[b][i] = call
      shift == Max(Blocks(f)) + 1
      copy == Computed(Cloned(callee, call.args, f.vars, shift))
      next == Max(Blocks(copy)) + 1
      rets == {c \in Blocks(copy) : Last(copy.code[c]).op = "ret"}
      phi == Phi(f.vars + callee.vars, callee.type, [c \in rets |-> Last(copy.code[c]).args[1]])
      rest == SubSeq(f.code[b], at + 1, Len(f.code[b]))
      Returning(c) == IF c \in rets THEN Append(Front(copy.code[c]), Jump(next)) ELSE copy.code[c]
      moved == PhisFollow(f, b, next)
      code == [c \in Blocks(copy) |-> Returning(c)]
              @@ (next :> IF callee.type = Void THEN rest ELSE <<phi>> \o rest)
              @@ [moved.code EXCEPT ![b] = Append(SubSeq(@, 1, at - 1), Jump(Entry(copy)))]
      i == CHOOSE j \in DOMAIN f.blocks : f.blocks[j] = b
      whole == [f EXCEPT !.blocks = SubSeq(@, 1, i) \o <<next>> \o SubSeq(@, i + 1, Len(@)) \o copy.blocks,
                         !.code = code, !.vars = @ + callee.vars + 1]
  IN  IF callee.type = Void THEN whole ELSE Replaced(whole, call.def, phi.def)

\* do_inline: the calls are collected first.
do_inline(m, name) ==
  LET callee == FunctionNamed(m, name)
      IsCall(ins) == ins.op = "call" /\ ins.sub = name
      RECURSIVE AllReplaced(_)
      AllReplaced(f) ==
        LET calls == {ins \in Instructions(f) : IsCall(ins)}
        IN  IF calls = {} THEN f ELSE AllReplaced(Computed(replace_call(f, callee, CHOOSE c \in calls : TRUE)))
  IN  Computed(InFunctions(m, AllReplaced))

\* Inlining::transform
InlineCalls(m) ==
  LET infos == FunctionInfos(m)
      names == [i \in DOMAIN m.functions |-> m.functions[i].name]
  IN  SimplifyFlow(Through(do_inline, m, SelectSeq(names, LAMBDA name : can_inline(m, infos, name))))
=============================================================================
