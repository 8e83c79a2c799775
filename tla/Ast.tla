-------------------------------- MODULE Ast --------------------------------
(***************************************************************************)
(* The syntax trees of programs.  A chain stands for MulExp, AddExp, RelExp *)
(* and EqExp alike: expressions of the next level with operators between   *)
(* them, taken from the left; with one expression it is that expression.   *)
(* What may be absent is a sequence of at most one element.                *)
(***************************************************************************)
EXTENDS MirValues

IntNumber(n)        == [kind |-> "int", value |-> n]
FloatNumber(h)      == [kind |-> "float", value |-> h]
LVal(ident, exps)   == [kind |-> "lval", ident |-> ident, exps |-> exps]
Call(ident, params) == [kind |-> "call", ident |-> ident, params |-> params]
Unary(op, exp)      == [kind |-> "unary", op |-> op, exp |-> exp]

\* The levels of chains, from the tightest.
Levels    == <<"mul", "add", "rel", "eq">>
Operators == [mul |-> {"mul", "div", "mod"}, add |-> {"add", "sub"},
              rel |-> {"lt", "gt", "le", "ge"}, eq |-> {"eq", "ne"}]

Chain(level, exps, operators) ==
  IF Len(exps) = 1 THEN exps[1]
  ELSE [kind |-> "chain", level |-> level, exps |-> exps, operators |-> operators]

\* A condition: a sequence (lOrExp) of sequences (lAndExp) of EqExps.
Cond(lOrExp) == lOrExp

AssignStmt(lVal, exp)       == [kind |-> "assign", lVal |-> lVal, exp |-> exp]
ExpStmt(exp)                == [kind |-> "exp", exp |-> exp]
BlockStmt(items)            == [kind |-> "block", items |-> items]
IfStmt(cond, then, _else)   == [kind |-> "if", cond |-> cond, then |-> then, else |-> _else]
WhileStmt(cond, body)       == [kind |-> "while", cond |-> cond, body |-> body]
BreakStmt                   == [kind |-> "break"]
ContinueStmt                == [kind |-> "continue"]
ReturnStmt(exp)             == [kind |-> "return", exp |-> exp]

\* An initial value: an expression, or a list of initial values.
InitVals(vals)  == [kind |-> "list", vals |-> vals]
IsInitVals(val) == val.kind = "list"

Def(ident, dims, init)    == [ident |-> ident, dims |-> dims, init |-> init]
Decl(const, bType, defs)  == [kind |-> "decl", const |-> const, bType |-> bType, defs |-> defs]
ConstDecl(bType, defs)    == Decl(TRUE, bType, defs)
VarDecl(bType, defs)      == Decl(FALSE, bType, defs)

\* The first dimension of an array parameter is left open; dims are the others.
Param(bType, ident)            == [bType |-> bType, ident |-> ident, array |-> FALSE, dims |-> <<>>]
ArrayParam(bType, ident, dims) == [bType |-> bType, ident |-> ident, array |-> TRUE, dims |-> dims]
FuncDef(funcType, ident, params, items) ==
  [kind |-> "func", funcType |-> funcType, ident |-> ident, params |-> params, items |-> items]

IsDecl(item) == item.kind = "decl"
=============================================================================
