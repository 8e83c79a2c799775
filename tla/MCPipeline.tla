----------------------------- MODULE MCPipeline -----------------------------
(***************************************************************************)
(* Small programs, each with the functions it needs and no more.            *)
(***************************************************************************)
EXTENDS Pipeline

N(n)       == IntNumber(n)
V(x)       == LVal(x, <<>>)
At(x, i)   == LVal(x, <<i>>)
At2(x, i, j) == LVal(x, <<i, j>>)
Plus(a, b)  == Chain("add", <<a, b>>, <<"add">>)
Times(a, b) == Chain("mul", <<a, b>>, <<"mul">>)
Lt(a, b)    == Chain("rel", <<a, b>>, <<"lt">>)
Get         == Call("getint", <<>>)
Do(f, params) == ExpStmt(<<Call(f, params)>>)
Set(x, e)   == AssignStmt(V(x), e)
IntVar(x, e)   == VarDecl(I32, <<Def(x, <<>>, <<e>>)>>)
FloatVar(x, e) == VarDecl(F32, <<Def(x, <<>>, <<e>>)>>)
IntArray(x, dims, vals) == VarDecl(I32, <<Def(x, dims, <<InitVals(vals)>>)>>)
Return(e)   == ReturnStmt(<<e>>)
Main(items) == FuncDef(I32, "main", <<>>, items)

(* Control flow: two statements about two variables. *)
Simple == {Set("x", Plus(V("x"), V("y"))), Set("y", Times(V("x"), N(3)))}
Conds  == {<<<<Lt(V("x"), V("y"))>>>>, <<<<V("x"), V("y")>>, <<Lt(V("y"), N(2))>>>>}
Ifs    == {IfStmt(c, s, e) : c \in Conds, s \in Simple, e \in {<<>>, <<Return(V("y"))>>, <<Set("x", N(2))>>}}
Whiles == {WhileStmt(<<<<Lt(V("x"), N(3))>>>>, BlockStmt(<<Set("x", Plus(V("x"), N(1))), s>>)) :
             s \in {Set("y", Plus(V("x"), V("y"))), IfStmt(<<<<V("y")>>>>, Set("y", Plus(V("y"), N(-1))), <<>>),
                    IfStmt(<<<<V("y")>>>>, BreakStmt, <<Set("y", V("x"))>>),
                    IfStmt(<<<<Lt(V("y"), V("x"))>>>>, ContinueStmt, <<>>)}}
Flow == {<<Main(<<IntVar("x", Get), IntVar("y", N(2)), a, b, Do("putint", <<V("x")>>), Return(V("y"))>>)>> :
           a \in Ifs \cup Whiles, b \in Whiles}

(* Memory: arrays and globals, functions that change them, one index expression. *)
GlobalDecls ==
  <<IntVar("g", N(1)), ConstDecl(I32, <<Def("c", <<>>, <<N(3)>>)>>),
    IntArray("ga", <<N(2), N(2)>>, <<InitVals(<<N(4)>>)>>),
    ConstDecl(I32, <<Def("ca", <<N(2)>>, <<InitVals(<<N(6), N(7)>>)>>)>>)>>
CountsUp == FuncDef(I32, "f", <<Param(I32, "n")>>, <<Set("g", Plus(V("g"), V("n"))), Return(Times(V("g"), V("c")))>>)
ChangesArray   == FuncDef(Void, "h", <<ArrayParam(I32, "p", <<N(2)>>)>>,
                    <<AssignStmt(At2("p", N(0), N(1)), Plus(At2("p", N(1), N(1)), N(1)))>>)
ReadsArray    == FuncDef(I32, "r", <<ArrayParam(I32, "p", <<N(2)>>)>>, <<Return(At2("p", N(0), N(1)))>>)

Acts(i) ==
  LET a == At2("a", i, N(1))
      ga == At2("ga", i, N(0))
  IN  {AssignStmt(a, V("x")), AssignStmt(ga, a), AssignStmt(a, ga), Set("g", a), Set("x", V("g")), Set("x", ga),
       Do("putint", <<V("g")>>), Do("putint", <<a>>),
       Do("h", <<V("a")>>), Set("x", Call("r", <<V("a")>>)), Set("x", Call("f", <<N(1)>>))}
WithArrays(items) ==
  GlobalDecls \o <<CountsUp, ChangesArray, ReadsArray,
    Main(<<IntArray("a", <<N(2), N(2)>>, <<InitVals(<<N(1)>>), N(2)>>), IntVar("x", Get)>>
         \o items \o <<Do("putint", <<V("x")>>), Do("putint", <<At2("a", N(0), N(1))>>), Return(At("ca", N(1)))>>)>>
Memory == {WithArrays(<<a, b>>) : a, b \in Acts(N(0))}
          \cup {WithArrays(<<a, IfStmt(<<<<Lt(V("x"), V("g"))>>>>, b, <<>>), a>>) :
                  a \in Acts(V("x")), b \in {AssignStmt(At2("a", V("x"), N(1)), N(8)), Set("g", N(0))}}

(* Calls: recursion, loops, early returns, a caller of both. *)
Recursive == FuncDef(I32, "pf", <<Param(I32, "n")>>,
               <<IfStmt(<<<<Lt(V("n"), N(2))>>>>, Return(V("n")), <<>>),
                 Return(Plus(Call("pf", <<Plus(V("n"), N(-1))>>), Call("pf", <<Plus(V("n"), N(-2))>>)))>>)
Loops == FuncDef(I32, "qf", <<Param(I32, "n"), Param(I32, "k")>>,
           <<IntVar("s", N(0)), WhileStmt(<<<<Lt(V("s"), V("n"))>>>>, Set("s", Plus(V("s"), V("k")))),
             Return(Plus(V("s"), Call("pf", <<V("k")>>)))>>)
Shows == FuncDef(Void, "v", <<Param(I32, "n")>>,
           <<IfStmt(<<<<Lt(V("n"), N(1))>>>>, ReturnStmt(<<>>), <<>>),
             Do("putint", <<V("n")>>), Set("g", Plus(V("g"), V("n")))>>)
Chooses == FuncDef(I32, "w", <<Param(I32, "n"), Param(I32, "k")>>,
             <<IfStmt(<<<<Lt(V("n"), V("k"))>>>>, Return(V("k")), <<Set("n", Times(V("n"), N(2)))>>), Return(V("n"))>>)
CallActs == {Set("x", Call("pf", <<e>>)) : e \in {N(3), V("x")}}
            \cup {Set("x", Call("qf", <<N(3), e>>)) : e \in {N(1), Call("pf", <<N(2)>>)}}
            \cup {Do("v", <<e>>) : e \in {N(0), V("x")}}
            \cup {IfStmt(<<<<Lt(V("x"), N(1))>>>>, Set("x", Call("w", <<V("x"), N(3)>>)), <<>>)}
            \cup {Set("x", Plus(V("x"), Call("w", <<V("x"), e>>))) : e \in {N(2), V("g")}}
Calls == {<<IntVar("g", N(1)), Recursive, Loops, Shows, Chooses,
            Main(<<IntVar("x", Get), a, b, Do("putint", <<V("g")>>), Return(V("x"))>>)>> : a, b \in CallActs}

(* The rest: floating-point numbers, arrays that come and go whole, short-circuits whose
   conditions turn out to be constant, names declared again, more scalars than are promoted. *)
Half(e) == Chain("mul", <<e, FloatNumber(1)>>, <<"mul">>)
Floats == Main(<<FloatVar("p", Call("getfloat", <<>>)), IntVar("x", V("p")), FloatVar("q", Half(V("x"))),
                 IfStmt(<<<<Lt(V("q"), V("p"))>>>>, Set("q", Plus(V("q"), V("x"))), <<>>),
                 Do("putfloat", <<V("q")>>), Return(V("q"))>>)
WholeArrays ==
  Main(<<IntArray("a", <<N(3)>>, <<N(5)>>), IntVar("n", Call("getarray", <<V("a")>>)),
         AssignStmt(At("a", N(2)), Plus(V("n"), At("a", N(0)))), Do("putarray", <<N(3), V("a")>>), Return(At("a", V("n")))>>)
ShortCircuit(cond) ==
  Main(<<IntArray("a", <<N(2)>>, <<>>), AssignStmt(At("a", N(0)), N(0)), IntVar("x", Get), IntVar("y", N(0)),
         IfStmt(cond, Set("y", N(2)), <<>>), Return(V("y"))>>)
Scopes ==
  Main(<<IntVar("x", Get), IfStmt(<<<<V("x")>>>>, BlockStmt(<<IntVar("x", N(2)), Set("x", Plus(V("x"), N(1))),
         Do("putint", <<V("x")>>)>>), <<>>), Return(Unary("sub", V("x")))>>)
ManyScalars ==
  Main(<<IntVar("s", Get), IntVar("t", N(1)), IntVar("u", N(2)), IntVar("v", N(3)), IntVar("z", N(4)),
         Set("z", Call("w", <<V("s"), V("t")>>)), Return(Plus(V("z"), Plus(V("u"), V("v"))))>>)
Less(a, b) == Chain("add", <<a, b>>, <<"sub">>)
Orders ==
  Main(<<IntVar("x", Get), IntVar("y", Get), Return(Plus(Less(V("x"), V("y")), Times(Less(V("y"), V("x")), N(2))))>>)
LoadBetween ==
  Main(<<IntArray("a", <<N(2), N(2)>>, <<>>), IntVar("x", Get), IntVar("y", N(0)),
         AssignStmt(At2("a", N(1), N(1)), N(4)), Set("y", At2("a", V("x"), N(1))),
         AssignStmt(At2("a", N(1), N(1)), N(8)), Return(Plus(V("y"), At2("a", N(1), N(1))))>>)
\* A function that hands a global array over does not count as one that reads it: the
\* interpreter is asked what a call of it returns.
HandsOver ==
  <<IntArray("g", <<N(2)>>, <<>>), FuncDef(I32, "h", <<ArrayParam(I32, "p", <<>>)>>, <<Return(At("p", N(0)))>>),
    FuncDef(I32, "f", <<>>, <<Return(Call("h", <<V("g")>>))>>),
    Main(<<AssignStmt(At("g", N(0)), Get), Return(Call("f", <<>>))>>)>>
Rest ==
  {HandsOver, <<Floats>>, <<WholeArrays>>, <<Orders>>, <<LoadBetween>>, <<Scopes>>, <<Chooses, ManyScalars>>}
  \cup {<<ShortCircuit(c)>> : c \in {<<<<V("x"), At("a", N(0))>>>>, <<<<At("a", N(0))>>, <<V("x")>>>>}}

MCPrograms == Flow \cup Memory \cup Calls \cup Rest
MCInputs == {<<0, 1, 1>>, <<1, 2, 7>>, <<7, 3>>}

(* What compilations do wrong. *)
MCShortCircuit == {<<ShortCircuit(<<<<V("x"), At("a", N(0))>>>>)>>}
MCArrayReader ==
  {<<IntArray("g", <<N(2)>>, <<>>), FuncDef(I32, "h", <<ArrayParam(I32, "p", <<>>)>>, <<Return(At("p", N(0)))>>),
     FuncDef(I32, "f", <<>>, <<Return(Call("h", <<V("g")>>))>>),
     Main(<<IntVar("x", Call("f", <<>>)), AssignStmt(At("g", N(0)), Get), Return(Plus(V("x"), Call("f", <<>>)))>>)>>}
=============================================================================
