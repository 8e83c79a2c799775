----------------------------- MODULE MirValues -----------------------------
(***************************************************************************)
(* The types and the values that programs and their intermediate           *)
(* representation have in common, arithmetic on them, the memory they are   *)
(* kept in and the runtime library that reads input and shows output.      *)
(***************************************************************************)
EXTENDS Integers, SequencesExt

Words32 == INSTANCE Words WITH Bits <- 32

\* x; TLC computes it once here, and not again wherever a part of it is asked for.
Computed(x) == CHOOSE y \in {x} : y = x

\* FoldLeft for long sequences of long steps: every step starts from a computed value.
Through(Step(_, _), base, seq) ==
  LET after[i \in 0..Len(seq)] ==
        IF i = 0 THEN base
        ELSE CHOOSE r \in {Step(a, seq[i]) : a \in {Computed(after[i - 1])}} : TRUE
  IN  after[Len(seq)]

-----------------------------------------------------------------------------
(* Types *)

I32  == <<"i32">>
I1   == <<"i1">>
F32  == <<"f32">>
Void == <<"void">>
Pointer(t)  == <<"ptr", t>>
Array(n, t) == <<"arr", n, t>>

IsPointer(t) == t[1] = "ptr"
IsArray(t)   == t[1] = "arr"
IsScalar(t)  == t \in {I32, F32}
\* What a pointer points to, what an array consists of.
ContainType(t) == t[2]
ElementType(t) == t[3]

RECURSIVE AtomicType(_), FlattenedSize(_)
AtomicType(t)    == IF IsArray(t) THEN AtomicType(ElementType(t)) ELSE t
FlattenedSize(t) == IF IsArray(t) THEN t[2] * FlattenedSize(ElementType(t)) ELSE 1

\* The array type with the given dimensions.
Dimensioned(t, dims) == FoldRight(Array, dims, t)

-----------------------------------------------------------------------------
(* Values are triples: a kind, what tells the value from others of its kind *)
(* and its type.  A float is a number of halves.                           *)

None == <<"none", 0, Void>>

ConstInt(n)   == <<"const", n, I32>>
ConstFloat(h) == <<"const", h, F32>>
ConstBool(b)  == <<"const", IF b THEN 1 ELSE 0, I1>>
Zero(t)       == <<"const", 0, t>>
Undefined(t)  == <<"undef", 0, t>>
\* A place in memory: the object and the cell in it.
Place(obj, cell, t) == <<"place", <<obj, cell>>, t>>

TypeOf(v)     == v[3]
NumberOf(v)   == v[2]
IsConstant(v) == v[1] = "const"
IsZero(v)     == IsConstant(v) /\ NumberOf(v) = 0

\* Conversion of a constant; a float loses its fraction.
CastConstant(v, t) ==
  LET n == NumberOf(v)
      from == TypeOf(v)
  IN  CASE from = t -> v
        [] t = I1 -> ConstBool(n # 0)
        [] t = F32 -> ConstFloat(2 * n)
        [] from = F32 -> ConstInt(Words32!Div(n, 2))
        [] OTHER -> ConstInt(n)

IntOps   == {"add", "sub", "mul", "div", "mod"}
Relations == {"eq", "ne", "lt", "le", "gt", "ge"}

\* Division by zero has no value.
IntResult(op, a, b) ==
  CASE op = "add" -> ConstInt(a + b)
    [] op = "sub" -> ConstInt(a - b)
    [] op = "mul" -> ConstInt(a * b)
    [] b = 0      -> Undefined(I32)
    [] op = "div" -> ConstInt(Words32!Div(a, b))
    [] op = "mod" -> ConstInt(Words32!Mod(a, b))

FloatResult(op, a, b) ==
  CASE op = "add" -> ConstFloat(a + b)
    [] op = "sub" -> ConstFloat(a - b)
    [] op = "mul" -> ConstFloat(Words32!Div(a * b, 2))
    [] b = 0      -> Undefined(F32)
    [] op = "div" -> ConstFloat(Words32!Div(2 * a, b))
    [] op = "mod" -> ConstFloat(Words32!Mod(a, b))

Holds(op, a, b) ==
  CASE op = "eq" -> a = b [] op = "ne" -> a # b [] op = "lt" -> a < b
    [] op = "le" -> a <= b [] op = "gt" -> a > b [] op = "ge" -> a >= b

\* The value of an operation on two constants of one type.
Result(op, v, w) ==
  CASE ~IsConstant(v) \/ ~IsConstant(w) -> Undefined(TypeOf(v))
    [] op \in Relations -> ConstBool(Holds(op, NumberOf(v), NumberOf(w)))
    [] TypeOf(v) = F32  -> FloatResult(op, NumberOf(v), NumberOf(w))
    [] OTHER            -> IntResult(op, NumberOf(v), NumberOf(w))

-----------------------------------------------------------------------------
(* Machines: the memory as a sequence of objects, each a sequence of cells, *)
(* the input left, what was shown, and how the run stands: "run", "stuck"   *)
(* where it does something that has no meaning, "long" out of fuel.        *)

Machine(input, fuel) ==
  [mem |-> <<>>, input |-> input, out |-> <<>>, fuel |-> fuel, status |-> "run"]

Stuck(s)  == [s EXCEPT !.status = "stuck"]
Runs(s)   == s.status = "run"
Fresh(s)  == Len(s.mem) + 1

Allocated(s, cells) == [s EXCEPT !.mem = Append(@, cells)]

InMemory(s, p) ==
  /\ p[1] = "place"
  /\ p[2][2] + 1 \in DOMAIN s.mem[p[2][1]]

CellAt(s, p)     == s.mem[p[2][1]][p[2][2] + 1]
Written(s, p, v) == [s EXCEPT !.mem[p[2][1]][p[2][2] + 1] = v]
Moved(p, cells, t) == Place(p[2][1], p[2][2] + cells, t)

Blank(t) == [i \in 1..FlattenedSize(t) |-> Undefined(AtomicType(t))]
Zeros(t) == [i \in 1..FlattenedSize(t) |-> Zero(AtomicType(t))]

Library == {"getint", "getfloat", "putint", "putfloat", "getarray", "putarray"}
LibraryType  == [f \in Library |-> CASE f \in {"getint", "getarray"} -> I32
                                     [] f = "getfloat" -> F32 [] OTHER -> Void]
LibraryParams ==
  [f \in Library |-> CASE f \in {"getint", "getfloat"} -> <<>>
                       [] f = "putint" -> <<I32>> [] f = "putfloat" -> <<F32>>
                       [] f = "getarray" -> <<Pointer(I32)>>
                       [] f = "putarray" -> <<I32, Pointer(I32)>>]

\* The machine after a call of the library, and the value it returns.  The input is a
\* sequence of integers; getfloat takes one for a number of halves, getarray takes one
\* for a length and then that many.
LibraryCall(s, f, args) ==
  LET Reading(n) == [s EXCEPT !.input = SubSeq(@, n + 1, Len(@))]
      lost == [s |-> Stuck(s), value |-> None]
      n == Head(s.input)
  IN  CASE f \in {"getint", "getfloat", "getarray"} /\ s.input = <<>> -> lost
        [] f = "getint"   -> [s |-> Reading(1), value |-> ConstInt(n)]
        [] f = "getfloat" -> [s |-> Reading(1), value |-> ConstFloat(n)]
        [] f = "getarray" ->
             IF n \notin 0..(Len(s.input) - 1) \/ ~InMemory(s, Moved(args[1], n - 1, I32)) THEN lost
             ELSE [s |-> FoldLeft(LAMBDA r, i : Written(r, Moved(args[1], i - 1, I32), ConstInt(s.input[i + 1])),
                                  Reading(n + 1), [i \in 1..n |-> i]),
                   value |-> ConstInt(n)]
        [] f \in {"putint", "putfloat"} ->
             IF ~IsConstant(args[1]) THEN lost
             ELSE [s |-> [s EXCEPT !.out = Append(@, args[1])], value |-> None]
        [] f = "putarray" ->
             LET k == NumberOf(args[1])
             IN  IF ~IsConstant(args[1]) \/ k < 1 \/ ~InMemory(s, Moved(args[2], k - 1, I32)) THEN lost
                 ELSE [s |-> [s EXCEPT !.out = @ \o [i \in 1..k |-> CellAt(s, Moved(args[2], i - 1, I32))]],
                       value |-> None]
=============================================================================
