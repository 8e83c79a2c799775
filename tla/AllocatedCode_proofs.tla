------------------------ MODULE AllocatedCode_proofs ------------------------
(***************************************************************************)
(* Why the allocated code computes what the source computes, for every     *)
(* function, register file and order the allocator works in.               *)
(*                                                                         *)
(* A fact says that a place of the rewritten code (a variable not yet      *)
(* given a register, a stack object, a callee-saved register that was put  *)
(* back) holds some content: what a source variable holds now, what the    *)
(* caller left in a register, or the address of a stack object.  A         *)
(* certificate gives each point of the code the facts that hold there,     *)
(* each step of which follows from the instruction between two points.     *)
(* create_registers makes code with a certificate, the two rewritings keep *)
(* one, and the colouring lets the registers of the live variables hold    *)
(* what the certificate says.                                              *)
(***************************************************************************)
EXTENDS AllocatedCode, GraphColoring_proofs

-----------------------------------------------------------------------------
(* Facts. *)

EnvOf(v)     == <<"env", v>>
CallerOf(r)  == Value("caller", r)
AddressOf(s) == Value("address", s)

\* What is known at a point: pairs of a variable, a stack object or a restored
\* register and what it holds, and whether the block goes on.
Facts(var, inMem, back, goes) == [var |-> var, mem |-> inMem, reg |-> back, goes |-> goes]

\* The instruction of g that an id names.
Origin(g, id) == LET p == CHOOSE p \in Points(g) : At(g, p).id = id IN At(g, p)

VariablesOf(g) == g.locals \cup ToSet(g.params)

\* The stack object an instruction addresses, as far as the facts tell.
Addresses(in, F, s) ==
  IF in.mem # None THEN s = in.mem
  ELSE 1 \in DOMAIN in.uses /\ <<in.uses[1], AddressOf(s)>> \in F.var

\* The instruction gives a source variable another value, so c is no longer what it was.
Changes(g, in, c) ==
  ~IsInsert(in) /\ Origin(g, in.id).def # None /\ c = EnvOf(Origin(g, in.id).def)

\* What the defined variable holds after the instruction.
Result(g, in, F, c) ==
  IF IsInsert(in)
  THEN \/ in.op = "move" /\ <<in.uses[1], c>> \in F.var
       \/ in.op = "load" /\ \E s : Addresses(in, F, s) /\ <<s, c>> \in F.mem
       \/ in.op = "lea" /\ c = AddressOf(in.mem)
  ELSE in.op \in {"op", "move", "call"} /\ Changes(g, in, c)

VarAfter(g, in, F, v, c) ==
  IF v = in.def THEN Result(g, in, F, c)
  ELSE /\ <<v, c>> \in F.var /\ ~Changes(g, in, c)
       /\ in.op = "call" => v \notin CallerSaved

MemAfter(g, in, F, s, c) ==
  IF IsInsert(in) /\ in.op = "store"
  THEN \E q : /\ Addresses(in, F, q)
              /\ IF s = q THEN <<Last(in.uses), c>> \in F.var ELSE <<s, c>> \in F.mem
  ELSE <<s, c>> \in F.mem /\ ~Changes(g, in, c)

\* A callee-saved register that was put back stays as it is while others are, but for
\* what is fetched through it (FetchedOver), which the facts do not tell.
RegAfter(in, F, r, c) ==
  /\ IsInsert(in)
  /\ IF r = in.def THEN in.op = "move" /\ <<in.uses[1], c>> \in F.var
                   ELSE /\ <<r, c>> \in F.reg
                        /\ in.op = "move" => in.def \in ToSet(CalleeSaved)

\* The facts G hold after the instruction if F hold before it.
Step(g, in, F, G) ==
  /\ \A v, c : <<v, c>> \in G.var => VarAfter(g, in, F, v, c)
  /\ \A s, c : <<s, c>> \in G.mem => MemAfter(g, in, F, s, c)
  /\ \A r, c : <<r, c>> \in G.reg => RegAfter(in, F, r, c)
  /\ G.goes => in.op \notin {"branch", "ret"}

\* The k-th operand of a source instruction is where the rewritten one takes it from.
OperandAt(g, in, F, k) ==
  LET c == EnvOf(Origin(g, in.id).uses[k])
  IN  IF k \in DOMAIN in.uses THEN <<in.uses[k], c>> \in F.var
      ELSE <<Fresh(Fresh("param", in.id) \o "_", k), c>> \in F.mem

\* A stack object of f: no variable has its name, none will.
StackObject(f, s) ==
  /\ s \notin f.locals \cup {None}
  /\ \A x \in NamePrefixes : \A n \in Nat : n >= f.uid => Fresh(x, n) # s

\* An inserted instruction is one the allocator makes.
InsertedWell(f, in, F) ==
  /\ in.op \in {"move", "load", "lea", "store"}
  /\ in.op = "store" => in.uses # <<>> /\ \E s : Addresses(in, F, s)
  /\ in.op = "move" => Len(in.uses) = 1
  /\ in.op # "store" => in.def # None
  /\ in.mem = None \/ StackObject(f, in.mem)

\* A source instruction finds its operands, and at a return the callee-saved
\* registers were put back.
SourceWell(g, in, F) ==
  /\ in.op \in {"op", "move", "call", "branch", "ret"}
  /\ Origin(g, in.id) \in Instructions(g)
  /\ \A k \in DOMAIN Origin(g, in.id).uses : OperandAt(g, in, F, k)
  /\ in.op = "move" => in.uses # <<>> /\ 1 \in DOMAIN Origin(g, in.id).uses
  /\ in.op \in {"branch", "ret"} => in.def = None
  /\ in.op = "ret" => ToSet(in.uses) \subseteq Reg
  /\ in.op = "ret" => \A r \in ToSet(CalleeSaved) : <<r, CallerOf(r)>> \in F.reg

\* What F must tell for the instruction to do what the source does.
Enough(g, f, in, F) ==
  /\ F.goes
  /\ IF IsInsert(in) THEN InsertedWell(f, in, F) ELSE SourceWell(g, in, F)

\* The facts are about places of f.
FactsOver(f, F) ==
  /\ \A v, c : <<v, c>> \in F.var => v \in f.locals
  /\ \A s, c : <<s, c>> \in F.mem => StackObject(f, s)
  /\ \A r, c : <<r, c>> \in F.reg => r \in ToSet(CalleeSaved)
  /\ \A x, s : <<x, AddressOf(s)>> \in F.var \cup F.mem => StackObject(f, s)

\* A table of facts for the places between the instructions `is`.
Flow(g, f, is, H) ==
  /\ DOMAIN H = 0..Len(is)
  /\ \A i \in 0..Len(is) : FactsOver(f, H[i])
  /\ \A i \in 1..Len(is) : Step(g, is[i], H[i - 1], H[i]) /\ Enough(g, f, is[i], H[i - 1])

\* From the facts F the instructions lead to the facts G.
Leads(g, f, is, F, G) ==
  \E H : Flow(g, f, is, H) /\ H[0] = F /\ H[Len(is)] = G

-----------------------------------------------------------------------------
(* Pieces of code one after the other. *)

\* An empty piece leads nowhere else.
LEMMA LeadsEmpty ==
  ASSUME NEW g, NEW f, NEW F, FactsOver(f, F)
  PROVE  Leads(g, f, <<>>, F, F)
<1> DEFINE H == [i \in 0..0 |-> F]
<1>1. Flow(g, f, <<>>, H) /\ H[0] = F /\ H[Len(<<>>)] = F
  BY DEF Flow
<1> QED BY <1>1 DEF Leads

\* One instruction.
LEMMA LeadsOne ==
  ASSUME NEW g, NEW f, NEW in, NEW F, NEW G, FactsOver(f, F), FactsOver(f, G),
         Step(g, in, F, G), Enough(g, f, in, F)
  PROVE  Leads(g, f, <<in>>, F, G)
<1> DEFINE H == [i \in 0..1 |-> IF i = 0 THEN F ELSE G]
<1>1. DOMAIN H = 0..1 /\ H[0] = F /\ H[1] = G /\ Len(<<in>>) = 1 /\ <<in>>[1] = in
  OBVIOUS
<1> HIDE DEF H
<1>2. Flow(g, f, <<in>>, H)
  <2>1. \A i \in 0..1 : i = 0 \/ i = 1
    OBVIOUS
  <2>2. \A i \in 1..1 : i = 1 /\ i - 1 = 0
    OBVIOUS
  <2> QED BY <1>1, <2>1, <2>2 DEF Flow
<1> QED BY <1>1, <1>2 DEF Leads

\* Two pieces.
LEMMA LeadsBoth ==
  ASSUME NEW g, NEW f, NEW S, NEW s \in Seq(S), NEW t \in Seq(S), NEW F, NEW G, NEW M,
         Leads(g, f, s, F, M), Leads(g, f, t, M, G)
  PROVE  Leads(g, f, s \o t, F, G)
<1> DEFINE m == Len(s)
           n == Len(t)
           st == s \o t
<1>1. PICK H : Flow(g, f, s, H) /\ H[0] = F /\ H[m] = M
  BY DEF Leads
<1>2. PICK T : Flow(g, f, t, T) /\ T[0] = M /\ T[n] = G
  BY DEF Leads
<1> DEFINE J == [i \in 0..(m + n) |-> IF i <= m THEN H[i] ELSE T[i - m]]
<1>3. /\ m \in Nat /\ n \in Nat /\ Len(st) = m + n
      /\ \A i \in 1..m : st[i] = s[i]
      /\ \A i \in (m + 1)..(m + n) : st[i] = t[i - m]
  BY ConcatProperties, LenProperties
<1> HIDE DEF st, m, n
<1>4. /\ DOMAIN J = 0..(m + n)
      /\ \A i \in 0..m : J[i] = H[i]
      /\ \A i \in m..(m + n) : J[i] = T[i - m]
  BY <1>1, <1>2, <1>3
<1> HIDE DEF J
<1>5. /\ \A i \in 0..m : FactsOver(f, H[i])
      /\ \A i \in 1..m : Step(g, s[i], H[i - 1], H[i]) /\ Enough(g, f, s[i], H[i - 1])
      /\ \A i \in 0..n : FactsOver(f, T[i])
      /\ \A i \in 1..n : Step(g, t[i], T[i - 1], T[i]) /\ Enough(g, f, t[i], T[i - 1])
  BY <1>1, <1>2 DEF Flow, m, n
<1>6. ASSUME NEW i \in 0..(m + n) PROVE FactsOver(f, J[i])
  <2>1. CASE i \in 0..m
    BY <1>4, <1>5, <2>1
  <2>2. CASE i \in m..(m + n)
    <3>1. i - m \in 0..n
      BY <1>3, <2>2
    <3> QED BY <1>4, <1>5, <2>2, <3>1
  <2> QED BY <1>3, <2>1, <2>2
<1>7. ASSUME NEW i \in 1..(m + n)
      PROVE  Step(g, st[i], J[i - 1], J[i]) /\ Enough(g, f, st[i], J[i - 1])
  <2>1. CASE i \in 1..m
    <3>1. i \in 0..m /\ i - 1 \in 0..m
      BY <1>3, <2>1
    <3> QED BY <1>3, <1>4, <1>5, <2>1, <3>1
  <2>2. CASE i \in (m + 1)..(m + n)
    <3>1. i \in m..(m + n) /\ i - 1 \in m..(m + n) /\ i - m \in 1..n /\ (i - 1) - m = (i - m) - 1
      BY <1>3, <2>2
    <3>2. st[i] = t[i - m] /\ J[i] = T[i - m] /\ J[i - 1] = T[(i - m) - 1]
      BY <1>3, <1>4, <2>2, <3>1
    <3> QED BY <1>5, <3>1, <3>2
  <2> QED BY <1>3, <2>1, <2>2
<1>8. J[0] = F /\ J[m + n] = G
  BY <1>1, <1>2, <1>3, <1>4
<1>9. Flow(g, f, st, J)
  BY <1>3, <1>4, <1>6, <1>7 DEF Flow
<1>10. Leads(g, f, st, F, G)
  BY <1>3, <1>8, <1>9 DEF Leads
<1> QED BY <1>10 DEF st

\* Two instructions.
LEMMA TwoPieces ==
  ASSUME NEW g, NEW f, NEW a, NEW b, NEW F, NEW G, NEW M,
         Leads(g, f, <<a>>, F, M), Leads(g, f, <<b>>, M, G)
  PROVE  Leads(g, f, <<a, b>>, F, G)
<1> DEFINE S == {a, b}
           s == <<a>>
           t == <<b>>
<1>1. s \in Seq(S) /\ t \in Seq(S) /\ Len(s) = 1 /\ Len(t) = 1 /\ s[1] = a /\ t[1] = b
  OBVIOUS
<1> HIDE DEF s, t
<1>2. /\ s \o t \in Seq(S) /\ Len(s \o t) = 2
      /\ (s \o t)[1] = a /\ (s \o t)[2] = b
  <2> HIDE DEF S
  <2>1. /\ s \o t \in Seq(S) /\ Len(s \o t) = Len(s) + Len(t)
        /\ \A i \in 1..(Len(s) + Len(t)) : (s \o t)[i] = IF i <= Len(s) THEN s[i] ELSE t[i - Len(s)]
    BY <1>1, ConcatProperties
  <2>2. 1 \in 1..2 /\ 2 \in 1..2 /\ 2 - 1 = 1 /\ 1 + 1 = 2 /\ ~(2 <= 1)
    OBVIOUS
  <2> QED BY <1>1, <2>1, <2>2
<1> DEFINE u == s \o t
           w == <<a, b>>
<1>3. u = w
  <2>1. w \in Seq(S) /\ Len(w) = 2 /\ w[1] = a /\ w[2] = b
    OBVIOUS
  <2>2. \A i \in 1..2 : i = 1 \/ i = 2
    OBVIOUS
  <2> HIDE DEF u, w, S
  <2>3. u \in Seq(S) /\ Len(u) = Len(w) /\ \A i \in 1..Len(u) : u[i] = w[i]
    BY <1>2, <2>1, <2>2 DEF u
  <2> QED BY <2>1, <2>3, SeqEqual
<1> QED BY <1>1, <1>3, LeadsBoth DEF s, t

\* Any number of pieces.
LEMMA LeadsAll ==
  ASSUME NEW g, NEW f, NEW S, NEW n \in Nat, NEW s \in [1..n -> Seq(S)], NEW H,
         FactsOver(f, H[0]),
         \A i \in 1..n : Leads(g, f, s[i], H[i - 1], H[i])
  PROVE  Leads(g, f, FlattenSeq(s), H[0], H[n])
<1>0. PICK p : Joined(S, n, s, p)
  BY FlattenPrefixes
<1>1. /\ p \in [0..n -> Seq(S)] /\ p[0] = <<>>
      /\ \A i \in 1..n : p[i] = p[i - 1] \o s[i]
      /\ FlattenSeq(s) = p[n]
  BY <1>0 DEF Joined
<1> DEFINE I == {i \in 0..n : Leads(g, f, p[i], H[0], H[i])}
<1>2. 0 \in I
  BY <1>1, LeadsEmpty
<1>3. ASSUME NEW i \in 0..(n - 1), i \in I PROVE i + 1 \in I
  <2>1. i + 1 \in 1..n /\ (i + 1) - 1 = i /\ p[i] \in Seq(S) /\ s[i + 1] \in Seq(S) /\ i + 1 \in 0..n
    <3>1. i \in 0..n /\ i + 1 \in 1..n /\ i + 1 \in 0..n /\ (i + 1) - 1 = i
      OBVIOUS
    <3>2. p[i] \in Seq(S)
      <4> HIDE DEF I
      <4> QED BY <1>1, <3>1
    <3>3. s[i + 1] \in Seq(S)
      <4> HIDE DEF I
      <4> QED BY <3>1
    <3> QED BY <3>1, <3>2, <3>3
  <2>2. Leads(g, f, s[i + 1], H[i], H[i + 1]) /\ p[i + 1] = p[i] \o s[i + 1]
    BY <1>1, <2>1
  <2>3. Leads(g, f, p[i] \o s[i + 1], H[0], H[i + 1])
    BY <1>3, <2>1, <2>2, LeadsBoth
  <2> QED BY <2>1, <2>2, <2>3
<1> HIDE DEF I
<1>4. \A i \in 0..n : i \in I
  BY <1>2, <1>3, NumbersUpTo
<1> QED BY <1>1, <1>4 DEF I

-----------------------------------------------------------------------------
(* Spilling keeps what is known. *)

\* What is known once v lives in the frame.
Spilled(F, v) ==
  Facts({x \in F.var : x[1] # v}, F.mem \cup {x \in F.var : x[1] = v},
        F.reg, F.goes)

LEMMA SpilledFacts ==
  ASSUME NEW F, NEW v
  PROVE  LET M == Spilled(F, v)
         IN  /\ \A u, c : <<u, c>> \in M.var <=> u # v /\ <<u, c>> \in F.var
             /\ \A s, c : <<s, c>> \in M.mem <=> \/ <<s, c>> \in F.mem
                                                 \/ s = v /\ <<v, c>> \in F.var
             /\ M.reg = F.reg
             /\ M.goes = F.goes
BY DEF Spilled, Facts

\* The callee-saved registers are registers.
LEMMA CalleeSavedAre == ToSet(CalleeSaved) \subseteq Reg
<1>1. CalleeSaved \in Seq(Reg)
  BY RegisterAssumption
<1> HIDE DEF Reg
<1> QED BY <1>1, RangeOfSeq DEF ToSet

\* h is f with v moved to its frame.
Moves(f, h, v) ==
  /\ v \in f.locals \ Reg /\ None \notin f.locals /\ Reg \subseteq f.locals
  /\ f.locals \ {v} \subseteq h.locals
  /\ \A s : StackObject(f, s) => StackObject(h, s)
  /\ StackObject(h, v)

LEMMA SpilledOver ==
  ASSUME NEW f, NEW h, NEW v, Moves(f, h, v), NEW F, FactsOver(f, F)
  PROVE  FactsOver(h, Spilled(F, v))
<1> DEFINE M == Spilled(F, v)
<1>1. /\ \A u, c : <<u, c>> \in M.var <=> u # v /\ <<u, c>> \in F.var
      /\ \A s, c : <<s, c>> \in M.mem <=> <<s, c>> \in F.mem \/ (s = v /\ <<v, c>> \in F.var)
      /\ M.reg = F.reg
  BY SpilledFacts
<1> HIDE DEF M
<1>2. FactsOver(h, M)
  BY <1>1 DEF FactsOver, Moves
<1> QED BY <1>2 DEF M

\* The instruction that defines v defines a new variable, which is then stored.
LEMMA SpillDefLeads ==
  ASSUME NEW g, NEW f, NEW h, NEW v, Moves(f, h, v),
         NEW F, NEW G, FactsOver(f, F), FactsOver(f, G),
         NEW in, InstructionOver(in, f.locals), in.def = v,
         Step(g, in, F, G), Enough(g, f, in, F),
         NEW t \in h.locals, t \notin f.locals, t # None,
         NEW in2, in2 = Instr(in.id, in.op, t, in.uses, in.mem), NEW st, st = Store(v, t)
  PROVE  Leads(g, h, <<in2, st>>, Spilled(F, v), Spilled(G, v))
<1> DEFINE F2 == Spilled(F, v)
           G2 == Spilled(G, v)
           M == Facts({x \in G.var : x[1] # v} \cup {<<t, x[2]>> : x \in {y \in G.var : y = <<v, y[2]>>}},
                      G.mem, G.reg, TRUE)
<1>1. /\ \A u, c : <<u, c>> \in F2.var <=> u # v /\ <<u, c>> \in F.var
      /\ \A s, c : <<s, c>> \in F2.mem <=> <<s, c>> \in F.mem \/ (s = v /\ <<v, c>> \in F.var)
      /\ F2.reg = F.reg /\ F2.goes = F.goes
  BY SpilledFacts
<1>2. /\ \A u, c : <<u, c>> \in G2.var <=> u # v /\ <<u, c>> \in G.var
      /\ \A s, c : <<s, c>> \in G2.mem <=> <<s, c>> \in G.mem \/ (s = v /\ <<v, c>> \in G.var)
      /\ G2.reg = G.reg /\ G2.goes = G.goes
  BY SpilledFacts
<1>3. /\ \A u, c : <<u, c>> \in M.var <=> \/ u # v /\ <<u, c>> \in G.var
                                          \/ u = t /\ <<v, c>> \in G.var
      /\ M.mem = G.mem /\ M.reg = G.reg /\ M.goes = TRUE
  BY DEF Facts
<1>4. FactsOver(h, F2) /\ FactsOver(h, G2)
  BY SpilledOver
<1> HIDE DEF F2, G2, M
<1>5. v \in f.locals /\ v \notin Reg /\ None \notin f.locals /\ t # v
  BY DEF Moves
<1>6. /\ in2.id = in.id /\ in2.op = in.op /\ in2.def = t /\ in2.uses = in.uses /\ in2.mem = in.mem
      /\ st.id = 0 /\ st.op = "store" /\ st.def = None /\ st.uses = <<t>> /\ st.mem = v
  BY DEF Instr, Store
<1>7. v \notin ToSet(in.uses) /\ in.uses \in Seq(f.locals)
  BY <1>5 DEF InstructionOver
<1>8. \A k \in DOMAIN in.uses : in.uses[k] # v
  BY <1>7 DEF ToSet
<1>9. in.uses # <<>> => Last(in.uses) # v /\ 1 \in DOMAIN in.uses
  <2>1. ASSUME in.uses # <<>> PROVE Len(in.uses) \in DOMAIN in.uses /\ 1 \in DOMAIN in.uses
    BY <1>7, <2>1
  <2> QED BY <1>8, <2>1 DEF Last
<1>10. FactsOver(h, M)
  <2>1. /\ \A u, c : <<u, c>> \in G.var => u \in f.locals
        /\ \A s, c : <<s, c>> \in G.mem => StackObject(h, s)
        /\ \A x, s : <<x, AddressOf(s)>> \in G.var \cup G.mem => StackObject(h, s)
    BY DEF FactsOver, Moves
  <2>2. \A u, c : <<u, c>> \in M.var => u \in h.locals
    <3>1. \A u, c : <<u, c>> \in G.var /\ u # v => u \in h.locals
      BY <2>1 DEF Moves
    <3>2. ASSUME NEW u, NEW c, <<u, c>> \in M.var PROVE u \in h.locals
      <4>1. (<<u, c>> \in G.var /\ u # v) \/ u = t
        BY <1>3, <3>2
      <4> QED BY <3>1, <4>1
    <3> QED BY <3>2
  <2>3. \A x, s : <<x, AddressOf(s)>> \in M.var \cup M.mem => StackObject(h, s)
    BY <1>3, <2>1
  <2> QED BY <1>3, <2>1, <2>2, <2>3 DEF FactsOver
<1>11. \A s : Addresses(in, F, s) => Addresses(in2, F2, s)
  BY <1>1, <1>6, <1>8 DEF Addresses
<1>12. IsInsert(in2) = IsInsert(in) /\ IsInsert(st) /\ \A c : Changes(g, in2, c) <=> Changes(g, in, c)
  BY <1>6 DEF IsInsert, Changes
<1>13. Step(g, in2, F2, M)
  <2>1. ASSUME NEW u, NEW c, <<u, c>> \in M.var PROVE VarAfter(g, in2, F2, u, c)
    <3>1. CASE u = t
      <4>1. <<v, c>> \in G.var
        BY <1>3, <2>1, <3>1 DEF FactsOver
      <4>2. Result(g, in, F, c)
        BY <4>1 DEF Step, VarAfter
      <4>3. in.op = "move" /\ IsInsert(in) => 1 \in DOMAIN in.uses
        BY <1>7 DEF Enough, InsertedWell
      <4>4. Result(g, in2, F2, c)
        <5>1. CASE IsInsert(in)
          <6>1. CASE in.op = "move" /\ <<in.uses[1], c>> \in F.var
            <7>1. <<in.uses[1], c>> \in F2.var
              BY <1>1, <1>8, <4>3, <5>1, <6>1
            <7> QED BY <1>6, <1>12, <5>1, <6>1, <7>1 DEF Result
          <6>2. CASE in.op = "load" /\ \E s : Addresses(in, F, s) /\ <<s, c>> \in F.mem
            <7>1. \E s : Addresses(in2, F2, s) /\ <<s, c>> \in F2.mem
              BY <1>1, <1>11, <6>2
            <7> QED BY <1>6, <1>12, <5>1, <6>2, <7>1 DEF Result
          <6>3. CASE in.op = "lea" /\ c = AddressOf(in.mem)
            BY <1>6, <1>12, <5>1, <6>3 DEF Result
          <6> QED BY <4>2, <5>1, <6>1, <6>2, <6>3 DEF Result
        <5>2. CASE ~IsInsert(in)
          BY <1>6, <1>12, <4>2, <5>2 DEF Result
        <5> QED BY <5>1, <5>2
      <4> QED BY <1>6, <3>1, <4>4 DEF VarAfter
    <3>2. CASE u # t
      <4>1. u # v /\ <<u, c>> \in G.var
        BY <1>3, <2>1, <3>2
      <4>2. VarAfter(g, in, F, u, c)
        BY <4>1 DEF Step
      <4>3. u # in.def /\ u # in2.def
        BY <1>6, <3>2, <4>1
      <4>4. /\ <<u, c>> \in F.var /\ ~Changes(g, in, c)
            /\ in.op = "call" => u \notin CallerSaved
        BY <4>2, <4>3 DEF VarAfter
      <4>5. <<u, c>> \in F2.var
        BY <1>1, <4>1, <4>4
      <4> QED BY <1>6, <1>12, <4>3, <4>4, <4>5 DEF VarAfter
    <3> QED BY <3>1, <3>2
  <2>2. ASSUME NEW s, NEW c, <<s, c>> \in M.mem PROVE MemAfter(g, in2, F2, s, c)
    <3>1. MemAfter(g, in, F, s, c)
      BY <1>3, <2>2 DEF Step
    <3>2. CASE IsInsert(in) /\ in.op = "store"
      <4>1. PICK q : /\ Addresses(in, F, q)
                     /\ IF s = q THEN <<Last(in.uses), c>> \in F.var ELSE <<s, c>> \in F.mem
        BY <3>1, <3>2 DEF MemAfter
      <4>2. in.uses # <<>>
        BY <3>2 DEF Enough, InsertedWell
      <4>3. Last(in2.uses) = Last(in.uses) /\ Last(in.uses) # v
        BY <1>6, <1>9, <4>2
      <4>4. IF s = q THEN <<Last(in2.uses), c>> \in F2.var ELSE <<s, c>> \in F2.mem
        <5>1. CASE s = q
          BY <1>1, <4>1, <4>3, <5>1
        <5>2. CASE s # q
          BY <1>1, <4>1, <5>2
        <5> QED BY <5>1, <5>2
      <4>5. Addresses(in2, F2, q)
        BY <1>11, <4>1
      <4> QED BY <1>6, <1>12, <3>2, <4>4, <4>5 DEF MemAfter
    <3>3. CASE ~(IsInsert(in) /\ in.op = "store")
      BY <1>1, <1>6, <1>12, <3>1, <3>3 DEF MemAfter
    <3> QED BY <3>2, <3>3
  <2>3. in2.op \notin {"branch", "ret"}
    BY <1>5, <1>6 DEF Enough, InsertedWell, SourceWell
  <2>4. ASSUME NEW r, NEW c, <<r, c>> \in M.reg PROVE RegAfter(in2, F2, r, c)
    <3>1. RegAfter(in, F, r, c) /\ r \in Reg
      BY <1>3, <2>4, CalleeSavedAre DEF Step, FactsOver
    <3>2. r # v /\ r # t
      BY <1>5, <3>1 DEF Moves
    <3>3. <<r, c>> \in F2.reg /\ in2.op # "move"
      BY <1>1, <1>5, <1>6, <3>1, <3>2, CalleeSavedAre DEF RegAfter
    <3> QED BY <1>6, <1>12, <3>1, <3>2, <3>3 DEF RegAfter
  <2> QED BY <1>3, <2>1, <2>2, <2>3, <2>4 DEF Step
<1>14. Enough(g, h, in2, F2)
  <2>1. CASE IsInsert(in)
    <3>1. InsertedWell(f, in, F) /\ F.goes
      BY <2>1 DEF Enough
    <3>2. InsertedWell(h, in2, F2)
      BY <1>6, <1>11, <3>1 DEF InsertedWell, Moves
    <3> QED BY <1>1, <1>12, <2>1, <3>1, <3>2 DEF Enough
  <2>2. CASE ~IsInsert(in)
    <3>1. SourceWell(g, in, F) /\ F.goes
      BY <2>2 DEF Enough
    <3>2. ASSUME NEW k \in DOMAIN Origin(g, in2.id).uses PROVE OperandAt(g, in2, F2, k)
      <4>1. OperandAt(g, in, F, k)
        BY <1>6, <3>1 DEF SourceWell
      <4> DEFINE c == EnvOf(Origin(g, in.id).uses[k])
                 slot == Fresh(Fresh("param", in.id) \o "_", k)
      <4>2. OperandAt(g, in, F, k) <=>
              IF k \in DOMAIN in.uses THEN <<in.uses[k], c>> \in F.var ELSE <<slot, c>> \in F.mem
        BY DEF OperandAt
      <4>3. OperandAt(g, in2, F2, k) <=>
              IF k \in DOMAIN in.uses THEN <<in.uses[k], c>> \in F2.var ELSE <<slot, c>> \in F2.mem
        BY <1>6 DEF OperandAt
      <4> HIDE DEF c, slot
      <4> QED BY <1>1, <1>8, <4>1, <4>2, <4>3
    <3>3. in2.op \notin {"branch", "ret"}
      BY <1>5, <1>6, <3>1 DEF SourceWell
    <3>4. SourceWell(g, in2, F2)
      BY <1>6, <3>1, <3>2, <3>3 DEF SourceWell
    <3> QED BY <1>1, <1>12, <2>2, <3>1, <3>4 DEF Enough
  <2> QED BY <2>1, <2>2
<1>15. Step(g, st, M, G2)
  <2>1. ASSUME NEW u, NEW c, <<u, c>> \in G2.var PROVE VarAfter(g, st, M, u, c)
    <3>1. u # v /\ <<u, c>> \in G.var /\ u \in f.locals
      BY <1>2, <2>1 DEF FactsOver
    <3>2. u # None /\ <<u, c>> \in M.var
      BY <1>3, <1>5, <3>1
    <3> QED BY <1>6, <1>12, <3>2 DEF VarAfter, Changes
  <2>2. ASSUME NEW s, NEW c, <<s, c>> \in G2.mem PROVE MemAfter(g, st, M, s, c)
    <3>1. Addresses(st, M, v)
      BY <1>5, <1>6 DEF Addresses
    <3>2. Last(st.uses) = t
      BY <1>6 DEF Last
    <3>3. IF s = v THEN <<t, c>> \in M.var ELSE <<s, c>> \in M.mem
      <4>1. <<v, c>> \notin G.mem
        BY <1>5 DEF FactsOver, StackObject
      <4> QED BY <1>2, <1>3, <2>2, <4>1
    <3> QED BY <1>6, <1>12, <3>1, <3>2, <3>3 DEF MemAfter
  <2>3. ASSUME NEW r, NEW c, <<r, c>> \in G2.reg PROVE RegAfter(st, M, r, c)
    <3>1. <<r, c>> \in M.reg /\ r \in Reg
      BY <1>2, <1>3, <2>3, CalleeSavedAre DEF FactsOver
    <3> QED BY <1>5, <1>6, <1>12, <3>1 DEF RegAfter, Moves
  <2> QED BY <1>6, <2>1, <2>2, <2>3 DEF Step
<1>16. Enough(g, h, st, M)
  <2>1. Addresses(st, M, v) /\ v # None /\ StackObject(h, v)
    BY <1>5, <1>6 DEF Addresses, Moves
  <2>2. InsertedWell(h, st, M)
    BY <1>6, <2>1 DEF InsertedWell
  <2> QED BY <1>3, <1>12, <2>2 DEF Enough
<1>17. Leads(g, h, <<in2>>, F2, M) /\ Leads(g, h, <<st>>, M, G2)
  BY <1>4, <1>10, <1>13, <1>14, <1>15, <1>16, LeadsOne
<1>18. Leads(g, h, <<in2, st>>, F2, G2)
  BY <1>17, TwoPieces
<1> QED BY <1>18 DEF F2, G2

\* The instruction that uses v uses a new variable, which was loaded before.
LEMMA SpillUseLeads ==
  ASSUME NEW g, NEW f, NEW h, NEW v, Moves(f, h, v), 
         NEW F, NEW G, FactsOver(f, F), FactsOver(f, G),
         NEW in, InstructionOver(in, f.locals), in.def # v, v \in ToSet(in.uses),
         Step(g, in, F, G), Enough(g, f, in, F),
         NEW t \in h.locals, t \notin f.locals, t # None,
         NEW new, new \in Seq(h.locals), Len(new) = Len(in.uses),
         \A k \in 1..Len(in.uses) : new[k] = IF in.uses[k] = v THEN t ELSE in.uses[k],
         NEW in2, in2 = Instr(in.id, in.op, in.def, new, in.mem), NEW ld, ld = Load(t, v)
  PROVE  Leads(g, h, <<ld, in2>>, Spilled(F, v), Spilled(G, v))
<1> DEFINE F2 == Spilled(F, v)
           G2 == Spilled(G, v)
           M == Facts({x \in F.var : x[1] # v} \cup {<<t, x[2]>> : x \in {y \in F.var : y = <<v, y[2]>>}},
                      F2.mem, F.reg, TRUE)
<1>1. /\ \A u, c : <<u, c>> \in F2.var <=> u # v /\ <<u, c>> \in F.var
      /\ \A s, c : <<s, c>> \in F2.mem <=> <<s, c>> \in F.mem \/ (s = v /\ <<v, c>> \in F.var)
      /\ F2.reg = F.reg /\ F2.goes = F.goes
  BY SpilledFacts
<1>2. /\ \A u, c : <<u, c>> \in G2.var <=> u # v /\ <<u, c>> \in G.var
      /\ \A s, c : <<s, c>> \in G2.mem <=> <<s, c>> \in G.mem \/ (s = v /\ <<v, c>> \in G.var)
      /\ G2.reg = G.reg /\ G2.goes = G.goes
  BY SpilledFacts
<1>3. /\ \A u, c : <<u, c>> \in M.var <=> \/ u # v /\ <<u, c>> \in F.var
                                          \/ u = t /\ <<v, c>> \in F.var
      /\ M.mem = F2.mem /\ M.reg = F.reg /\ M.goes = TRUE
  BY DEF Facts
<1>4. FactsOver(h, F2) /\ FactsOver(h, G2)
  BY SpilledOver
<1> HIDE DEF F2, G2, M
<1>5. v \in f.locals /\ v \notin Reg /\ None \notin f.locals /\ t # v
  BY DEF Moves
<1>6. /\ in2.id = in.id /\ in2.op = in.op /\ in2.def = in.def /\ in2.uses = new /\ in2.mem = in.mem
      /\ ld.id = 0 /\ ld.op = "load" /\ ld.def = t /\ ld.uses = <<>> /\ ld.mem = v
  BY DEF Instr, Load
<1>7. in.uses \in Seq(f.locals) /\ DOMAIN in.uses = 1..Len(in.uses) /\ Len(in.uses) \in Nat
      /\ DOMAIN new = DOMAIN in.uses
  BY DEF InstructionOver
<1>8. ASSUME NEW k \in DOMAIN in.uses, NEW c, <<in.uses[k], c>> \in F.var
      PROVE  <<new[k], c>> \in M.var
  BY <1>3, <1>7, <1>8
<1>9. /\ in.uses # <<>> /\ new # <<>> /\ 1 \in DOMAIN in.uses /\ Len(in.uses) \in DOMAIN in.uses
      /\ Last(in.uses) = in.uses[Len(in.uses)] /\ Last(new) = new[Len(in.uses)]
  <2>1. in.uses # <<>>
    BY DEF ToSet
  <2>2. Len(in.uses) # 0
    BY <1>7, <2>1
  <2> QED BY <1>7, <2>1, <2>2 DEF Last
<1>10. FactsOver(h, M)
  <2>1. \A u, c : <<u, c>> \in M.var => u \in h.locals
    BY <1>3 DEF FactsOver, Moves
  <2>2. \A x, s : <<x, AddressOf(s)>> \in M.var => StackObject(h, s)
    BY <1>3 DEF FactsOver, Moves
  <2> QED BY <1>3, <1>4, <2>1, <2>2 DEF FactsOver
<1>11. \A s : Addresses(in, F, s) => Addresses(in2, M, s)
  BY <1>6, <1>7, <1>8, <1>9 DEF Addresses
<1>12. \A s : Addresses(in, F, s) /\ IsInsert(in) => s # v
  <2>1. ~StackObject(f, v)
    BY <1>5 DEF StackObject
  <2> QED BY <2>1 DEF Addresses, FactsOver, Enough, InsertedWell
<1>13. IsInsert(in2) = IsInsert(in) /\ IsInsert(ld) /\ \A c : Changes(g, in2, c) <=> Changes(g, in, c)
  BY <1>6 DEF IsInsert, Changes
<1>14. Step(g, ld, F2, M)
  <2>1. ASSUME NEW u, NEW c, <<u, c>> \in M.var PROVE VarAfter(g, ld, F2, u, c)
    <3>1. CASE u = t
      <4>1. <<v, c>> \in F.var
        BY <1>3, <2>1, <3>1 DEF FactsOver
      <4>2. Addresses(ld, F2, v) /\ <<v, c>> \in F2.mem
        BY <1>1, <1>5, <1>6, <4>1 DEF Addresses
      <4> QED BY <1>6, <1>13, <3>1, <4>2 DEF VarAfter, Result
    <3>2. CASE u # t
      BY <1>1, <1>3, <1>6, <1>13, <2>1, <3>2 DEF VarAfter, Changes
    <3> QED BY <3>1, <3>2
  <2>2. ASSUME NEW s, NEW c, <<s, c>> \in M.mem PROVE MemAfter(g, ld, F2, s, c)
    BY <1>3, <1>6, <1>13, <2>2 DEF MemAfter, Changes
  <2>3. ASSUME NEW r, NEW c, <<r, c>> \in M.reg PROVE RegAfter(ld, F2, r, c)
    <3>1. <<r, c>> \in F2.reg /\ r \in Reg
      BY <1>1, <1>3, <2>3, CalleeSavedAre DEF FactsOver
    <3> QED BY <1>6, <1>13, <3>1 DEF RegAfter, Moves
  <2> QED BY <1>3, <1>6, <2>1, <2>2, <2>3 DEF Step
<1>15. Enough(g, h, ld, F2)
  <2>1. InsertedWell(h, ld, F2)
    BY <1>6 DEF InsertedWell, Moves
  <2> QED BY <1>1, <1>13, <2>1 DEF Enough
<1>16. Step(g, in2, M, G2)
  <2>1. ASSUME NEW u, NEW c, <<u, c>> \in G2.var PROVE VarAfter(g, in2, M, u, c)
    <3>1. u # v /\ VarAfter(g, in, F, u, c)
      BY <1>2, <2>1 DEF Step
    <3>2. CASE u = in.def
      <4>1. Result(g, in, F, c)
        BY <3>1, <3>2 DEF VarAfter
      <4>2. Result(g, in2, M, c)
        <5>1. CASE IsInsert(in)
          <6>1. CASE in.op = "move" /\ <<in.uses[1], c>> \in F.var
            <7>1. <<new[1], c>> \in M.var
              BY <1>8, <1>9, <6>1
            <7> QED BY <1>6, <1>13, <5>1, <6>1, <7>1 DEF Result
          <6>2. CASE in.op = "load" /\ \E s : Addresses(in, F, s) /\ <<s, c>> \in F.mem
            <7>1. \E s : Addresses(in2, M, s) /\ <<s, c>> \in M.mem
              BY <1>1, <1>3, <1>11, <6>2
            <7> QED BY <1>6, <1>13, <5>1, <6>2, <7>1 DEF Result
          <6>3. CASE in.op = "lea" /\ c = AddressOf(in.mem)
            BY <1>6, <1>13, <5>1, <6>3 DEF Result
          <6> QED BY <4>1, <5>1, <6>1, <6>2, <6>3 DEF Result
        <5>2. CASE ~IsInsert(in)
          BY <1>6, <1>13, <4>1, <5>2 DEF Result
        <5> QED BY <5>1, <5>2
      <4> QED BY <1>6, <3>2, <4>2 DEF VarAfter
    <3>3. CASE u # in.def
      BY <1>3, <1>6, <1>13, <3>1, <3>3 DEF VarAfter
    <3> QED BY <3>2, <3>3
  <2>2. ASSUME NEW s, NEW c, <<s, c>> \in G2.mem PROVE MemAfter(g, in2, M, s, c)
    <3>1. CASE s = v
      <4>1. <<v, c>> \in G.var
        BY <1>2, <1>5, <2>2, <3>1 DEF FactsOver, StackObject
      <4>2. <<v, c>> \in F.var /\ ~Changes(g, in, c)
        BY <4>1 DEF Step, VarAfter
      <4>3. <<v, c>> \in M.mem
        BY <1>1, <1>3, <4>2
      <4>4. CASE IsInsert(in) /\ in.op = "store"
        <5>1. PICK q : Addresses(in, F, q)
          BY <4>4 DEF Enough, InsertedWell
        <5>2. Addresses(in2, M, q) /\ q # v
          BY <1>11, <1>12, <4>4, <5>1
        <5> QED BY <1>6, <1>13, <3>1, <4>3, <4>4, <5>2 DEF MemAfter
      <4>5. CASE ~(IsInsert(in) /\ in.op = "store")
        BY <1>6, <1>13, <3>1, <4>2, <4>3, <4>5 DEF MemAfter
      <4> QED BY <4>4, <4>5
    <3>2. CASE s # v
      <4>1. MemAfter(g, in, F, s, c)
        BY <1>2, <2>2, <3>2 DEF Step
      <4>2. CASE IsInsert(in) /\ in.op = "store"
        <5>1. PICK q : /\ Addresses(in, F, q)
                       /\ IF s = q THEN <<Last(in.uses), c>> \in F.var ELSE <<s, c>> \in F.mem
          BY <4>1, <4>2 DEF MemAfter
        <5>2. /\ Addresses(in2, M, q)
              /\ IF s = q THEN <<Last(new), c>> \in M.var ELSE <<s, c>> \in M.mem
          BY <1>1, <1>3, <1>8, <1>9, <1>11, <5>1
        <5> QED BY <1>6, <1>13, <4>2, <5>2 DEF MemAfter
      <4>3. CASE ~(IsInsert(in) /\ in.op = "store")
        BY <1>1, <1>3, <1>6, <1>13, <4>1, <4>3 DEF MemAfter
      <4> QED BY <4>2, <4>3
    <3> QED BY <3>1, <3>2
  <2>3. ASSUME NEW r, NEW c, <<r, c>> \in G2.reg PROVE RegAfter(in2, M, r, c)
    <3>1. RegAfter(in, F, r, c)
      BY <1>2, <2>3 DEF Step
    <3>2. r = in.def => <<new[1], c>> \in M.var
      BY <1>8, <1>9, <3>1 DEF RegAfter
    <3> QED BY <1>3, <1>6, <1>13, <3>1, <3>2 DEF RegAfter
  <2> QED BY <1>2, <1>6, <2>1, <2>2, <2>3 DEF Step
<1>17. Enough(g, h, in2, M)
  <2>1. CASE IsInsert(in)
    <3>1. InsertedWell(f, in, F) /\ F.goes
      BY <2>1 DEF Enough
    <3>2. InsertedWell(h, in2, M)
      BY <1>6, <1>9, <1>11, <3>1 DEF InsertedWell, Moves
    <3> QED BY <1>3, <1>13, <2>1, <3>2 DEF Enough
  <2>2. CASE ~IsInsert(in)
    <3>1. SourceWell(g, in, F)
      BY <2>2 DEF Enough
    <3>2. ASSUME NEW k \in DOMAIN Origin(g, in2.id).uses PROVE OperandAt(g, in2, M, k)
      <4>1. OperandAt(g, in, F, k)
        BY <1>6, <3>1 DEF SourceWell
      <4> DEFINE c == EnvOf(Origin(g, in.id).uses[k])
                 slot == Fresh(Fresh("param", in.id) \o "_", k)
      <4>2. OperandAt(g, in, F, k) <=>
              IF k \in DOMAIN in.uses THEN <<in.uses[k], c>> \in F.var ELSE <<slot, c>> \in F.mem
        BY DEF OperandAt
      <4>3. OperandAt(g, in2, M, k) <=>
              IF k \in DOMAIN in.uses THEN <<new[k], c>> \in M.var ELSE <<slot, c>> \in M.mem
        BY <1>6, <1>7 DEF OperandAt
      <4> HIDE DEF c, slot
      <4> QED BY <1>1, <1>3, <1>8, <4>1, <4>2, <4>3
    <3>3. in2.op # "ret"
      BY <1>5, <1>6, <3>1 DEF SourceWell
    <3>4. SourceWell(g, in2, M)
      BY <1>6, <1>9, <3>1, <3>2, <3>3 DEF SourceWell
    <3> QED BY <1>3, <1>13, <2>2, <3>4 DEF Enough
  <2> QED BY <2>1, <2>2
<1>18. Leads(g, h, <<ld>>, F2, M) /\ Leads(g, h, <<in2>>, M, G2)
  BY <1>4, <1>10, <1>14, <1>15, <1>16, <1>17, LeadsOne
<1>19. Leads(g, h, <<ld, in2>>, F2, G2)
  BY <1>18, TwoPieces
<1> QED BY <1>19 DEF F2, G2

\* The other instructions stay as they are.
LEMMA SpillOtherLeads ==
  ASSUME NEW g, NEW f, NEW h, NEW v, Moves(f, h, v), 
         NEW F, NEW G, FactsOver(f, F), FactsOver(f, G),
         NEW in, InstructionOver(in, f.locals), in.def # v, v \notin ToSet(in.uses),
         Step(g, in, F, G), Enough(g, f, in, F)
  PROVE  Leads(g, h, <<in>>, Spilled(F, v), Spilled(G, v))
<1> DEFINE F2 == Spilled(F, v)
           G2 == Spilled(G, v)
<1>1. /\ \A u, c : <<u, c>> \in F2.var <=> u # v /\ <<u, c>> \in F.var
      /\ \A s, c : <<s, c>> \in F2.mem <=> <<s, c>> \in F.mem \/ (s = v /\ <<v, c>> \in F.var)
      /\ F2.reg = F.reg /\ F2.goes = F.goes
  BY SpilledFacts
<1>2. /\ \A u, c : <<u, c>> \in G2.var <=> u # v /\ <<u, c>> \in G.var
      /\ \A s, c : <<s, c>> \in G2.mem <=> <<s, c>> \in G.mem \/ (s = v /\ <<v, c>> \in G.var)
      /\ G2.reg = G.reg /\ G2.goes = G.goes
  BY SpilledFacts
<1>3. FactsOver(h, F2) /\ FactsOver(h, G2)
  BY SpilledOver
<1> HIDE DEF F2, G2
<1>4. v \in f.locals /\ v \notin Reg /\ None \notin f.locals
  BY DEF Moves
<1>5. in.uses \in Seq(f.locals) /\ DOMAIN in.uses = 1..Len(in.uses) /\ Len(in.uses) \in Nat
  BY DEF InstructionOver
<1>6. ASSUME NEW k \in DOMAIN in.uses, NEW c, <<in.uses[k], c>> \in F.var
      PROVE  <<in.uses[k], c>> \in F2.var
  BY <1>1, <1>6 DEF ToSet
<1>7. in.uses # <<>> => /\ Len(in.uses) \in DOMAIN in.uses /\ Last(in.uses) = in.uses[Len(in.uses)]
  BY <1>5 DEF Last
<1>8. Len(in.uses) = 1 => 1 \in DOMAIN in.uses
  BY <1>5
<1>9. \A s : Addresses(in, F, s) => Addresses(in, F2, s)
  BY <1>6 DEF Addresses
<1>10. \A s : Addresses(in, F, s) /\ IsInsert(in) => s # v
  <2>1. ~StackObject(f, v)
    BY <1>4 DEF StackObject
  <2> QED BY <2>1 DEF Addresses, FactsOver, Enough, InsertedWell
<1>11. Step(g, in, F2, G2)
  <2>1. ASSUME NEW u, NEW c, <<u, c>> \in G2.var PROVE VarAfter(g, in, F2, u, c)
    <3>1. u # v /\ VarAfter(g, in, F, u, c)
      BY <1>2, <2>1 DEF Step
    <3>2. CASE u = in.def
      <4>1. Result(g, in, F, c)
        BY <3>1, <3>2 DEF VarAfter
      <4>2. Result(g, in, F2, c)
        <5>1. CASE IsInsert(in)
          <6>1. CASE in.op = "move" /\ <<in.uses[1], c>> \in F.var
            <7>1. Len(in.uses) = 1
              BY <5>1, <6>1 DEF Enough, InsertedWell
            <7>2. <<in.uses[1], c>> \in F2.var
              BY <1>6, <1>8, <6>1, <7>1
            <7> QED BY <5>1, <6>1, <7>2 DEF Result
          <6>2. CASE in.op = "load" /\ \E s : Addresses(in, F, s) /\ <<s, c>> \in F.mem
            <7>1. \E s : Addresses(in, F2, s) /\ <<s, c>> \in F2.mem
              BY <1>1, <1>9, <6>2
            <7> QED BY <5>1, <6>2, <7>1 DEF Result
          <6>3. CASE in.op = "lea" /\ c = AddressOf(in.mem)
            BY <5>1, <6>3 DEF Result
          <6> QED BY <4>1, <5>1, <6>1, <6>2, <6>3 DEF Result
        <5>2. CASE ~IsInsert(in)
          BY <4>1, <5>2 DEF Result
        <5> QED BY <5>1, <5>2
      <4> QED BY <3>2, <4>2 DEF VarAfter
    <3>3. CASE u # in.def
      BY <1>1, <3>1, <3>3 DEF VarAfter
    <3> QED BY <3>2, <3>3
  <2>2. ASSUME NEW s, NEW c, <<s, c>> \in G2.mem PROVE MemAfter(g, in, F2, s, c)
    <3>1. CASE s = v
      <4>1. <<v, c>> \in G.var
        BY <1>2, <1>4, <2>2, <3>1 DEF FactsOver, StackObject
      <4>2. <<v, c>> \in F.var /\ ~Changes(g, in, c)
        BY <4>1 DEF Step, VarAfter
      <4>3. <<v, c>> \in F2.mem
        BY <1>1, <4>2
      <4>4. CASE IsInsert(in) /\ in.op = "store"
        <5>1. PICK q : Addresses(in, F, q)
          BY <4>4 DEF Enough, InsertedWell
        <5>2. Addresses(in, F2, q) /\ q # v
          BY <1>9, <1>10, <4>4, <5>1
        <5> QED BY <3>1, <4>3, <4>4, <5>2 DEF MemAfter
      <4>5. CASE ~(IsInsert(in) /\ in.op = "store")
        BY <3>1, <4>2, <4>3, <4>5 DEF MemAfter
      <4> QED BY <4>4, <4>5
    <3>2. CASE s # v
      <4>1. MemAfter(g, in, F, s, c)
        BY <1>2, <2>2, <3>2 DEF Step
      <4>2. CASE IsInsert(in) /\ in.op = "store"
        <5>1. PICK q : /\ Addresses(in, F, q)
                       /\ IF s = q THEN <<Last(in.uses), c>> \in F.var ELSE <<s, c>> \in F.mem
          BY <4>1, <4>2 DEF MemAfter
        <5>2. in.uses # <<>>
          BY <4>2 DEF Enough, InsertedWell
        <5>3. /\ Addresses(in, F2, q)
              /\ IF s = q THEN <<Last(in.uses), c>> \in F2.var ELSE <<s, c>> \in F2.mem
          BY <1>1, <1>6, <1>7, <1>9, <5>1, <5>2
        <5> QED BY <4>2, <5>3 DEF MemAfter
      <4>3. CASE ~(IsInsert(in) /\ in.op = "store")
        BY <1>1, <4>1, <4>3 DEF MemAfter
      <4> QED BY <4>2, <4>3
    <3> QED BY <3>1, <3>2
  <2>3. ASSUME NEW r, NEW c, <<r, c>> \in G2.reg PROVE RegAfter(in, F2, r, c)
    <3>1. RegAfter(in, F, r, c)
      BY <1>2, <2>3 DEF Step
    <3>2. CASE r = in.def
      <4>1. Len(in.uses) = 1 /\ <<in.uses[1], c>> \in F.var
        BY <3>1, <3>2 DEF RegAfter, Enough, InsertedWell
      <4>2. <<in.uses[1], c>> \in F2.var
        BY <1>6, <1>8, <4>1
      <4> QED BY <3>1, <3>2, <4>2 DEF RegAfter
    <3>3. CASE r # in.def
      BY <1>1, <3>1, <3>3 DEF RegAfter
    <3> QED BY <3>2, <3>3
  <2> QED BY <1>2, <2>1, <2>2, <2>3 DEF Step
<1>12. Enough(g, h, in, F2)
  <2>1. CASE IsInsert(in)
    <3>1. InsertedWell(f, in, F) /\ F.goes
      BY <2>1 DEF Enough
    <3>2. InsertedWell(h, in, F2)
      BY <1>9, <3>1 DEF InsertedWell, Moves
    <3> QED BY <1>1, <2>1, <3>1, <3>2 DEF Enough
  <2>2. CASE ~IsInsert(in)
    <3>1. SourceWell(g, in, F) /\ F.goes
      BY <2>2 DEF Enough
    <3>2. ASSUME NEW k \in DOMAIN Origin(g, in.id).uses PROVE OperandAt(g, in, F2, k)
      <4>1. OperandAt(g, in, F, k)
        BY <3>1 DEF SourceWell
      <4> DEFINE c == EnvOf(Origin(g, in.id).uses[k])
                 slot == Fresh(Fresh("param", in.id) \o "_", k)
      <4>2. \A A : OperandAt(g, in, A, k) <=>
              IF k \in DOMAIN in.uses THEN <<in.uses[k], c>> \in A.var ELSE <<slot, c>> \in A.mem
        BY DEF OperandAt
      <4> HIDE DEF c, slot
      <4> QED BY <1>1, <1>6, <4>1, <4>2
    <3>3. SourceWell(g, in, F2)
      BY <1>1, <3>1, <3>2 DEF SourceWell
    <3> QED BY <1>1, <2>2, <3>1, <3>3 DEF Enough
  <2> QED BY <2>1, <2>2
<1>13. Leads(g, h, <<in>>, F2, G2)
  BY <1>3, <1>11, <1>12, LeadsOne
<1> QED BY <1>13 DEF F2, G2

\* New variables take no stack object's name.
LEMMA StackObjectsStay ==
  ASSUME NEW f, Closed(f), NEW prefix \in NamePrefixes, NEW sites \in SUBSET Points(f), NEW piece,
         NEW to, to = Replaced(f, prefix, sites, piece),
         NEW h, h.locals \subseteq f.locals \cup to.new, h.uid = to.uid,
         NEW s, StackObject(f, s)
  PROVE  StackObject(h, s)
<1>1. /\ to.uid \in Nat /\ f.uid \in Nat /\ f.uid <= to.uid
      /\ \A x \in to.new : \E n \in Nat : f.uid <= n /\ x = Fresh(prefix, n)
  BY NamesNumbered
<1>2. s \notin to.new
  BY <1>1 DEF StackObject
<1> QED BY <1>1, <1>2 DEF StackObject

LEMMA SpillMoves ==
  ASSUME NEW f, Closed(f), NamesLeft(f), Reg \subseteq f.locals, NEW v \in f.locals, v \notin Reg
  PROVE  Moves(f, SpillCode(f, v), v)
<1> DEFINE h == SpillCode(f, v)
           to == SpillStores(f, v)
           sites == SpillSites(f, v)
           piece == [p \in Points(f) |-> SpillPiece(f, v, p)]
<1>1. to = Replaced(f, "spill_", sites, piece) /\ sites \in SUBSET Points(f) /\ "spill_" \in NamePrefixes
  BY DEF SpillStores, SpillSites, NamePrefixes
<1>2. h.locals = (f.locals \cup to.new) \ {v} /\ h.uid = to.uid
  BY DEF SpillCode, Function
<1> HIDE DEF h, to, sites, piece
<1>3. ASSUME NEW s, StackObject(f, s) PROVE StackObject(h, s)
  <2>1. h.locals \subseteq f.locals \cup to.new
    BY <1>2
  <2> QED BY <1>1, <1>2, <1>3, <2>1, StackObjectsStay
<1>4. /\ to.uid \in Nat /\ f.uid \in Nat /\ f.uid <= to.uid
  BY <1>1, NamesNumbered
<1>5. v # None /\ None \notin f.locals
  BY DEF Closed
<1>6. StackObject(h, v)
  BY <1>2, <1>4, <1>5 DEF StackObject, NamesLeft
<1>7. Moves(f, h, v)
  BY <1>2, <1>3, <1>5, <1>6 DEF Moves
<1> QED BY <1>7 DEF h

\* The pieces of Function::spill.
LEMMA SpillPieceIs ==
  ASSUME NEW f, NEW v, NEW p, NEW in, in = At(f, p),
         NEW t, t = Fresh("spill_", Number(f, SpillSites(f, v), p))
  PROVE  /\ in.def = v => SpillPiece(f, v, p) = <<[in EXCEPT !.def = t], Store(v, t)>>
         /\ in.def # v /\ v \in ToSet(in.uses) =>
              SpillPiece(f, v, p) = <<Load(t, v), [in EXCEPT !.uses = ReplaceAll(in.uses, v, t)]>>
         /\ in.def # v /\ v \notin ToSet(in.uses) => SpillPiece(f, v, p) = <<in>>
<1> DEFINE A == <<[in EXCEPT !.def = t], Store(v, t)>>
           B == <<Load(t, v), [in EXCEPT !.uses = ReplaceAll(@, v, t)]>>
<1>1. B = <<Load(t, v), [in EXCEPT !.uses = ReplaceAll(in.uses, v, t)]>>
  OBVIOUS
<1>2. SpillPiece(f, v, p) =
        CASE in.def = v -> A
          [] in.def # v /\ v \in ToSet(in.uses) -> B
          [] OTHER -> <<in>>
  BY DEF SpillPiece
<1> HIDE DEF A, B
<1> QED BY <1>1, <1>2 DEF A

LEMMA SpillPieceLeads ==
  ASSUME NEW g, NEW f, Closed(f), NamesLeft(f), Reg \subseteq f.locals,
         NEW v \in f.locals, v \notin Reg, NEW h, h = SpillCode(f, v),
         NEW p \in Points(f), NEW F, NEW G, FactsOver(f, F), FactsOver(f, G),
         Step(g, At(f, p), F, G), Enough(g, f, At(f, p), F)
  PROVE  Leads(g, h, SpillPiece(f, v, p), Spilled(F, v), Spilled(G, v))
<1> DEFINE in == At(f, p)
           sites == SpillSites(f, v)
           t == Fresh("spill_", Number(f, sites, p))
           new == ReplaceAll(in.uses, v, t)
           piece == [q \in Points(f) |-> SpillPiece(f, v, q)]
<1>1. InstructionOver(in, f.locals)
  BY DEF Closed, Instructions
<1>2. Moves(f, h, v)
  BY SpillMoves
<1>3. /\ in.def = v => SpillPiece(f, v, p) = <<[in EXCEPT !.def = t], Store(v, t)>>
      /\ in.def # v /\ v \in ToSet(in.uses) =>
           SpillPiece(f, v, p) = <<Load(t, v), [in EXCEPT !.uses = new]>>
      /\ in.def # v /\ v \notin ToSet(in.uses) => SpillPiece(f, v, p) = <<in>>
  BY SpillPieceIs
<1>4. ASSUME in.def = v \/ v \in ToSet(in.uses)
      PROVE  t \in h.locals /\ t \notin f.locals /\ t # None
  <2>1. "spill_" \in NamePrefixes /\ p \in sites /\ sites \in SUBSET Points(f)
    BY <1>4 DEF NamePrefixes, SpillSites
  <2>2. h.locals = (f.locals \cup Replaced(f, "spill_", sites, piece).new) \ {v}
    BY DEF SpillCode, SpillStores, Function
  <2> HIDE DEF sites, piece
  <2>3. t \in Replaced(f, "spill_", sites, piece).new /\ t \notin f.locals /\ t # None
    BY <2>1, NewName
  <2> QED BY <2>2, <2>3
<1>5. in = Instr(in.id, in.op, in.def, in.uses, in.mem)
  BY <1>1 DEF InstructionOver
<1> HIDE DEF in, t, sites, piece
<1>6. CASE in.def = v
  <2> DEFINE in2 == [in EXCEPT !.def = t]
             st == Store(v, t)
  <2>1. in2 = Instr(in.id, in.op, t, in.uses, in.mem)
    BY <1>5, InstructionFields
  <2>2. SpillPiece(f, v, p) = <<in2, st>>
    BY <1>3, <1>6
  <2>3. st = Store(v, t)
    OBVIOUS
  <2> HIDE DEF in2, st
  <2>4. t \in h.locals /\ t \notin f.locals /\ t # None
    BY <1>4, <1>6
  <2>5. Step(g, in, F, G) /\ Enough(g, f, in, F)
    BY DEF in
  <2>6. Leads(g, h, <<in2, st>>, Spilled(F, v), Spilled(G, v))
    BY <1>1, <1>2, <1>6, <2>1, <2>3, <2>4, <2>5, SpillDefLeads
  <2> QED BY <2>2, <2>6
<1>7. CASE in.def # v /\ v \in ToSet(in.uses)
  <2> DEFINE in2 == [in EXCEPT !.uses = new]
             ld == Load(t, v)
  <2>1. in2 = Instr(in.id, in.op, in.def, new, in.mem)
    BY <1>5, InstructionFields
  <2>2. SpillPiece(f, v, p) = <<ld, in2>>
    BY <1>3, <1>7
  <2>3. ld = Load(t, v)
    OBVIOUS
  <2> HIDE DEF in2, ld
  <2>4. t \in h.locals /\ t \notin f.locals /\ t # None
    BY <1>4, <1>7
  <2>5. Step(g, in, F, G) /\ Enough(g, f, in, F)
    BY DEF in
  <2>6. /\ new \in Seq(h.locals) /\ Len(new) = Len(in.uses)
        /\ \A k \in 1..Len(in.uses) : new[k] = IF in.uses[k] = v THEN t ELSE in.uses[k]
    <3>1. in.uses \in Seq(f.locals) /\ Len(in.uses) \in Nat /\ \A k \in 1..Len(in.uses) : in.uses[k] \in f.locals
      BY <1>1 DEF InstructionOver
    <3>2. new = [i \in 1..Len(in.uses) |-> IF in.uses[i] = v THEN t ELSE in.uses[i]]
      BY DEF ReplaceAll
    <3> HIDE DEF new
    <3>3. new \in [1..Len(in.uses) -> h.locals]
      BY <1>2, <2>4, <3>1, <3>2 DEF Moves
    <3>4. new \in Seq(h.locals)
      BY <3>1, <3>3, SeqIs
    <3>5. Len(new) = Len(in.uses)
      BY <3>1, <3>3, <3>4, LenProperties
    <3> QED BY <3>2, <3>4, <3>5
  <2> HIDE DEF new
  <2>7. Leads(g, h, <<ld, in2>>, Spilled(F, v), Spilled(G, v))
    BY <1>1, <1>2, <1>7, <2>1, <2>3, <2>4, <2>5, <2>6, SpillUseLeads
  <2> QED BY <2>2, <2>7
<1>8. CASE in.def # v /\ v \notin ToSet(in.uses)
  <2>1. Step(g, in, F, G) /\ Enough(g, f, in, F)
    BY DEF in
  <2>2. Leads(g, h, <<in>>, Spilled(F, v), Spilled(G, v))
    BY <1>1, <1>2, <1>8, <2>1, SpillOtherLeads
  <2> QED BY <1>3, <1>8, <2>2
<1> QED BY <1>6, <1>7, <1>8

-----------------------------------------------------------------------------
(* So does computing far addresses apart. *)

\* h is f with more variables.
Extends(f, h) ==
  /\ None \notin f.locals /\ Reg \subseteq f.locals /\ f.locals \subseteq h.locals
  /\ \A s : StackObject(f, s) => StackObject(h, s)

LEMMA ExtendedOver ==
  ASSUME NEW f, NEW h, Extends(f, h), NEW F, FactsOver(f, F)
  PROVE  FactsOver(h, F)
BY DEF Extends, FactsOver

\* The sequence u has t in front of s.
StartsWith(u, t, s) ==
  /\ 1 \in DOMAIN u /\ u[1] = t /\ u # <<>>
  /\ s # <<>> => Last(u) = Last(s)

LEMMA InFront ==
  ASSUME NEW S, NEW t \in S, NEW s \in Seq(S), NEW u, u = <<t>> \o s
  PROVE  StartsWith(u, t, s)
<1> DEFINE one == <<t>>
<1>1. one \in Seq(S) /\ Len(one) = 1 /\ one[1] = t
  OBVIOUS
<1>2. u = one \o s
  OBVIOUS
<1> HIDE DEF one
<1>3. u \in Seq(S) /\ Len(u) = 1 + Len(s) /\ Len(s) \in Nat
  BY <1>1, <1>2, ConcatProperties
<1>4. u[1] = t
  BY <1>1, <1>2, ConcatProperties
<1>5. \A i \in 2..(1 + Len(s)) : u[i] = s[i - 1]
  BY <1>1, <1>2, <1>3, ConcatProperties
<1>6. 1 \in DOMAIN u /\ u # <<>>
  BY <1>3
<1>7. ASSUME s # <<>> PROVE u[1 + Len(s)] = s[Len(s)]
  <2>1. Len(s) # 0
    BY <1>7
  <2>2. 1 + Len(s) \in 2..(1 + Len(s)) /\ (1 + Len(s)) - 1 = Len(s)
    BY <1>3, <2>1
  <2> QED BY <1>5, <2>2
<1> QED BY <1>3, <1>4, <1>6, <1>7 DEF Last, StartsWith

\* The instruction that addresses a far object uses a new variable for the address.
LEMMA FarLeads ==
  ASSUME NEW g, NEW f, NEW h, Extends(f, h),
         NEW F, NEW G, FactsOver(f, F), FactsOver(f, G),
         NEW in, InstructionOver(in, f.locals), IsInsert(in), in.op \in {"load", "store"},
         in.mem # None,
         Step(g, in, F, G), Enough(g, f, in, F),
         NEW t \in h.locals, t \notin f.locals, t # None,
         NEW uses, uses = <<t>> \o in.uses,
         NEW in2, in2 = Instr(in.id, in.op, in.def, uses, None),
         NEW lea, lea = LoadAddress(t, in.mem)
  PROVE  Leads(g, h, <<lea, in2>>, F, G)
<1> DEFINE M == Facts(F.var \cup {<<t, AddressOf(in.mem)>>}, F.mem, F.reg, TRUE)
<1>1. /\ \A u, c : <<u, c>> \in M.var <=> \/ <<u, c>> \in F.var
                                          \/ u = t /\ c = AddressOf(in.mem)
      /\ M.mem = F.mem /\ M.reg = F.reg /\ M.goes = TRUE
  BY DEF Facts
<1> HIDE DEF M
<1>2. /\ in2.id = in.id /\ in2.op = in.op /\ in2.def = in.def /\ in2.uses = uses /\ in2.mem = None
      /\ lea.id = 0 /\ lea.op = "lea" /\ lea.def = t /\ lea.mem = in.mem
  BY DEF Instr, LoadAddress
<1>3. in.uses \in Seq(f.locals) /\ Len(in.uses) \in Nat
  BY DEF InstructionOver
<1>4. /\ 1 \in DOMAIN uses /\ uses[1] = t /\ uses # <<>>
      /\ in.uses # <<>> => Last(uses) = Last(in.uses)
  <2>1. in.uses \in Seq(h.locals)
    BY <1>3, SeqMonotonic DEF Extends
  <2>2. StartsWith(uses, t, in.uses)
    BY <2>1, InFront
  <2> QED BY <2>2 DEF StartsWith
<1>5. IsInsert(in2) /\ IsInsert(lea)
  BY <1>2 DEF IsInsert
<1>6. StackObject(f, in.mem) /\ StackObject(h, in.mem) /\ F.goes
  BY DEF Enough, InsertedWell, Extends
<1>7. FactsOver(h, F) /\ FactsOver(h, G)
  BY ExtendedOver
<1>8. FactsOver(h, M)
  <2>1. \A s : AddressOf(s) = AddressOf(in.mem) => s = in.mem
    BY DEF AddressOf, Value
  <2> QED BY <1>1, <1>6, <1>7, <2>1 DEF FactsOver
<1>9. \A s : Addresses(in, F, s) <=> s = in.mem
  BY DEF Addresses
<1>10. Addresses(in2, M, in.mem)
  BY <1>1, <1>2, <1>4 DEF Addresses
<1>11. Step(g, lea, F, M)
  <2>1. ASSUME NEW u, NEW c, <<u, c>> \in M.var PROVE VarAfter(g, lea, F, u, c)
    <3>1. CASE u = t
      <4>1. c = AddressOf(in.mem)
        BY <1>1, <2>1, <3>1 DEF FactsOver
      <4> QED BY <1>2, <1>5, <3>1, <4>1 DEF VarAfter, Result
    <3>2. CASE u # t
      BY <1>1, <1>2, <1>5, <2>1, <3>2 DEF VarAfter, Changes
    <3> QED BY <3>1, <3>2
  <2>2. ASSUME NEW s, NEW c, <<s, c>> \in M.mem PROVE MemAfter(g, lea, F, s, c)
    BY <1>1, <1>2, <1>5, <2>2 DEF MemAfter, Changes
  <2>3. ASSUME NEW r, NEW c, <<r, c>> \in M.reg PROVE RegAfter(lea, F, r, c)
    <3>1. <<r, c>> \in F.reg /\ r \in Reg
      BY <1>1, <2>3, CalleeSavedAre DEF FactsOver
    <3> QED BY <1>2, <1>5, <3>1 DEF RegAfter, Extends
  <2> QED BY <1>1, <1>2, <2>1, <2>2, <2>3 DEF Step
<1>12. Enough(g, h, lea, F)
  <2>1. InsertedWell(h, lea, F)
    BY <1>2, <1>6 DEF InsertedWell
  <2> QED BY <1>5, <1>6, <2>1 DEF Enough
<1>13. Step(g, in2, M, G)
  <2>1. ASSUME NEW u, NEW c, <<u, c>> \in G.var PROVE VarAfter(g, in2, M, u, c)
    <3>1. VarAfter(g, in, F, u, c)
      BY <2>1 DEF Step
    <3>2. CASE u = in.def
      <4>1. Result(g, in, F, c)
        BY <3>1, <3>2 DEF VarAfter
      <4>2. in.op = "load" /\ <<in.mem, c>> \in F.mem
        BY <1>9, <4>1 DEF Result
      <4>3. Result(g, in2, M, c)
        BY <1>1, <1>2, <1>5, <1>10, <4>2 DEF Result
      <4> QED BY <1>2, <3>2, <4>3 DEF VarAfter
    <3>3. CASE u # in.def
      BY <1>1, <1>2, <1>5, <3>1, <3>3 DEF VarAfter, Changes
    <3> QED BY <3>2, <3>3
  <2>2. ASSUME NEW s, NEW c, <<s, c>> \in G.mem PROVE MemAfter(g, in2, M, s, c)
    <3>1. MemAfter(g, in, F, s, c)
      BY <2>2 DEF Step
    <3>2. CASE in.op = "store"
      <4>1. IF s = in.mem THEN <<Last(in.uses), c>> \in F.var ELSE <<s, c>> \in F.mem
        BY <1>9, <3>1, <3>2 DEF MemAfter
      <4>2. in.uses # <<>>
        BY <3>2 DEF Enough, InsertedWell
      <4>3. Last(in2.uses) = Last(in.uses) /\ M.mem = F.mem
        BY <1>1, <1>2, <1>4, <4>2
      <4>4. IF s = in.mem THEN <<Last(in2.uses), c>> \in M.var ELSE <<s, c>> \in M.mem
        BY <1>1, <4>1, <4>3
      <4> QED BY <1>2, <1>5, <1>10, <3>2, <4>4 DEF MemAfter
    <3>3. CASE in.op # "store"
      BY <1>1, <1>2, <1>5, <3>1, <3>3 DEF MemAfter, Changes
    <3> QED BY <3>2, <3>3
  <2>3. ASSUME NEW r, NEW c, <<r, c>> \in G.reg PROVE RegAfter(in2, M, r, c)
    <3>1. RegAfter(in, F, r, c)
      BY <2>3 DEF Step
    <3> QED BY <1>1, <1>2, <1>5, <3>1 DEF RegAfter
  <2> QED BY <1>2, <2>1, <2>2, <2>3 DEF Step
<1>14. Enough(g, h, in2, M)
  <2>1. InsertedWell(f, in, F)
    BY DEF Enough
  <2>2. InsertedWell(h, in2, M)
    BY <1>2, <1>4, <1>10, <2>1 DEF InsertedWell
  <2> QED BY <1>1, <1>5, <2>2 DEF Enough
<1>15. Leads(g, h, <<lea>>, F, M) /\ Leads(g, h, <<in2>>, M, G)
  BY <1>7, <1>8, <1>11, <1>12, <1>13, <1>14, LeadsOne
<1> QED BY <1>15, TwoPieces

\* The frame's names are names.
FrameNames(f) == f.frame \in Seq(ToSet(f.frame)) /\ None \notin ToSet(f.frame)

LEMMA AddressPieceLeads ==
  ASSUME NEW g, NEW f, Closed(f), NamesLeft(f), Reg \subseteq f.locals, FrameNames(f),
         NEW h, h = RewriteLargeOffset(f),
         NEW p \in Points(f), NEW F, NEW G, FactsOver(f, F), FactsOver(f, G),
         Step(g, At(f, p), F, G), Enough(g, f, At(f, p), F)
  PROVE  Leads(g, h, AddressPiece(f, p), F, G)
<1> DEFINE in == At(f, p)
           sites == FarSites(f)
           t == Fresh("addr", Number(f, sites, p))
           uses == <<t>> \o in.uses
           in2 == Instr(in.id, in.op, in.def, uses, None)
           lea == LoadAddress(t, in.mem)
           piece == [q \in Points(f) |-> AddressPiece(f, q)]
           to == Addressed(f)
<1>1. InstructionOver(in, f.locals)
  BY DEF Closed, Instructions
<1>2. /\ to = Replaced(f, "addr", sites, piece) /\ sites \in SUBSET Points(f) /\ "addr" \in NamePrefixes
      /\ h.locals = f.locals \cup to.new /\ h.uid = to.uid
  BY DEF RewriteLargeOffset, Addressed, Function, FarSites, NamePrefixes
<1>3. AddressPiece(f, p) = IF p \in sites THEN <<lea, in2>> ELSE <<in>>
  BY DEF AddressPiece
<1>4. p \in sites <=> in.op \in {"load", "store"} /\ Far(f, in.mem)
  BY DEF FarSites
<1>5. uses = <<t>> \o in.uses /\ in2 = Instr(in.id, in.op, in.def, uses, None) /\ lea = LoadAddress(t, in.mem)
  OBVIOUS
<1>6. Step(g, in, F, G) /\ Enough(g, f, in, F)
  OBVIOUS
<1>7. p \in sites => t \in to.new /\ t \notin f.locals /\ t # None
  <2> HIDE DEF sites, piece, to
  <2> QED BY <1>2, NewName
<1> HIDE DEF in, sites, t, uses, in2, lea, piece, to
<1>8. Extends(f, h)
  <2>1. ASSUME NEW s, StackObject(f, s) PROVE StackObject(h, s)
    BY <1>2, <2>1, StackObjectsStay
  <2> QED BY <1>2, <2>1 DEF Extends, Closed
<1>9. CASE p \in sites
  <2>1. in.mem # None
    BY <1>4, <1>9 DEF Far, FrameNames, ToSet
  <2>2. IsInsert(in)
    BY <1>4, <1>6, <1>9 DEF Enough, SourceWell
  <2>3. t \in h.locals /\ t \notin f.locals /\ t # None
    BY <1>2, <1>7, <1>9
  <2>4. in.op \in {"load", "store"}
    BY <1>4, <1>9
  <2>5. Leads(g, h, <<lea, in2>>, F, G)
    BY <1>1, <1>5, <1>6, <1>8, <2>1, <2>2, <2>3, <2>4, FarLeads
  <2> QED BY <1>3, <1>9, <2>5
<1>10. CASE p \notin sites
  <2>1. FactsOver(h, F) /\ FactsOver(h, G)
    BY <1>8, ExtendedOver
  <2>2. Enough(g, h, in, F)
    BY <1>6, <1>8 DEF Enough, InsertedWell, Extends
  <2>3. Leads(g, h, <<in>>, F, G)
    BY <1>6, <2>1, <2>2, LeadsOne
  <2> QED BY <1>3, <1>10, <2>3
<1> QED BY <1>9, <1>10

-----------------------------------------------------------------------------
(* The certificate of a function. *)

\* F tells all that G tells.
Weaker(G, F) == G.var \subseteq F.var /\ G.mem \subseteq F.mem /\ G.reg \subseteq F.reg

\* What is known when the function is entered: the arguments are where the convention
\* puts them, and the callee-saved registers are the caller's.
Arrival(g) ==
  Facts({<<ArgRegs[j], EnvOf(g.params[j])>> : j \in {k \in DOMAIN g.params : k <= Len(ArgRegs)}}
          \cup {<<r, CallerOf(r)>> : r \in ToSet(CalleeSaved)},
        {<<MemOf(g.params[j]), EnvOf(g.params[j])>> : j \in {k \in DOMAIN g.params : k > Len(ArgRegs)}},
        {}, TRUE)

\* P[b] is known before the block b of f, Q[b] after it.
Certificate(g, f, P, Q) ==
  /\ \A b \in DOMAIN f.code : Leads(g, f, f.code[b], P[b], Q[b])
  /\ \A b \in DOMAIN f.code : \A s \in f.succ[b] : Weaker(P[s], Q[b])
  /\ Weaker(P[1], Arrival(g))
  /\ \A b \in DOMAIN f.code \cup {1} : P[b].reg = {}

Certified(g, f) == \E P, Q : Certificate(g, f, P, Q)

\* What is known once the function was rewritten, v being the variable spilled, if any.
Turned(F, v, spilt) == IF spilt THEN Spilled(F, v) ELSE F

\* The pieces put in place of a block's instructions lead as far as the block.
LEMMA ReplacedLeads ==
  ASSUME NEW g, NEW f, HasBlocks(f), NEW h, NEW v, NEW spilt,
         NEW prefix, NEW sites, NEW piece, h.code = Replaced(f, prefix, sites, piece).code,
         \A p \in Points(f) : piece[p] \in Seq(ToSet(piece[p])),
         \A F : FactsOver(f, F) => FactsOver(h, Turned(F, v, spilt)),
         \A p \in Points(f) : \A F, G :
           /\ FactsOver(f, F) /\ FactsOver(f, G)
           /\ Step(g, At(f, p), F, G) /\ Enough(g, f, At(f, p), F)
           => Leads(g, h, piece[p], Turned(F, v, spilt), Turned(G, v, spilt)),
         NEW b \in DOMAIN f.code, NEW F, NEW G, Leads(g, f, f.code[b], F, G)
  PROVE  Leads(g, h, h.code[b], Turned(F, v, spilt), Turned(G, v, spilt))
<1> DEFINE n == Len(f.code[b])
           S == UNION {ToSet(piece[p]) : p \in Points(f)}
           s == [i \in DOMAIN f.code[b] |-> piece[<<b, i>>]]
<1>1. f.code \in Seq(Seq(Instructions(f)))
  BY DEF HasBlocks
<1>2. /\ f.code[b] \in Seq(Instructions(f)) /\ n \in Nat /\ DOMAIN f.code[b] = 1..n
      /\ \A i \in 1..n : <<b, i>> \in Points(f) /\ At(f, <<b, i>>) = f.code[b][i]
  <2>1. f.code[b] \in Seq(Instructions(f))
    BY <1>1
  <2>2. n \in Nat /\ DOMAIN f.code[b] = 1..n
    BY <2>1
  <2>3. \A i \in DOMAIN f.code[b] : <<b, i>> \in Points(f) /\ At(f, <<b, i>>) = f.code[b][i]
    BY <1>1, PointsAre
  <2> QED BY <2>1, <2>2, <2>3
<1>3. h.code[b] = FlattenSeq(s)
  BY DEF Replaced
<1>4. \A p \in Points(f) : piece[p] \in Seq(S)
  <2>1. \A p \in Points(f) : ToSet(piece[p]) \subseteq S
    OBVIOUS
  <2> HIDE DEF S
  <2> QED BY <2>1, SeqMonotonic
<1>5. PICK H : Flow(g, f, f.code[b], H) /\ H[0] = F /\ H[Len(f.code[b])] = G
  BY DEF Leads
<1> DEFINE T == [i \in 0..n |-> Turned(H[i], v, spilt)]
<1>6. s \in [1..n -> Seq(S)] /\ \A i \in 1..n : s[i] = piece[<<b, i>>]
  <2> HIDE DEF S, n
  <2> QED BY <1>2, <1>4
<1>7. T[0] = Turned(F, v, spilt) /\ T[n] = Turned(G, v, spilt)
  BY <1>2, <1>5
<1>8. FactsOver(h, T[0])
  BY <1>2, <1>5, <1>7 DEF Flow
<1>9. ASSUME NEW i \in 1..n PROVE Leads(g, h, s[i], T[i - 1], T[i])
  <2>1. i - 1 \in 0..n /\ i \in 0..n
    BY <1>2
  <2>2. T[i - 1] = Turned(H[i - 1], v, spilt) /\ T[i] = Turned(H[i], v, spilt)
    BY <2>1
  <2>3. /\ FactsOver(f, H[i - 1]) /\ FactsOver(f, H[i])
        /\ Step(g, f.code[b][i], H[i - 1], H[i]) /\ Enough(g, f, f.code[b][i], H[i - 1])
    BY <1>5, <2>1 DEF Flow
  <2>4. <<b, i>> \in Points(f) /\ At(f, <<b, i>>) = f.code[b][i] /\ s[i] = piece[<<b, i>>]
    BY <1>2, <1>6
  <2>5. PICK p \in Points(f) : At(f, p) = f.code[b][i] /\ s[i] = piece[p]
    BY <2>4
  <2> HIDE DEF T, s, n, S
  <2>6. Leads(g, h, piece[p], Turned(H[i - 1], v, spilt), Turned(H[i], v, spilt))
    BY <2>3, <2>5
  <2> QED BY <2>2, <2>5, <2>6
<1> HIDE DEF T, s, n, S
<1>10. Leads(g, h, FlattenSeq(s), T[0], T[n])
  BY <1>2, <1>6, <1>8, <1>9, LeadsAll
<1> QED BY <1>3, <1>7, <1>10

LEMMA WeakerTurned ==
  ASSUME NEW G, NEW F, Weaker(G, F), NEW v, NEW spilt
  PROVE  Weaker(Turned(G, v, spilt), Turned(F, v, spilt))
<1>1. CASE spilt
  <2> DEFINE g == Spilled(G, v)
             f == Spilled(F, v)
  <2>1. /\ g.var = {x \in G.var : x[1] # v} /\ g.mem = G.mem \cup {x \in G.var : x[1] = v}
        /\ g.reg = G.reg
        /\ f.var = {x \in F.var : x[1] # v} /\ f.mem = F.mem \cup {x \in F.var : x[1] = v}
        /\ f.reg = F.reg
    BY DEF Spilled, Facts
  <2>2. Weaker(g, f)
    BY <2>1 DEF Weaker
  <2> QED BY <1>1, <2>2 DEF Turned
<1>2. CASE ~spilt
  BY <1>2 DEF Turned
<1> QED BY <1>1, <1>2

\* The variable spilled is one more name of the frame.
LEMMA LongerFrame ==
  ASSUME NEW f, FrameNames(f), NEW v, v # None
  PROVE  LET h == SpillCode(f, v)
         IN  FrameNames(h)
<1> DEFINE h == SpillCode(f, v)
           S == ToSet(f.frame) \cup {v}
<1>1. h.frame = Append(f.frame, v)
  BY DEF SpillCode, Function
<1>2. f.frame \in Seq(S) /\ v \in S
  BY SeqMonotonic DEF FrameNames
<1> HIDE DEF h, S
<1>3. h.frame \in Seq(S) /\ ToSet(h.frame) = ToSet(f.frame) \cup {v}
  <2>1. /\ h.frame \in Seq(S) /\ Len(f.frame) \in Nat /\ Len(h.frame) = Len(f.frame) + 1
        /\ \A i \in 1..Len(f.frame) : h.frame[i] = f.frame[i]
        /\ h.frame[Len(f.frame) + 1] = v
    BY <1>1, <1>2, AppendProperties
  <2>2. DOMAIN h.frame = 1..(Len(f.frame) + 1) /\ DOMAIN f.frame = 1..Len(f.frame)
    BY <1>2, <2>1
  <2>3. ASSUME NEW x \in ToSet(h.frame) PROVE x \in ToSet(f.frame) \cup {v}
    <3>1. PICK i \in 1..(Len(f.frame) + 1) : x = h.frame[i]
      BY <2>2 DEF ToSet
    <3>2. i \in 1..Len(f.frame) \/ i = Len(f.frame) + 1
      BY <2>1
    <3> QED BY <2>1, <2>2, <3>1, <3>2 DEF ToSet
  <2>4. ASSUME NEW x \in ToSet(f.frame) PROVE x \in ToSet(h.frame)
    <3>1. PICK i \in 1..Len(f.frame) : x = f.frame[i]
      BY <2>2 DEF ToSet
    <3>2. i \in 1..(Len(f.frame) + 1)
      BY <2>1
    <3> QED BY <2>1, <2>2, <3>1, <3>2 DEF ToSet
  <2>5. v \in ToSet(h.frame)
    <3>1. Len(f.frame) + 1 \in 1..(Len(f.frame) + 1)
      BY <2>1
    <3> QED BY <2>1, <2>2, <3>1 DEF ToSet
  <2> QED BY <2>1, <2>3, <2>4, <2>5
<1>4. FrameNames(h)
  BY <1>3, SeqMonotonic DEF FrameNames, S
<1> QED BY <1>4 DEF h

\* What is known on arrival is not about a variable that can be spilled.
LEMMA ArrivalTurned ==
  ASSUME NEW g, g.params \in Seq(ToSet(g.params)),
         NEW F, Weaker(F, Arrival(g)), NEW v, v \notin Reg, NEW spilt
  PROVE  Weaker(Turned(F, v, spilt), Arrival(g))
<1>1. CASE spilt
  <2> DEFINE h == Spilled(F, v)
             A == Arrival(g)
  <2>1. /\ h.var = {x \in F.var : x[1] # v} /\ h.mem = F.mem \cup {x \in F.var : x[1] = v}
        /\ h.reg = F.reg
    BY DEF Spilled, Facts
  <2>2. \A x \in A.var : x[1] \in Reg
    <3>1. A.var = {<<ArgRegs[j], EnvOf(g.params[j])>> : j \in {k \in DOMAIN g.params : k <= Len(ArgRegs)}}
                    \cup {<<r, CallerOf(r)>> : r \in ToSet(CalleeSaved)}
      BY DEF Arrival, Facts
    <3>2. \A j \in {k \in DOMAIN g.params : k <= Len(ArgRegs)} : j \in 1..Len(ArgRegs)
      <4>1. DOMAIN g.params = 1..Len(g.params) /\ Len(g.params) \in Nat
        OBVIOUS
      <4> QED BY <4>1, RegistersAre
    <3> QED BY <3>1, <3>2, RegistersAre, CalleeSavedAre
  <2> QED BY <1>1, <2>1, <2>2 DEF Turned, Weaker
<1>2. CASE ~spilt
  BY <1>2 DEF Turned
<1> QED BY <1>1, <1>2

\* Spilling keeps a certificate.
LEMMA SpillCertified ==
  ASSUME NEW g, g.params \in Seq(ToSet(g.params)),
         NEW f, Closed(f), NamesLeft(f), Reg \subseteq f.locals, FrameNames(f), Certified(g, f),
         NEW v \in f.locals, v \notin Reg
  PROVE  Certified(g, SpillCode(f, v)) /\ FrameNames(SpillCode(f, v))
<1> DEFINE h == SpillCode(f, v)
           piece == [p \in Points(f) |-> SpillPiece(f, v, p)]
<1>1. /\ h.code = Replaced(f, "spill_", SpillSites(f, v), piece).code /\ h.succ = f.succ
      /\ h = SpillCode(f, v)
  BY DEF SpillCode, SpillStores, Function
<1>2. FrameNames(h)
  <2>1. v # None
    BY DEF Closed
  <2> QED BY <2>1, LongerFrame
<1>3. PICK P, Q : Certificate(g, f, P, Q)
  BY DEF Certified
<1>4. Moves(f, h, v)
  BY SpillMoves
<1>5. HasBlocks(f) /\ DOMAIN h.code = DOMAIN f.code
  BY <1>1 DEF HasBlocks, Closed, Replaced
<1>6. \A p \in Points(f) : piece[p] = SpillPiece(f, v, p) /\ piece[p] \in Seq(ToSet(piece[p]))
  BY PiecesAreSequences
<1> DEFINE T == [b \in DOMAIN f.code \cup {1} |-> Turned(P[b], v, TRUE)]
           U == [b \in DOMAIN f.code |-> Turned(Q[b], v, TRUE)]
<1> HIDE DEF h, piece
<1>7. \A F : FactsOver(f, F) => FactsOver(h, Turned(F, v, TRUE))
  BY <1>4, SpilledOver DEF Turned
<1>8. \A p \in Points(f) : \A F, G :
        /\ FactsOver(f, F) /\ FactsOver(f, G)
        /\ Step(g, At(f, p), F, G) /\ Enough(g, f, At(f, p), F)
        => Leads(g, h, piece[p], Turned(F, v, TRUE), Turned(G, v, TRUE))
  <2>1. ASSUME NEW p \in Points(f), NEW F, NEW G, FactsOver(f, F), FactsOver(f, G),
               Step(g, At(f, p), F, G), Enough(g, f, At(f, p), F)
        PROVE  Leads(g, h, piece[p], Turned(F, v, TRUE), Turned(G, v, TRUE))
    <3>1. Leads(g, h, SpillPiece(f, v, p), Spilled(F, v), Spilled(G, v))
      BY <1>1, <1>2, <2>1, SpillPieceLeads
    <3> QED BY <1>6, <3>1 DEF Turned
  <2> QED BY <2>1
<1>9. ASSUME NEW b \in DOMAIN h.code PROVE Leads(g, h, h.code[b], T[b], U[b])
  <2>1. b \in DOMAIN f.code /\ Leads(g, f, f.code[b], P[b], Q[b])
    BY <1>3, <1>5, <1>9 DEF Certificate
  <2>2. Leads(g, h, h.code[b], Turned(P[b], v, TRUE), Turned(Q[b], v, TRUE))
    BY <1>1, <1>5, <1>6, <1>7, <1>8, <2>1, ReplacedLeads
  <2> QED BY <2>1, <2>2
<1>10. ASSUME NEW b \in DOMAIN h.code, NEW s \in h.succ[b] PROVE Weaker(T[s], U[b])
  <2>1. b \in DOMAIN f.code /\ s \in DOMAIN f.code /\ Weaker(P[s], Q[b])
    BY <1>1, <1>3, <1>5, <1>10 DEF Certificate, Closed
  <2> QED BY <2>1, WeakerTurned
<1>11. Weaker(T[1], Arrival(g))
  BY <1>3, ArrivalTurned DEF Certificate
<1>12. ASSUME NEW b \in DOMAIN h.code \cup {1} PROVE T[b].reg = {}
  <2>1. P[b].reg = {} /\ T[b] = Spilled(P[b], v)
    BY <1>3, <1>5 DEF Certificate, Turned
  <2>2. Spilled(P[b], v).reg = P[b].reg
    BY SpilledFacts
  <2> HIDE DEF T
  <2> QED BY <2>1, <2>2
<1> HIDE DEF T, U
<1>13. Certificate(g, h, T, U)
  BY <1>9, <1>10, <1>11, <1>12 DEF Certificate
<1> QED BY <1>2, <1>13 DEF Certified, h

\* So does computing far addresses apart.
LEMMA AddressedCertified ==
  ASSUME NEW g, NEW f, Closed(f), NamesLeft(f), Reg \subseteq f.locals, FrameNames(f), Certified(g, f)
  PROVE  Certified(g, RewriteLargeOffset(f)) /\ FrameNames(RewriteLargeOffset(f))
<1> DEFINE h == RewriteLargeOffset(f)
           piece == [p \in Points(f) |-> AddressPiece(f, p)]
<1>1. /\ h.code = Replaced(f, "addr", FarSites(f), piece).code /\ h.succ = f.succ
      /\ h = RewriteLargeOffset(f) /\ h.frame = f.frame
      /\ f.locals \subseteq h.locals
  BY DEF RewriteLargeOffset, Addressed, Function
<1>2. FrameNames(h)
  BY <1>1 DEF FrameNames
<1>3. PICK P, Q : Certificate(g, f, P, Q)
  BY DEF Certified
<1>4. \A s : StackObject(f, s) => StackObject(h, s)
  <2> DEFINE to == Addressed(f)
  <2>1. /\ to = Replaced(f, "addr", FarSites(f), piece) /\ FarSites(f) \in SUBSET Points(f)
        /\ "addr" \in NamePrefixes
        /\ h.locals = f.locals \cup to.new /\ h.uid = to.uid
    BY DEF RewriteLargeOffset, Addressed, Function, FarSites, NamePrefixes
  <2> HIDE DEF h, to, piece
  <2>2. ASSUME NEW s, StackObject(f, s) PROVE StackObject(h, s)
    BY <2>1, <2>2, StackObjectsStay
  <2> QED BY <2>2
<1>5. HasBlocks(f) /\ DOMAIN h.code = DOMAIN f.code /\ Extends(f, h)
  BY <1>1, <1>4 DEF HasBlocks, Closed, Replaced, Extends
<1>6. \A p \in Points(f) : piece[p] = AddressPiece(f, p) /\ piece[p] \in Seq(ToSet(piece[p]))
  BY PiecesAreSequences
<1> HIDE DEF h, piece
<1>7. \A F : FactsOver(f, F) => FactsOver(h, Turned(F, None, FALSE))
  BY <1>5, ExtendedOver DEF Turned
<1>8. \A p \in Points(f) : \A F, G :
        /\ FactsOver(f, F) /\ FactsOver(f, G)
        /\ Step(g, At(f, p), F, G) /\ Enough(g, f, At(f, p), F)
        => Leads(g, h, piece[p], Turned(F, None, FALSE), Turned(G, None, FALSE))
  <2>1. ASSUME NEW p \in Points(f), NEW F, NEW G, FactsOver(f, F), FactsOver(f, G),
               Step(g, At(f, p), F, G), Enough(g, f, At(f, p), F)
        PROVE  Leads(g, h, piece[p], Turned(F, None, FALSE), Turned(G, None, FALSE))
    <3>1. Leads(g, h, AddressPiece(f, p), F, G)
      BY <1>1, <2>1, AddressPieceLeads
    <3> QED BY <1>6, <3>1 DEF Turned
  <2> QED BY <2>1
<1>9. ASSUME NEW b \in DOMAIN h.code PROVE Leads(g, h, h.code[b], P[b], Q[b])
  <2>1. b \in DOMAIN f.code /\ Leads(g, f, f.code[b], P[b], Q[b])
    BY <1>3, <1>5, <1>9 DEF Certificate
  <2>2. Leads(g, h, h.code[b], Turned(P[b], None, FALSE), Turned(Q[b], None, FALSE))
    BY <1>1, <1>5, <1>6, <1>7, <1>8, <2>1, ReplacedLeads
  <2> QED BY <2>2 DEF Turned
<1>10. Certificate(g, h, P, Q)
  BY <1>1, <1>3, <1>5, <1>9 DEF Certificate
<1> QED BY <1>2, <1>10 DEF Certified, h

-----------------------------------------------------------------------------
(* The certificate create_registers gives. *)

\* F and what the first k of some moves, loads and stores add to it: the j-th puts
\* C[j] into D[j], a stack object if j is in M.  Registers put back count as such.
Gathered(F, k, D, C, M, saved) ==
  Facts(F.var \cup {<<D[j], C[j]>> : j \in (1..k) \ M},
        F.mem \cup {<<D[j], C[j]>> : j \in (1..k) \cap M},
        IF saved THEN {<<D[j], C[j]>> : j \in 1..k} ELSE {}, TRUE)

LEMMA GatheredFacts ==
  ASSUME NEW F, NEW k, NEW D, NEW C, NEW M, NEW saved
  PROVE  LET G == Gathered(F, k, D, C, M, saved)
         IN  /\ \A v, c : <<v, c>> \in G.var <=> \/ <<v, c>> \in F.var
                                                 \/ \E j \in 1..k : j \notin M /\ v = D[j] /\ c = C[j]
             /\ \A v, c : <<v, c>> \in G.mem <=> \/ <<v, c>> \in F.mem
                                                 \/ \E j \in 1..k : j \in M /\ v = D[j] /\ c = C[j]
             /\ \A v, c : <<v, c>> \in G.reg <=> saved /\ \E j \in 1..k : v = D[j] /\ c = C[j]
             /\ G.goes = TRUE
<1> DEFINE G == Gathered(F, k, D, C, M, saved)
<1>1. /\ G.var = F.var \cup {<<D[j], C[j]>> : j \in (1..k) \ M}
      /\ G.mem = F.mem \cup {<<D[j], C[j]>> : j \in (1..k) \cap M}
      /\ G.reg = IF saved THEN {<<D[j], C[j]>> : j \in 1..k} ELSE {}
      /\ G.goes = TRUE
  BY DEF Gathered, Facts
<1> HIDE DEF G
<1>2. \A v, c : <<v, c>> \in G.var <=> \/ <<v, c>> \in F.var
                                       \/ \E j \in 1..k : j \notin M /\ v = D[j] /\ c = C[j]
  BY <1>1
<1>3. \A v, c : <<v, c>> \in G.mem <=> \/ <<v, c>> \in F.mem
                                       \/ \E j \in 1..k : j \in M /\ v = D[j] /\ c = C[j]
  BY <1>1
<1>4. \A v, c : <<v, c>> \in G.reg <=> saved /\ \E j \in 1..k : v = D[j] /\ c = C[j]
  BY <1>1
<1> QED BY <1>1, <1>2, <1>3, <1>4 DEF G

GatherIs(G, F, k, D, C, M) ==
  /\ \A v, c : <<v, c>> \in G.var <=> \/ <<v, c>> \in F.var
                                      \/ \E j \in 1..k : j \notin M /\ v = D[j] /\ c = C[j]
  /\ \A v, c : <<v, c>> \in G.mem <=> \/ <<v, c>> \in F.mem
                                      \/ \E j \in 1..k : j \in M /\ v = D[j] /\ c = C[j]
  /\ G.goes = TRUE

LEMMA GatheredIs ==
  ASSUME NEW F, NEW k, NEW D, NEW C, NEW M, NEW saved, NEW G, G = Gathered(F, k, D, C, M, saved)
  PROVE  GatherIs(G, F, k, D, C, M)
<1> DEFINE H == Gathered(F, k, D, C, M, saved)
<1>1. /\ \A v, c : <<v, c>> \in H.var <=> \/ <<v, c>> \in F.var
                                          \/ \E j \in 1..k : j \notin M /\ v = D[j] /\ c = C[j]
      /\ \A v, c : <<v, c>> \in H.mem <=> \/ <<v, c>> \in F.mem
                                          \/ \E j \in 1..k : j \in M /\ v = D[j] /\ c = C[j]
      /\ \A v, c : <<v, c>> \in H.reg <=> saved /\ \E j \in 1..k : v = D[j] /\ c = C[j]
      /\ H.goes = TRUE
  BY GatheredFacts
<1> HIDE DEF H
<1>2. GatherIs(H, F, k, D, C, M)
  BY <1>1 DEF GatherIs
<1> QED BY <1>2 DEF H

\* The j-th instruction of such a sequence, S[j] being where it takes the content from.
Gathers(f, F, in, j, D, S, C, M, saved) ==
  /\ \A s : C[j] # AddressOf(s)
  /\ \/ /\ j \notin M /\ in = Move(D[j], S[j]) /\ <<S[j], C[j]>> \in F.var
     \/ /\ j \notin M /\ in = Load(D[j], S[j]) /\ <<S[j], C[j]>> \in F.mem /\ ~saved
     \/ /\ j \in M /\ in = Store(D[j], S[j]) /\ <<S[j], C[j]>> \in F.var /\ ~saved
  /\ IF j \in M THEN StackObject(f, D[j]) /\ \A c : <<D[j], c>> \notin F.mem
                ELSE D[j] \in f.locals /\ \A c : <<D[j], c>> \notin F.var
  /\ saved => D[j] \in ToSet(CalleeSaved) /\ S[j] \in Copies

AllGather(f, F, n, s, D, S, C, M, saved) ==
  \A j \in 1..n : Gathers(f, F, s[j], j, D, S, C, M, saved)

LEMMA GatherStep ==
  ASSUME NEW g, NEW f, None \notin f.locals, NEW F, FactsOver(f, F), NEW n \in Nat,
         NEW s, NEW D, NEW S, NEW C, NEW M, NEW saved, NEW k \in 1..n,
         NEW in, Gathers(f, F, in, k, D, S, C, M, saved),
         AllGather(f, F, n, s, D, S, C, M, saved),
         \A i, j \in 1..n : D[i] = D[j] => i = j
  PROVE  /\ Step(g, in, Gathered(F, k - 1, D, C, M, saved), Gathered(F, k, D, C, M, saved))
         /\ Enough(g, f, in, Gathered(F, k - 1, D, C, M, saved))
<1> DEFINE A == Gathered(F, k - 1, D, C, M, saved)
           B == Gathered(F, k, D, C, M, saved)
<1>1. /\ \A v, c : <<v, c>> \in A.var <=> \/ <<v, c>> \in F.var
                                          \/ \E j \in 1..(k - 1) : j \notin M /\ v = D[j] /\ c = C[j]
      /\ \A v, c : <<v, c>> \in A.mem <=> \/ <<v, c>> \in F.mem
                                          \/ \E j \in 1..(k - 1) : j \in M /\ v = D[j] /\ c = C[j]
      /\ \A v, c : <<v, c>> \in A.reg <=> saved /\ \E j \in 1..(k - 1) : v = D[j] /\ c = C[j]
      /\ A.goes = TRUE
  BY GatheredFacts
<1>2. /\ \A v, c : <<v, c>> \in B.var <=> \/ <<v, c>> \in F.var
                                          \/ \E j \in 1..k : j \notin M /\ v = D[j] /\ c = C[j]
      /\ \A v, c : <<v, c>> \in B.mem <=> \/ <<v, c>> \in F.mem
                                          \/ \E j \in 1..k : j \in M /\ v = D[j] /\ c = C[j]
      /\ \A v, c : <<v, c>> \in B.reg <=> saved /\ \E j \in 1..k : v = D[j] /\ c = C[j]
      /\ B.goes = TRUE
  BY GatheredFacts
<1> HIDE DEF A, B
<1>3. \A j \in 1..k : j \in 1..(k - 1) \/ j = k
  OBVIOUS
<1>4. \A j \in 1..(k - 1) : j # k /\ D[j] # D[k]
  OBVIOUS
<1>0. Gathers(f, F, in, k, D, S, C, M, saved)
  OBVIOUS
<1>5. in.id = 0 /\ IsInsert(in)
  BY <1>0 DEF Gathers, Move, Load, Store, Instr, IsInsert
<1>6. \A c : ~Changes(g, in, c)
  BY <1>5 DEF Changes
<1>7. <<S[k], C[k]>> \in F.var => <<S[k], C[k]>> \in A.var
  BY <1>1
<1>8. CASE k \notin M
  <2>1. /\ in.def = D[k] /\ D[k] # None /\ \A c : <<D[k], c>> \notin F.var
        /\ in.op \in {"move", "load"}
    BY <1>0, <1>8 DEF Gathers, Move, Load, Instr
  <2>2. Result(g, in, A, C[k])
    <3>1. CASE in = Move(D[k], S[k])
      <4>1. in.op = "move" /\ in.uses[1] = S[k]
        BY <3>1 DEF Move, Instr
      <4>2. <<S[k], C[k]>> \in F.var
        BY <1>0, <1>8, <3>1 DEF Gathers, Move, Load, Instr
      <4> QED BY <1>5, <1>7, <4>1, <4>2 DEF Result
    <3>2. CASE in = Load(D[k], S[k])
      <4>1. in.op = "load" /\ in.mem = S[k]
        BY <3>2 DEF Load, Instr
      <4>2. <<S[k], C[k]>> \in F.mem
        BY <1>0, <1>8, <3>2 DEF Gathers, Move, Load, Instr
      <4>3. S[k] # None
        BY <4>2 DEF FactsOver, StackObject
      <4>4. Addresses(in, A, S[k])
        BY <4>1, <4>3 DEF Addresses
      <4> QED BY <1>1, <1>5, <4>1, <4>2, <4>4 DEF Result
    <3> QED BY <1>0, <1>8, <3>1, <3>2 DEF Gathers
  <2>3. ASSUME NEW v, NEW c, <<v, c>> \in B.var PROVE VarAfter(g, in, A, v, c)
    <3>1. CASE v = D[k]
      <4>1. c = C[k]
        BY <1>2, <1>3, <1>4, <2>1, <2>3, <3>1
      <4> QED BY <2>1, <2>2, <3>1, <4>1 DEF VarAfter
    <3>2. CASE v # D[k]
      <4>1. <<v, c>> \in A.var
        BY <1>1, <1>2, <1>3, <2>3, <3>2
      <4> QED BY <1>6, <2>1, <3>2, <4>1 DEF VarAfter
    <3> QED BY <3>1, <3>2
  <2>4. ASSUME NEW q, NEW c, <<q, c>> \in B.mem PROVE MemAfter(g, in, A, q, c)
    <3>1. <<q, c>> \in A.mem
      BY <1>1, <1>2, <1>3, <1>8, <2>4
    <3> QED BY <1>6, <2>1, <3>1 DEF MemAfter
  <2>5. ASSUME NEW r, NEW c, <<r, c>> \in B.reg PROVE RegAfter(in, A, r, c)
    <3>1. saved /\ in = Move(D[k], S[k]) /\ D[k] \in ToSet(CalleeSaved) /\ S[k] \in Copies
          /\ <<S[k], C[k]>> \in F.var
      BY <1>0, <1>2, <1>8, <2>5 DEF Gathers
    <3>2. in.op = "move" /\ in.uses[1] = S[k]
      BY <3>1 DEF Move, Instr
    <3>3. CASE r = D[k]
      <4>1. c = C[k]
        BY <1>2, <1>3, <1>4, <2>5, <3>3
      <4> QED BY <1>5, <1>7, <2>1, <3>1, <3>2, <3>3, <4>1 DEF RegAfter
    <3>4. CASE r # D[k]
      <4>1. <<r, c>> \in A.reg
        BY <1>1, <1>2, <1>3, <2>5, <3>4
      <4> QED BY <1>5, <2>1, <3>1, <3>2, <3>4, <4>1 DEF RegAfter
    <3> QED BY <3>3, <3>4
  <2>6. InsertedWell(f, in, A)
    <3>1. in = Move(D[k], S[k]) \/ (in = Load(D[k], S[k]) /\ <<S[k], C[k]>> \in F.mem)
      BY <1>0, <1>8 DEF Gathers
    <3>2. in.op = "move" => Len(in.uses) = 1 /\ in.mem = None
      BY <3>1 DEF Move, Load, Instr
    <3>3. in.op = "load" => StackObject(f, in.mem)
      <4>1. in.op = "load" => in.mem = S[k] /\ <<S[k], C[k]>> \in F.mem
        BY <3>1 DEF Move, Load, Instr
      <4> QED BY <4>1 DEF FactsOver
    <3> QED BY <2>1, <3>2, <3>3 DEF InsertedWell
  <2>7. in.op \notin {"branch", "ret"}
    BY <2>1
  <2>8. Step(g, in, A, B)
    BY <2>3, <2>4, <2>5, <2>7 DEF Step
  <2> QED BY <1>1, <1>5, <2>6, <2>8 DEF Enough, A, B
<1>9. CASE k \in M
  <2>1. /\ in = Store(D[k], S[k]) /\ ~saved /\ StackObject(f, D[k]) /\ <<S[k], C[k]>> \in A.var
        /\ \A c : <<D[k], c>> \notin F.mem
    BY <1>0, <1>7, <1>9 DEF Gathers
  <2>2. in.op = "store" /\ in.def = None /\ in.uses = <<S[k]>> /\ in.mem = D[k]
    BY <2>1 DEF Store, Instr
  <2>3. D[k] # None
    BY <2>1 DEF StackObject
  <2>4. \A q : Addresses(in, A, q) <=> q = D[k]
    BY <2>2, <2>3 DEF Addresses
  <2>5. in.uses # <<>> /\ Last(in.uses) = S[k]
    BY <2>2 DEF Last
  <2>6. ASSUME NEW v, NEW c, <<v, c>> \in B.var PROVE VarAfter(g, in, A, v, c)
    <3>1. <<v, c>> \in A.var
      BY <1>1, <1>2, <1>3, <1>9, <2>6
    <3>2. v # None
      <4>1. ASSUME NEW j \in 1..(k - 1), j \notin M PROVE D[j] \in f.locals
        <5>1. Gathers(f, F, s[j], j, D, S, C, M, saved)
          BY DEF AllGather
        <5> QED BY <4>1, <5>1 DEF Gathers
      <4> QED BY <1>1, <3>1, <4>1 DEF FactsOver
    <3> QED BY <1>6, <2>2, <3>1, <3>2 DEF VarAfter
  <2>7. ASSUME NEW q, NEW c, <<q, c>> \in B.mem PROVE MemAfter(g, in, A, q, c)
    <3>1. q = D[k] => c = C[k]
      BY <1>2, <1>3, <1>4, <2>1, <2>7
    <3>2. q # D[k] => <<q, c>> \in A.mem
      BY <1>1, <1>2, <1>3, <2>7
    <3> QED BY <1>5, <2>1, <2>2, <2>4, <2>5, <3>1, <3>2 DEF MemAfter
  <2>8. InsertedWell(f, in, A)
    BY <2>1, <2>2, <2>4, <2>5 DEF InsertedWell
  <2>9. Step(g, in, A, B)
    BY <1>2, <2>1, <2>2, <2>6, <2>7 DEF Step
  <2> QED BY <1>1, <1>5, <2>8, <2>9 DEF Enough, A, B
<1> QED BY <1>8, <1>9

\* Such a sequence leads to what it gathers.
LEMMA GatherLeads ==
  ASSUME NEW g, NEW f, None \notin f.locals, NEW F, FactsOver(f, F),
         F = Facts(F.var, F.mem, {}, TRUE),
         NEW V, NEW s \in Seq(V), NEW n, n = Len(s),
         NEW D, NEW S, NEW C, NEW M, NEW saved,
         AllGather(f, F, n, s, D, S, C, M, saved),
         \A i, j \in 1..n : D[i] = D[j] => i = j
  PROVE  /\ Leads(g, f, s, F, Gathered(F, n, D, C, M, saved))
         /\ FactsOver(f, Gathered(F, n, D, C, M, saved))
<1> DEFINE H == [k \in 0..n |-> Gathered(F, k, D, C, M, saved)]
<1>1. n \in Nat /\ Len(s) = n
  OBVIOUS
<1>2. H[0] = F
  <2>1. H[0] = Gathered(F, 0, D, C, M, saved)
    BY <1>1
  <2>2. 1..0 = {}
    OBVIOUS
  <2>3. Gathered(F, 0, D, C, M, saved) = Facts(F.var, F.mem, {}, TRUE)
    <3>1. {<<D[j], C[j]>> : j \in (1..0) \ M} = {} /\ {<<D[j], C[j]>> : j \in (1..0) \cap M} = {}
          /\ {<<D[j], C[j]>> : j \in 1..0} = {}
      BY <2>2
    <3>2. \A X : X \cup {} = X
      OBVIOUS
    <3> QED BY <3>1, <3>2 DEF Gathered
  <2> QED BY <2>1, <2>3
<1>3. ASSUME NEW k \in 0..n PROVE FactsOver(f, H[k])
  <2> DEFINE G == Gathered(F, k, D, C, M, saved)
  <2>1. /\ \A v, c : <<v, c>> \in G.var <=> \/ <<v, c>> \in F.var
                                            \/ \E j \in 1..k : j \notin M /\ v = D[j] /\ c = C[j]
        /\ \A v, c : <<v, c>> \in G.mem <=> \/ <<v, c>> \in F.mem
                                            \/ \E j \in 1..k : j \in M /\ v = D[j] /\ c = C[j]
        /\ \A v, c : <<v, c>> \in G.reg <=> saved /\ \E j \in 1..k : v = D[j] /\ c = C[j]
        /\ G.goes = TRUE
    BY GatheredFacts
  <2>2. \A j \in 1..k : j \in 1..n
    BY <1>1
  <2>3. \A j \in 1..k : /\ \A q : C[j] # AddressOf(q)
                        /\ j \in M => StackObject(f, D[j])
                        /\ j \notin M => D[j] \in f.locals
                        /\ saved => D[j] \in ToSet(CalleeSaved)
    BY <2>2 DEF AllGather, Gathers
  <2>4. H[k] = G
    OBVIOUS
  <2> HIDE DEF G, H
  <2>5. FactsOver(f, G)
    BY <2>1, <2>3 DEF FactsOver
  <2> QED BY <2>4, <2>5
<1>4. ASSUME NEW k \in 1..n
      PROVE  Step(g, s[k], H[k - 1], H[k]) /\ Enough(g, f, s[k], H[k - 1])
  <2>1. k - 1 \in 0..n /\ k \in 0..n
    BY <1>1
  <2>2. H[k - 1] = Gathered(F, k - 1, D, C, M, saved) /\ H[k] = Gathered(F, k, D, C, M, saved)
    BY <2>1
  <2> DEFINE A == Gathered(F, k - 1, D, C, M, saved)
             B == Gathered(F, k, D, C, M, saved)
             in == s[k]
  <2>3. Gathers(f, F, in, k, D, S, C, M, saved)
    BY DEF AllGather
  <2>4. Step(g, in, A, B) /\ Enough(g, f, in, A)
    BY <1>1, <2>3, GatherStep
  <2> HIDE DEF H
  <2> QED BY <2>2, <2>4
<1>5. DOMAIN H = 0..n /\ H[n] = Gathered(F, n, D, C, M, saved)
  BY <1>1
<1> HIDE DEF H
<1>6. Flow(g, f, s, H)
  BY <1>1, <1>3, <1>4, <1>5 DEF Flow
<1>7. FactsOver(f, H[n])
  BY <1>1, <1>3
<1> QED BY <1>1, <1>2, <1>5, <1>6, <1>7 DEF Leads

\* What is known after the first i instructions of block b of g: its live variables
\* are in the variables of the same name, the callee-saved registers in their copies.
Known(g, b, i) ==
  Facts({<<v, EnvOf(v)>> : v \in LiveAfter(g)[b][i]}
          \cup {<<MemOf(r), CallerOf(r)>> : r \in ToSet(CalleeSaved)},
        {}, {}, i = 0 \/ g.code[b][i].op \notin {"branch", "ret"})

LEMMA KnownFacts ==
  ASSUME NEW g, NEW b, NEW i
  PROVE  LET F == Known(g, b, i)
         IN  /\ \A v, c : <<v, c>> \in F.var <=>
                  \/ v \in LiveAfter(g)[b][i] /\ c = EnvOf(v)
                  \/ \E r \in ToSet(CalleeSaved) : v = MemOf(r) /\ c = CallerOf(r)
             /\ F.mem = {} /\ F.reg = {}
             /\ F.goes = (i = 0 \/ g.code[b][i].op \notin {"branch", "ret"})
<1> DEFINE F == Known(g, b, i)
<1>1. /\ F.var = {<<v, EnvOf(v)>> : v \in LiveAfter(g)[b][i]}
                   \cup {<<MemOf(r), CallerOf(r)>> : r \in ToSet(CalleeSaved)}
      /\ F.mem = {} /\ F.reg = {}
      /\ F.goes = (i = 0 \/ g.code[b][i].op \notin {"branch", "ret"})
  BY DEF Known, Facts
<1> HIDE DEF F
<1>2. \A v, c : <<v, c>> \in F.var <=>
         \/ v \in LiveAfter(g)[b][i] /\ c = EnvOf(v)
         \/ \E r \in ToSet(CalleeSaved) : v = MemOf(r) /\ c = CallerOf(r)
  BY <1>1
<1> QED BY <1>1, <1>2 DEF F

\* The three kinds of contents differ.
LEMMA ContentsDiffer ==
  /\ \A v, r : EnvOf(v) # CallerOf(r)
  /\ \A v, s : EnvOf(v) # AddressOf(s)
  /\ \A r, s : CallerOf(r) # AddressOf(s)
  /\ \A u, v : EnvOf(u) = EnvOf(v) => u = v
BY DEF EnvOf, CallerOf, AddressOf, Value

\* An instruction of the source.
LEMMA SourceInstruction ==
  ASSUME NEW g, WellFormed(g), Runnable(g), NEW b \in DOMAIN g.code, NEW i \in 1..Len(g.code[b]),
         NEW in, in = g.code[b][i]
  PROVE  /\ in = Instr(in.id, in.op, in.def, in.uses, in.mem)
         /\ in.def \in VariablesOf(g) \cup {None} /\ in.uses \in Seq(VariablesOf(g))
         /\ in.id # 0 /\ Origin(g, in.id) = in
         /\ in.op \in {"op", "move", "call", "branch", "ret"}
         /\ in.op \in {"branch", "ret"} => in.def = None /\ i = Len(g.code[b])
         /\ in.op = "ret" => Len(in.uses) <= 1
         /\ in.op = "move" => in.def # None /\ Len(in.uses) = 1
         /\ in \in Instructions(g)
<1>1. g.code \in Seq(Seq(Instructions(g)))
  BY DEF WellFormed
<1>2. <<b, i>> \in Points(g) /\ At(g, <<b, i>>) = in
  <2>1. g.code[b] \in Seq(Instructions(g))
    BY <1>1
  <2>2. i \in DOMAIN g.code[b]
    BY <2>1
  <2> QED BY <1>1, <2>2, PointsAre
<1>3. PICK p \in Points(g) : p[1] = b /\ p[2] = i /\ At(g, p) = in
  BY <1>2
<1>4. in \in Instructions(g)
  BY <1>3 DEF Instructions
<1>5. /\ in = Instr(in.id, in.op, in.def, in.uses, in.mem)
      /\ in.def \in VariablesOf(g) \cup {None} /\ in.uses \in Seq(VariablesOf(g))
  BY <1>4 DEF WellFormed, VariablesOf
<1>6. \A q, r \in Points(g) : At(g, q).id = At(g, r).id => q = r
  BY DEF Runnable
<1>7. Origin(g, in.id) = in
  <2> DEFINE q == CHOOSE q \in Points(g) : At(g, q).id = in.id
  <2>1. q \in Points(g) /\ At(g, q).id = in.id
    BY <1>3
  <2>2. q = p
    BY <1>3, <1>6, <2>1
  <2> QED BY <1>3, <2>2 DEF Origin
<1>8. /\ in.id # 0
      /\ in.op \in {"op", "move", "call", "branch", "ret"}
      /\ in.op \in {"branch", "ret"} => in.def = None /\ p[2] = Len(g.code[p[1]])
      /\ in.op = "ret" => Len(in.uses) <= 1
      /\ in.op = "move" => in.def # None /\ Len(in.uses) = 1
  BY <1>3 DEF Runnable
<1> QED BY <1>3, <1>4, <1>5, <1>7, <1>8

\* What is live around it.
LEMMA SourceLive ==
  ASSUME NEW g, WellFormed(g)
  PROVE  /\ UsesOnly(g, VariablesOf(g))
         /\ \A b \in DOMAIN g.code :
              /\ \A i \in 0..Len(g.code[b]) : LiveAfter(g)[b][i] \subseteq VariablesOf(g)
              /\ \A i \in 1..Len(g.code[b]) :
                   LiveAfter(g)[b][i - 1] =
                     (LiveAfter(g)[b][i] \ {g.code[b][i].def}) \cup ToSet(g.code[b][i].uses)
              /\ \A s \in g.succ[b] :
                   s \in DOMAIN g.code /\ LiveAfter(g)[s][0] \subseteq LiveAfter(g)[b][Len(g.code[b])]
              /\ LiveAfter(g)[b][0] = LiveIn(g)[b]
<1> DEFINE V == VariablesOf(g)
<1>1. UsesOnly(g, V)
  <2>1. /\ g.code \in Seq(Seq(Instructions(g)))
        /\ g.succ \in [DOMAIN g.code -> SUBSET DOMAIN g.code]
    BY DEF WellFormed
  <2>2. \A in \in Instructions(g) : in.uses \in Seq(V)
    BY DEF WellFormed, VariablesOf
  <2> HIDE DEF V
  <2>3. \A in \in Instructions(g) : ToSet(in.uses) \subseteq V
    BY <2>2 DEF ToSet
  <2> QED BY <2>1, <2>3 DEF UsesOnly
<1> HIDE DEF V
<1>2. ASSUME NEW b \in DOMAIN g.code
      PROVE  /\ LiveAfter(g)[b] \in [0..Len(g.code[b]) -> SUBSET V]
             /\ LiveAfter(g)[b][0] = LiveIn(g)[b]
             /\ \A i \in 1..Len(g.code[b]) :
                  LiveAfter(g)[b][i - 1] = LiveBefore(g.code[b][i], LiveAfter(g)[b][i])
             /\ \A s \in g.succ[b] :
                   s \in DOMAIN g.code /\ LiveAfter(g)[s][0] \subseteq LiveAfter(g)[b][Len(g.code[b])]
  BY <1>1, LiveAfterIs
<1> QED BY <1>1, <1>2 DEF LiveBefore, V

\* The elements of s after an element of their own.
AfterOne(u, e, s) ==
  DOMAIN u = 1..(Len(s) + 1) /\ u[1] = e /\ \A i \in 1..Len(s) : u[i + 1] = s[i]

LEMMA AfterOneIs ==
  ASSUME NEW S, NEW e \in S, NEW s \in Seq(S), NEW u, u = <<e>> \o s
  PROVE  AfterOne(u, e, s)
<1> DEFINE one == <<e>>
<1>1. one \in Seq(S) /\ Len(one) = 1 /\ one[1] = e /\ u = one \o s
  OBVIOUS
<1> HIDE DEF one
<1>2. u \in Seq(S) /\ Len(u) = 1 + Len(s) /\ Len(s) \in Nat
  BY <1>1, ConcatProperties
<1>3. u[1] = e /\ \A i \in 2..(1 + Len(s)) : u[i] = s[i - 1]
  BY <1>1, <1>2, ConcatProperties
<1>4. \A i \in 1..Len(s) : i + 1 \in 2..(1 + Len(s)) /\ (i + 1) - 1 = i
  BY <1>2
<1>5. DOMAIN u = 1..(Len(s) + 1)
  BY <1>2
<1> QED BY <1>3, <1>4, <1>5 DEF AfterOne

\* The blocks, variables and frame of the function create_registers makes.
CreatedFrom(g, f, n) ==
  /\ n \in Nat /\ n >= 1 /\ DOMAIN g.code = 1..n /\ DOMAIN f.code = 1..(n + 1)
  /\ f.code[1] = EntryBlock(g) /\ f.succ[1] = {2}
  /\ \A b \in 1..n :
       /\ f.code[b + 1] = FlattenSeq([i \in DOMAIN g.code[b] |-> RewriteInstruction(g.code[b][i])])
       /\ f.succ[b + 1] = {s + 1 : s \in g.succ[b]}
  /\ f.locals = VariablesOf(g) \cup Reg \cup Copies
  /\ f.frame = [j \in DOMAIN g.params |-> MemOf(g.params[j])]

LEMMA CreatedIs ==
  ASSUME NEW g, WellFormed(g), NEW f, f = CreateRegisters(g), NEW n, n = Len(g.code)
  PROVE  CreatedFrom(g, f, n)
<1> DEFINE Block(b) == FlattenSeq([i \in DOMAIN g.code[b] |-> RewriteInstruction(g.code[b][i])])
           body == [b \in DOMAIN g.code |-> Block(b)]
           tail == [b \in DOMAIN g.succ |-> {s + 1 : s \in g.succ[b]}]
           entry == EntryBlock(g)
           B == {entry} \cup {body[b] : b \in DOMAIN g.code}
           T == {{2}} \cup {tail[b] : b \in DOMAIN g.succ}
<1>1. /\ f.code = <<entry>> \o body /\ f.succ = <<{2}>> \o tail
      /\ f.locals = VariablesOf(g) \cup Reg \cup Copies
      /\ f.frame = [j \in DOMAIN g.params |-> MemOf(g.params[j])]
  BY DEF CreateRegisters, Function, VariablesOf, Copies
<1>2. n \in Nat /\ n >= 1 /\ DOMAIN g.code = 1..n /\ DOMAIN g.succ = 1..n
  <2>1. g.code \in Seq(Seq(Instructions(g))) /\ g.code # <<>> /\ DOMAIN g.succ = DOMAIN g.code
    BY DEF WellFormed
  <2> QED BY <2>1, EmptySeq, LenProperties
<1>3. body \in [1..n -> B] /\ tail \in [1..n -> T] /\ entry \in B /\ {2} \in T
  BY <1>2
<1>4. \A b \in 1..n : body[b] = Block(b) /\ tail[b] = {s + 1 : s \in g.succ[b]}
  BY <1>2
<1> HIDE DEF body, tail, entry, B, T, Block
<1>5. body \in Seq(B) /\ Len(body) = n /\ tail \in Seq(T) /\ Len(tail) = n
  <2>1. body \in Seq(B) /\ tail \in Seq(T)
    BY <1>2, <1>3, SeqIs
  <2> QED BY <1>2, <1>3, <2>1, LenProperties
<1>6. ASSUME NEW E, NEW e \in E, NEW s \in Seq(E), Len(s) = n
      PROVE  /\ DOMAIN (<<e>> \o s) = 1..(n + 1)
             /\ (<<e>> \o s)[1] = e /\ \A b \in 1..n : (<<e>> \o s)[b + 1] = s[b]
  <2> DEFINE u == <<e>> \o s
  <2>1. AfterOne(u, e, s)
    BY AfterOneIs
  <2> HIDE DEF u
  <2>2. DOMAIN u = 1..(n + 1) /\ u[1] = e /\ \A b \in 1..n : u[b + 1] = s[b]
    BY <1>6, <2>1 DEF AfterOne
  <2> QED BY <2>2 DEF u
<1>7. /\ DOMAIN f.code = 1..(n + 1) /\ f.code[1] = entry
      /\ \A b \in 1..n : f.code[b + 1] = body[b]
  BY <1>1, <1>3, <1>5, <1>6
<1>8. f.succ[1] = {2} /\ \A b \in 1..n : f.succ[b + 1] = tail[b]
  BY <1>1, <1>3, <1>5, <1>6
<1> QED BY <1>1, <1>2, <1>4, <1>7, <1>8 DEF entry, Block, CreatedFrom

\* The stack object of the j-th argument of a call.
Argument(in, j) == Fresh(Fresh("param", in.id) \o "_", j)

\* The stack objects of parameters and arguments have names of their own.
ObjectNames(g) ==
  LET f == CreateRegisters(g)
  IN  /\ \A j \in DOMAIN g.params : StackObject(f, MemOf(g.params[j]))
      /\ \A i, j \in DOMAIN g.params : MemOf(g.params[i]) = MemOf(g.params[j]) => i = j
      /\ \A in \in Instructions(g) :
           in.op = "call" => \A i, j \in DOMAIN in.uses :
                               /\ StackObject(f, Argument(in, i))
                               /\ Argument(in, i) = Argument(in, j) => i = j

\* What the code generator promises of a source function.
Source(g) == WellFormed(g) /\ Runnable(g) /\ ObjectNames(g)

LEMMA SourceNames ==
  ASSUME NEW g, Source(g), NEW f, f = CreateRegisters(g)
  PROVE  /\ None \notin f.locals /\ VariablesOf(g) \subseteq f.locals
         /\ Reg \subseteq f.locals /\ Copies \subseteq f.locals
         /\ VariablesOf(g) \cap (Reg \cup Copies) = {} /\ Copies \cap Reg = {}
         /\ Closed(f)
<1>1. f.locals = VariablesOf(g) \cup Reg \cup Copies
  BY CreatedIs DEF Source, CreatedFrom
<1>2. Closed(f)
  BY CreateRegistersClosed DEF Source
<1> QED BY <1>1, <1>2 DEF Closed, Source, Runnable, VariablesOf

LEMMA KnownOver ==
  ASSUME NEW g, Source(g), NEW f, f = CreateRegisters(g),
         NEW b \in DOMAIN g.code, NEW i \in 0..Len(g.code[b])
  PROVE  FactsOver(f, Known(g, b, i))
<1> DEFINE F == Known(g, b, i)
<1>1. /\ \A v, c : <<v, c>> \in F.var <=>
           \/ v \in LiveAfter(g)[b][i] /\ c = EnvOf(v)
           \/ \E r \in ToSet(CalleeSaved) : v = MemOf(r) /\ c = CallerOf(r)
      /\ F.mem = {} /\ F.reg = {}
      /\ F.goes = (i = 0 \/ g.code[b][i].op \notin {"branch", "ret"})
  BY KnownFacts
<1> HIDE DEF F
<1>2. LiveAfter(g)[b][i] \subseteq f.locals
  BY SourceLive, SourceNames DEF Source
<1>3. \A r \in ToSet(CalleeSaved) : MemOf(r) \in f.locals
  BY SourceNames DEF Copies
<1>4. FactsOver(f, F)
  BY <1>1, <1>2, <1>3, ContentsDiffer DEF FactsOver
<1> QED BY <1>4 DEF F

\* What is known before an instruction, and after it, in the source.
Around(g, in, F, G) ==
  /\ \A v, c : <<v, c>> \in G.var /\ v = in.def => c = EnvOf(in.def)
  /\ \A v, c : <<v, c>> \in G.var /\ v # in.def => <<v, c>> \in F.var /\ c # EnvOf(in.def)
  /\ \A v, c : <<v, c>> \in G.var => v \in VariablesOf(g) \cup Copies
  /\ \A v, c : <<v, c>> \in F.var => v \in VariablesOf(g) \cup Copies
  /\ \A k \in DOMAIN in.uses : <<in.uses[k], EnvOf(in.uses[k])>> \in F.var
  /\ \A r \in ToSet(CalleeSaved) : <<MemOf(r), CallerOf(r)>> \in F.var
  /\ F.mem = {} /\ F.reg = {} /\ F.goes = TRUE
  /\ G.mem = {} /\ G.reg = {} /\ G.goes = (in.op \notin {"branch", "ret"})

\* From one point of a block to the next.
LEMMA KnownAround ==
  ASSUME NEW g, Source(g), NEW b \in DOMAIN g.code, NEW i \in 1..Len(g.code[b]),
         NEW in, in = g.code[b][i],
         NEW F, F = Known(g, b, i - 1), NEW G, G = Known(g, b, i)
  PROVE  Around(g, in, F, G)
<1> DEFINE f == CreateRegisters(g)
           after == LiveAfter(g)[b][i]
           before == LiveAfter(g)[b][i - 1]
<1>1. /\ \A v, c : <<v, c>> \in G.var <=>
           \/ v \in after /\ c = EnvOf(v)
           \/ \E r \in ToSet(CalleeSaved) : v = MemOf(r) /\ c = CallerOf(r)
      /\ G.mem = {} /\ G.reg = {}
      /\ G.goes = (i = 0 \/ g.code[b][i].op \notin {"branch", "ret"})
  BY KnownFacts
<1>2. /\ \A v, c : <<v, c>> \in F.var <=>
           \/ v \in before /\ c = EnvOf(v)
           \/ \E r \in ToSet(CalleeSaved) : v = MemOf(r) /\ c = CallerOf(r)
      /\ F.mem = {} /\ F.reg = {}
      /\ F.goes = (i - 1 = 0 \/ g.code[b][i - 1].op \notin {"branch", "ret"})
  BY KnownFacts
<1>3. Len(g.code[b]) \in Nat
  BY DEF Source, WellFormed
<1>4. i - 1 \in 0..Len(g.code[b]) /\ i \in 0..Len(g.code[b]) /\ i # 0
  BY <1>3
<1>5. before = (after \ {in.def}) \cup ToSet(in.uses) /\ after \subseteq VariablesOf(g)
      /\ before \subseteq VariablesOf(g)
  BY <1>4, SourceLive DEF Source
<1>6. in.def \in VariablesOf(g) \cup {None} /\ in.uses \in Seq(VariablesOf(g))
  BY SourceInstruction DEF Source
<1>7. VariablesOf(g) \cap Copies = {} /\ None \notin Copies
  BY SourceNames
<1>8. \A r \in ToSet(CalleeSaved) : MemOf(r) \in Copies
  BY DEF Copies
<1>9. F.goes = TRUE
  <2>1. ASSUME i - 1 # 0 PROVE g.code[b][i - 1].op \notin {"branch", "ret"}
    <3>1. i - 1 \in 1..Len(g.code[b]) /\ i - 1 # Len(g.code[b])
      BY <1>3, <2>1
    <3>2. g.code[b][i - 1].op \in {"branch", "ret"} => i - 1 = Len(g.code[b])
      BY <3>1, SourceInstruction DEF Source
    <3> QED BY <3>1, <3>2
  <2> QED BY <1>2, <2>1
<1> HIDE DEF before, after
<1>10. \A v, c : <<v, c>> \in G.var /\ v = in.def => c = EnvOf(in.def)
  BY <1>1, <1>6, <1>7, <1>8
<1>11. \A v, c : <<v, c>> \in G.var /\ v # in.def => <<v, c>> \in F.var /\ c # EnvOf(in.def)
  BY <1>1, <1>2, <1>5, ContentsDiffer
<1>12. \A v, c : <<v, c>> \in G.var \/ <<v, c>> \in F.var => v \in VariablesOf(g) \cup Copies
  BY <1>1, <1>2, <1>5, <1>8
<1>13. \A k \in DOMAIN in.uses : <<in.uses[k], EnvOf(in.uses[k])>> \in F.var
  <2>1. \A k \in DOMAIN in.uses : in.uses[k] \in before
    BY <1>5 DEF ToSet
  <2> QED BY <1>2, <2>1
<1>14. \A r \in ToSet(CalleeSaved) : <<MemOf(r), CallerOf(r)>> \in F.var
  BY <1>2
<1> QED BY <1>1, <1>2, <1>4, <1>9, <1>10, <1>11, <1>12, <1>13, <1>14 DEF Around

LEMMA OneElement ==
  ASSUME NEW S, NEW s \in Seq(S), Len(s) = 1
  PROVE  s # <<>> /\ 1 \in DOMAIN s
OBVIOUS

\* A computation, a move or a branch stays as it is.
LEMMA PlainLeads ==
  ASSUME NEW g, Source(g), NEW f, f = CreateRegisters(g),
         NEW b \in DOMAIN g.code, NEW i \in 1..Len(g.code[b]),
         NEW in, in = g.code[b][i], in.op \notin {"call", "ret"}
  PROVE  Leads(g, f, <<in>>, Known(g, b, i - 1), Known(g, b, i))
<1> DEFINE F == Known(g, b, i - 1)
           G == Known(g, b, i)
<1>0. Around(g, in, F, G)
  BY KnownAround
<1>2. Len(g.code[b]) \in Nat
  BY DEF Source, WellFormed
<1>3. FactsOver(f, F) /\ FactsOver(f, G)
  <2>1. i - 1 \in 0..Len(g.code[b]) /\ i \in 0..Len(g.code[b])
    BY <1>2
  <2> QED BY <2>1, KnownOver
<1> HIDE DEF F, G
<1>1. /\ \A v, c : <<v, c>> \in G.var /\ v = in.def => c = EnvOf(in.def)
      /\ \A v, c : <<v, c>> \in G.var /\ v # in.def => <<v, c>> \in F.var /\ c # EnvOf(in.def)
      /\ \A v, c : <<v, c>> \in G.var => v \in VariablesOf(g) \cup Copies
      /\ \A k \in DOMAIN in.uses : <<in.uses[k], EnvOf(in.uses[k])>> \in F.var
      /\ F.goes = TRUE /\ G.mem = {} /\ G.reg = {} /\ G.goes = (in.op \notin {"branch", "ret"})
  BY <1>0 DEF Around
<1>4. /\ in.def \in VariablesOf(g) \cup {None} /\ in.uses \in Seq(VariablesOf(g))
      /\ in.id # 0 /\ Origin(g, in.id) = in
      /\ in.op \in {"op", "move", "call", "branch", "ret"}
      /\ in.op \in {"branch", "ret"} => in.def = None
      /\ in.op = "move" => Len(in.uses) = 1
      /\ in \in Instructions(g)
  BY SourceInstruction DEF Source
<1>5. ~IsInsert(in)
  BY <1>4 DEF IsInsert
<1>6. \A c : Changes(g, in, c) <=> in.def # None /\ c = EnvOf(in.def)
  BY <1>4, <1>5 DEF Changes
<1>7. None \notin VariablesOf(g) \cup Copies
  BY SourceNames
<1>8. Step(g, in, F, G)
  <2>1. ASSUME NEW v, NEW c, <<v, c>> \in G.var PROVE VarAfter(g, in, F, v, c)
    <3>1. CASE v = in.def
      <4>1. c = EnvOf(in.def) /\ in.def # None
        BY <1>1, <1>7, <2>1, <3>1
      <4>2. in.op \in {"op", "move", "call"}
        BY <1>4, <4>1
      <4> QED BY <1>5, <1>6, <3>1, <4>1, <4>2 DEF VarAfter, Result
    <3>2. CASE v # in.def
      BY <1>1, <1>6, <2>1, <3>2 DEF VarAfter
    <3> QED BY <3>1, <3>2
  <2> QED BY <1>1, <2>1 DEF Step
<1>9. Enough(g, f, in, F)
  <2>1. \A k \in DOMAIN in.uses : OperandAt(g, in, F, k)
    BY <1>1, <1>4 DEF OperandAt
  <2>2. in.op = "move" => in.uses # <<>> /\ 1 \in DOMAIN in.uses
    BY <1>4, OneElement
  <2>3. SourceWell(g, in, F)
    BY <1>4, <2>1, <2>2 DEF SourceWell
  <2> QED BY <1>1, <1>5, <2>3 DEF Enough
<1>10. Leads(g, f, <<in>>, F, G)
  BY <1>3, <1>8, <1>9, LeadsOne
<1> QED BY <1>10 DEF F, G

LEMMA KnownShape ==
  ASSUME NEW g, NEW b, NEW i, Known(g, b, i).goes = TRUE, NEW F, F = Known(g, b, i)
  PROVE  F = Facts(F.var, F.mem, {}, TRUE)
BY DEF Known, Facts

LEMMA GatheredShape ==
  ASSUME NEW F, NEW k, NEW D, NEW C, NEW M, NEW G, G = Gathered(F, k, D, C, M, FALSE)
  PROVE  G = Facts(G.var, G.mem, {}, TRUE)
BY DEF Gathered, Facts

\* A return leaves its value in the result register and puts the callee-saved
\* registers back.
LEMMA ReturnLeads ==
  ASSUME NEW g, Source(g), NEW f, f = CreateRegisters(g),
         NEW b \in DOMAIN g.code, NEW i \in 1..Len(g.code[b]),
         NEW in, in = g.code[b][i], in.op = "ret"
  PROVE  Leads(g, f, RewriteReturn(in), Known(g, b, i - 1), Known(g, b, i))
<1> DEFINE F == Known(g, b, i - 1)
           G == Known(g, b, i)
           a0 == ArgRegs[1]
           value == IF in.uses = <<>> THEN <<>> ELSE <<Move(ArgRegs[1], in.uses[1])>>
           restores == [k \in DOMAIN CalleeSaved |-> Move(CalleeSaved[k], MemOf(CalleeSaved[k]))]
           uses == IF in.uses = <<>> THEN <<>> ELSE <<ArgRegs[1]>>
           ret == Instr(in.id, in.op, in.def, uses, in.mem)
           m == Len(CalleeSaved)
<1>0. Around(g, in, F, G)
  BY KnownAround
<1>1. Len(g.code[b]) \in Nat
  BY DEF Source, WellFormed
<1>2. FactsOver(f, F) /\ FactsOver(f, G) /\ F = Facts(F.var, F.mem, {}, TRUE)
  <2>1. i - 1 \in 0..Len(g.code[b]) /\ i \in 0..Len(g.code[b])
    BY <1>1
  <2>2. F.goes = TRUE
    BY <1>0 DEF Around
  <2> QED BY <2>1, <2>2, KnownOver, KnownShape
<1>3. /\ in = Instr(in.id, in.op, in.def, in.uses, in.mem)
      /\ in.uses \in Seq(VariablesOf(g)) /\ Len(in.uses) <= 1 /\ in.def = None
      /\ in.id # 0 /\ Origin(g, in.id) = in /\ in \in Instructions(g)
  BY SourceInstruction DEF Source
<1>4. RewriteReturn(in) = value \o restores \o <<ret>>
  <2>1. [in EXCEPT !.uses = uses] = ret
    <3> HIDE DEF uses
    <3> QED BY <1>3, InstructionFields
  <2>2. RewriteReturn(in) = value \o restores \o <<[in EXCEPT !.uses = uses]>>
    BY DEF RewriteReturn
  <2> QED BY <2>1, <2>2
<1>5. ret.id = in.id /\ ret.op = "ret" /\ ret.def = None /\ ret.uses = uses
  BY <1>3 DEF Instr
<1>6. in.uses # <<>> => DOMAIN in.uses = {1}
  BY <1>3
<1>7. /\ None \notin f.locals /\ Reg \subseteq f.locals /\ a0 \in Reg /\ a0 \notin ToSet(CalleeSaved)
      /\ (VariablesOf(g) \cup Copies) \cap Reg = {}
  <2>1. a0 \in Reg /\ a0 \in ToSet(ArgRegs)
    BY RegistersAre, RegisterAssumption DEF ToSet
  <2> QED BY <2>1, SourceNames, CallingConvention
<1>8. /\ m \in Nat /\ DOMAIN CalleeSaved = 1..m
      /\ \A k \in 1..m : CalleeSaved[k] \in Reg /\ CalleeSaved[k] \in ToSet(CalleeSaved)
  BY RegistersAre
<1> HIDE DEF F, G, a0, value, restores, ret, m
\* The value.
<1>9. \E H : /\ Leads(g, f, value, F, H) /\ FactsOver(f, H)
             /\ H = Facts(H.var, H.mem, {}, TRUE) /\ H.mem = {}
             /\ \A v, c : <<v, c>> \in H.var <=>
                  \/ <<v, c>> \in F.var
                  \/ in.uses # <<>> /\ v = a0 /\ c = EnvOf(in.uses[1])
  <2>1. CASE in.uses = <<>>
    <3>1. value = <<>>
      BY <2>1 DEF value
    <3>2. Leads(g, f, <<>>, F, F)
      BY <1>2, LeadsEmpty
    <3> QED BY <1>0, <1>2, <2>1, <3>1, <3>2 DEF Around
  <2>2. CASE in.uses # <<>>
    <3> DEFINE D == <<a0>>
               S == <<in.uses[1]>>
               C == <<EnvOf(in.uses[1])>>
               mv == Move(a0, in.uses[1])
               H == Gathered(F, 1, D, C, {}, FALSE)
    <3>1. value = <<mv>> /\ <<mv>> \in Seq({mv}) /\ Len(<<mv>>) = 1 /\ <<mv>>[1] = mv
      BY <2>2 DEF value, a0
    <3>2. Gathers(f, F, mv, 1, D, S, C, {}, FALSE)
      <4>1. <<in.uses[1], EnvOf(in.uses[1])>> \in F.var
        BY <1>0, <1>6, <2>2 DEF Around
      <4>2. \A c : <<a0, c>> \notin F.var
        BY <1>0, <1>7 DEF Around
      <4> QED BY <1>7, <4>1, <4>2, ContentsDiffer DEF Gathers
    <3>3. AllGather(f, F, 1, <<mv>>, D, S, C, {}, FALSE)
      <4> DEFINE s == <<mv>>
      <4>1. s[1] = mv /\ \A j \in 1..1 : j = 1
        OBVIOUS
      <4> HIDE DEF mv, D, S, C, s
      <4>2. AllGather(f, F, 1, s, D, S, C, {}, FALSE)
        BY <3>2, <4>1 DEF AllGather
      <4> QED BY <4>2 DEF s
    <3>4. \A j, k \in 1..1 : D[j] = D[k] => j = k
      OBVIOUS
    <3>5. /\ \A v, c : <<v, c>> \in H.var <=> \/ <<v, c>> \in F.var
                                              \/ \E j \in 1..1 : j \notin {} /\ v = D[j] /\ c = C[j]
          /\ \A v, c : <<v, c>> \in H.mem <=> \/ <<v, c>> \in F.mem
                                              \/ \E j \in 1..1 : j \in {} /\ v = D[j] /\ c = C[j]
          /\ \A v, c : <<v, c>> \in H.reg <=> FALSE /\ \E j \in 1..1 : v = D[j] /\ c = C[j]
          /\ H.goes = TRUE
      BY GatheredFacts
    <3>6. D[1] = a0 /\ C[1] = EnvOf(in.uses[1])
      OBVIOUS
    <3> HIDE DEF D, S, C, mv
    <3>7. Leads(g, f, <<mv>>, F, H) /\ FactsOver(f, H)
      BY <1>2, <1>7, <3>1, <3>3, <3>4, GatherLeads
    <3>8. H = Facts(H.var, H.mem, {}, TRUE)
      BY GatheredShape
    <3>9. H.mem = {}
      <4>1. H.mem = F.mem \cup {<<D[j], C[j]>> : j \in (1..1) \cap {}}
        BY DEF Gathered, Facts
      <4> QED BY <1>0, <4>1 DEF Around
    <3>10. \A v, c : <<v, c>> \in H.var <=>
             \/ <<v, c>> \in F.var
             \/ in.uses # <<>> /\ v = a0 /\ c = EnvOf(in.uses[1])
      <4>1. 1 \in 1..1 /\ \A j \in 1..1 : j = 1
        OBVIOUS
      <4>2. \A v, c : (\E j \in 1..1 : j \notin {} /\ v = D[j] /\ c = C[j]) <=> v = D[1] /\ c = C[1]
        BY <4>1
      <4> HIDE DEF H
      <4>3. \A v, c : <<v, c>> \in H.var <=>
               \/ <<v, c>> \in F.var
               \/ v = D[1] /\ c = C[1]
        <5> SUFFICES ASSUME NEW v, NEW c
                     PROVE  <<v, c>> \in H.var <=> \/ <<v, c>> \in F.var
                                                   \/ v = D[1] /\ c = C[1]
          OBVIOUS
        <5>1. <<v, c>> \in H.var <=> \/ <<v, c>> \in F.var
                                     \/ \E j \in 1..1 : j \notin {} /\ v = D[j] /\ c = C[j]
          BY <3>5
        <5> QED BY <4>1, <5>1
      <4> QED BY <2>2, <3>6, <4>3
    <3> HIDE DEF H
    <3> QED BY <3>1, <3>7, <3>8, <3>9, <3>10
  <2> QED BY <2>1, <2>2
<1>10. PICK H : /\ Leads(g, f, value, F, H) /\ FactsOver(f, H)
                /\ H = Facts(H.var, H.mem, {}, TRUE) /\ H.mem = {}
                /\ \A v, c : <<v, c>> \in H.var <=>
                     \/ <<v, c>> \in F.var
                     \/ in.uses # <<>> /\ v = a0 /\ c = EnvOf(in.uses[1])
  BY <1>9
\* The registers put back.
<1> DEFINE S == [k \in 1..m |-> MemOf(CalleeSaved[k])]
           C == [k \in 1..m |-> CallerOf(CalleeSaved[k])]
           J == Gathered(H, m, CalleeSaved, C, {}, TRUE)
<1>11. restores \in Seq({restores[k] : k \in 1..m}) /\ Len(restores) = m
       /\ \A k \in 1..m : restores[k] = Move(CalleeSaved[k], S[k])
  <2>1. restores \in [1..m -> {restores[k] : k \in 1..m}] /\ \A k \in 1..m : restores[k] = Move(CalleeSaved[k], S[k])
    BY <1>8 DEF restores
  <2>2. restores \in Seq({restores[k] : k \in 1..m})
    BY <1>8, <2>1, SeqIs
  <2> QED BY <1>8, <2>1, <2>2, LenProperties
<1>12. AllGather(f, H, m, restores, CalleeSaved, S, C, {}, TRUE)
  <2>1. ASSUME NEW k \in 1..m PROVE Gathers(f, H, restores[k], k, CalleeSaved, S, C, {}, TRUE)
    <3>1. /\ restores[k] = Move(CalleeSaved[k], S[k]) /\ S[k] = MemOf(CalleeSaved[k])
          /\ C[k] = CallerOf(CalleeSaved[k])
          /\ CalleeSaved[k] \in Reg /\ CalleeSaved[k] \in ToSet(CalleeSaved)
      BY <1>8, <1>11
    <3>2. <<S[k], C[k]>> \in H.var
      BY <1>0, <1>10, <3>1 DEF Around
    <3>3. \A c : <<CalleeSaved[k], c>> \notin H.var
      BY <1>0, <1>7, <1>10, <3>1 DEF Around
    <3>4. S[k] \in Copies
      BY <3>1 DEF Copies
    <3> HIDE DEF S, C
    <3> QED BY <1>7, <3>1, <3>2, <3>3, <3>4, ContentsDiffer DEF Gathers
  <2> QED BY <2>1 DEF AllGather
<1>13. \A j, k \in 1..m : CalleeSaved[j] = CalleeSaved[k] => j = k
  BY <1>8, CallingConvention DEF IsInjective
<1>14. /\ \A v, c : <<v, c>> \in J.var <=> \/ <<v, c>> \in H.var
                                           \/ \E j \in 1..m : j \notin {} /\ v = CalleeSaved[j] /\ c = C[j]
       /\ \A v, c : <<v, c>> \in J.mem <=> \/ <<v, c>> \in H.mem
                                           \/ \E j \in 1..m : j \in {} /\ v = CalleeSaved[j] /\ c = C[j]
       /\ \A v, c : <<v, c>> \in J.reg <=> TRUE /\ \E j \in 1..m : v = CalleeSaved[j] /\ c = C[j]
       /\ J.goes = TRUE
  BY GatheredFacts
<1>15. \A j \in 1..m : C[j] = CallerOf(CalleeSaved[j])
  OBVIOUS
<1> HIDE DEF S, C
<1>16. Leads(g, f, restores, H, J) /\ FactsOver(f, J)
  BY <1>7, <1>8, <1>10, <1>11, <1>12, <1>13, GatherLeads
<1> HIDE DEF J
\* The return.
<1>17. ~IsInsert(ret) /\ Origin(g, ret.id) = in /\ \A c : ~Changes(g, ret, c)
  BY <1>3, <1>5 DEF IsInsert, Changes
<1>18. Step(g, ret, J, G)
  <2>1. ASSUME NEW v, NEW c, <<v, c>> \in G.var PROVE VarAfter(g, ret, J, v, c)
    <3>1. v # None
      BY <1>0, <2>1, SourceNames DEF Around
    <3>2. <<v, c>> \in F.var
      BY <1>0, <1>3, <2>1, <3>1 DEF Around
    <3>3. <<v, c>> \in J.var
      BY <1>10, <1>14, <3>2
    <3> QED BY <1>5, <1>17, <3>1, <3>3 DEF VarAfter
  <2>2. G.goes = FALSE /\ G.mem = {} /\ G.reg = {}
    BY <1>0 DEF Around
  <2> QED BY <2>1, <2>2 DEF Step
<1>19. Enough(g, f, ret, J)
  <2>1. ASSUME NEW k \in DOMAIN in.uses PROVE OperandAt(g, ret, J, k)
    <3>1. in.uses # <<>> /\ k = 1
      BY <1>6
    <3>2. uses = <<a0>> /\ 1 \in DOMAIN uses /\ uses[1] = a0
      BY <3>1 DEF a0
    <3>3. <<a0, EnvOf(in.uses[1])>> \in J.var
      BY <1>10, <1>14, <3>1
    <3> QED BY <1>5, <1>17, <3>1, <3>2, <3>3 DEF OperandAt
  <2>2. ToSet(ret.uses) \subseteq Reg
    <3>1. CASE in.uses = <<>>
      BY <1>5, <3>1 DEF ToSet
    <3>2. CASE in.uses # <<>>
      BY <1>5, <1>7, <3>2 DEF ToSet, a0
    <3> QED BY <3>1, <3>2
  <2>3. \A r \in ToSet(CalleeSaved) : <<r, CallerOf(r)>> \in J.reg
    <3>1. ASSUME NEW r \in ToSet(CalleeSaved) PROVE \E j \in 1..m : r = CalleeSaved[j]
      BY <1>8 DEF ToSet
    <3> QED BY <1>14, <1>15, <3>1
  <2>4. SourceWell(g, ret, J)
    BY <1>3, <1>5, <1>17, <2>1, <2>2, <2>3 DEF SourceWell
  <2> QED BY <1>14, <1>17, <2>4 DEF Enough
<1>20. Leads(g, f, <<ret>>, J, G)
  BY <1>2, <1>16, <1>18, <1>19, LeadsOne
<1>21. Leads(g, f, value \o restores \o <<ret>>, F, G)
  <2> DEFINE W == {Move(ArgRegs[1], in.uses[1]), ret} \cup {restores[k] : k \in 1..m}
  <2>0. Move(ArgRegs[1], in.uses[1]) \in W /\ ret \in W
    OBVIOUS
  <2>1. value \in Seq(W) /\ <<ret>> \in Seq(W)
    <3> HIDE DEF W
    <3>1. CASE in.uses = <<>>
      BY <2>0, <3>1 DEF value
    <3>2. CASE in.uses # <<>>
      BY <2>0, <3>2 DEF value
    <3> QED BY <3>1, <3>2
  <2>2. restores \in Seq(W)
    <3>1. {restores[k] : k \in 1..m} \subseteq W
      OBVIOUS
    <3> HIDE DEF W
    <3> QED BY <1>11, <3>1, SeqMonotonic
  <2> DEFINE one == <<ret>>
             s == value \o restores
  <2> HIDE DEF W, one
  <2>3. Leads(g, f, s, F, J)
    BY <1>10, <1>16, <2>1, <2>2, LeadsBoth
  <2>4. s \in Seq(W) /\ one \in Seq(W)
    BY <2>1, <2>2, ConcatProperties DEF one
  <2> HIDE DEF s
  <2>5. Leads(g, f, s \o one, F, G)
    BY <1>20, <2>3, <2>4, LeadsBoth DEF one
  <2> QED BY <2>5 DEF s, one
<1> QED BY <1>4, <1>21 DEF F, G

\* What is known when the arguments are in place.
Passed(g, in, F, H) ==
  /\ \A v, c : <<v, c>> \in F.var => <<v, c>> \in H.var
  /\ \A j \in DOMAIN in.uses :
       IF j <= Len(ArgRegs) THEN <<ArgRegs[j], EnvOf(in.uses[j])>> \in H.var
       ELSE <<Argument(in, j), EnvOf(in.uses[j])>> \in H.mem
  /\ H.goes = TRUE

\* The moves and stores of the arguments of a call.
Passes(in) ==
  [j \in DOMAIN in.uses |->
     IF j <= Len(ArgRegs) THEN Move(ArgRegs[j], in.uses[j])
     ELSE Store(Argument(in, j), in.uses[j])]

LEMMA PassesLead ==
  ASSUME NEW g, Source(g), NEW f, f = CreateRegisters(g),
         NEW b \in DOMAIN g.code, NEW i \in 1..Len(g.code[b]),
         NEW in, in = g.code[b][i], in.op = "call",
         NEW F, F = Known(g, b, i - 1)
  PROVE  /\ \E V : Passes(in) \in Seq(V)
         /\ \E H : Leads(g, f, Passes(in), F, H) /\ FactsOver(f, H) /\ Passed(g, in, F, H)
<1> DEFINE n == Len(in.uses)
           A == Len(ArgRegs)
           M == {j \in 1..n : j > A}
           D == [j \in 1..n |-> IF j <= A THEN ArgRegs[j] ELSE Argument(in, j)]
           C == [j \in 1..n |-> EnvOf(in.uses[j])]
           s == Passes(in)
           H == Gathered(F, n, D, C, M, FALSE)
<1>0. Around(g, in, F, Known(g, b, i))
  BY KnownAround
<1>1. Len(g.code[b]) \in Nat
  BY DEF Source, WellFormed
<1>2. FactsOver(f, F) /\ F = Facts(F.var, F.mem, {}, TRUE)
  <2>1. i - 1 \in 0..Len(g.code[b])
    BY <1>1
  <2>2. F.goes = TRUE
    BY <1>0 DEF Around
  <2> QED BY <2>1, <2>2, KnownOver, KnownShape
<1>3. in.uses \in Seq(VariablesOf(g)) /\ in \in Instructions(g)
  BY SourceInstruction DEF Source
<1>4. n \in Nat /\ DOMAIN in.uses = 1..n
  BY <1>3
<1>5. A \in Nat /\ \A j \in 1..A : ArgRegs[j] \in Reg
  BY RegistersAre
<1>6. /\ None \notin f.locals /\ Reg \subseteq f.locals
      /\ (VariablesOf(g) \cup Copies) \cap Reg = {}
  BY SourceNames
<1>7. \A j, k \in 1..n : StackObject(f, Argument(in, j)) /\ (Argument(in, j) = Argument(in, k) => j = k)
  <2>1. ObjectNames(g)
    BY DEF Source
  <2>2. \A j, k \in DOMAIN in.uses :
          /\ StackObject(f, Argument(in, j))
          /\ Argument(in, j) = Argument(in, k) => j = k
    BY <1>3, <2>1 DEF ObjectNames
  <2> QED BY <1>4, <2>2
<1>8. \A j \in 1..n : /\ j <= A => D[j] = ArgRegs[j] /\ s[j] = Move(D[j], in.uses[j]) /\ j \notin M
                                   /\ D[j] \in Reg
                      /\ j > A => D[j] = Argument(in, j) /\ s[j] = Store(D[j], in.uses[j]) /\ j \in M
                      /\ C[j] = EnvOf(in.uses[j])
  <2>1. \A j \in 1..n : D[j] = (IF j <= A THEN ArgRegs[j] ELSE Argument(in, j)) /\ C[j] = EnvOf(in.uses[j])
    OBVIOUS
  <2>2. \A j \in 1..n : s[j] = IF j <= A THEN Move(ArgRegs[j], in.uses[j])
                               ELSE Store(Argument(in, j), in.uses[j])
    BY <1>4 DEF Passes
  <2>3. \A j \in 1..n : j \in M <=> j > A
    OBVIOUS
  <2> HIDE DEF D, C, M, s
  <2>4. ASSUME NEW j \in 1..n, j <= A
        PROVE  D[j] = ArgRegs[j] /\ s[j] = Move(D[j], in.uses[j]) /\ j \notin M /\ D[j] \in Reg
    <3>1. j \in 1..A /\ ~(j > A)
      BY <1>4, <1>5, <2>4
    <3> QED BY <1>5, <2>1, <2>2, <2>3, <2>4, <3>1
  <2>5. ASSUME NEW j \in 1..n, j > A
        PROVE  D[j] = Argument(in, j) /\ s[j] = Store(D[j], in.uses[j]) /\ j \in M
    <3>1. ~(j <= A)
      BY <1>4, <1>5, <2>5
    <3> QED BY <2>1, <2>2, <2>3, <2>5, <3>1
  <2> QED BY <2>1, <2>4, <2>5
<1>9. s \in Seq({s[j] : j \in 1..n}) /\ Len(s) = n
  <2>1. s \in [1..n -> {s[j] : j \in 1..n}]
    BY <1>4 DEF Passes
  <2>2. s \in Seq({s[j] : j \in 1..n})
    BY <1>4, <2>1, SeqIs
  <2> QED BY <1>4, <2>1, <2>2, LenProperties
<1>10. \A j \in 1..n : j <= A \/ j > A
  BY <1>4, <1>5
<1>11. ASSUME NEW j \in 1..n PROVE Gathers(f, F, s[j], j, D, in.uses, C, M, FALSE)
  <2>1. <<in.uses[j], C[j]>> \in F.var
    BY <1>0, <1>4, <1>8 DEF Around
  <2>2. \A q : C[j] # AddressOf(q)
    BY <1>8, ContentsDiffer
  <2>3. CASE j <= A
    <3>1. D[j] \in Reg /\ s[j] = Move(D[j], in.uses[j]) /\ j \notin M
      BY <1>8, <2>3
    <3>2. \A c : <<D[j], c>> \notin F.var
      BY <1>0, <1>6, <3>1 DEF Around
    <3>3. D[j] \in f.locals
      BY <1>6, <3>1
    <3> HIDE DEF D, C, M, s
    <3> QED BY <2>1, <2>2, <3>1, <3>2, <3>3 DEF Gathers
  <2>4. CASE j > A
    <3>1. StackObject(f, D[j]) /\ s[j] = Store(D[j], in.uses[j]) /\ j \in M
      BY <1>7, <1>8, <2>4
    <3>2. \A c : <<D[j], c>> \notin F.mem
      BY <1>0 DEF Around
    <3> HIDE DEF D, C, M, s
    <3> QED BY <2>1, <2>2, <3>1, <3>2 DEF Gathers
  <2> QED BY <1>10, <2>3, <2>4
<1>12. ASSUME NEW j \in 1..n, NEW k \in 1..n, D[j] = D[k] PROVE j = k
  <2>1. CASE j <= A /\ k <= A
    <3>1. j \in DOMAIN ArgRegs /\ k \in DOMAIN ArgRegs
      BY <1>5, <2>1, RegisterAssumption
    <3> QED BY <1>8, <1>12, <2>1, <3>1, CallingConvention DEF IsInjective
  <2>2. CASE j > A /\ k > A
    <3>1. Argument(in, j) = Argument(in, k)
      BY <1>8, <1>12, <2>2
    <3> QED BY <1>7, <3>1
  <2>3. CASE j <= A /\ k > A
    BY <1>6, <1>7, <1>8, <1>12, <2>3 DEF StackObject
  <2>4. CASE j > A /\ k <= A
    BY <1>6, <1>7, <1>8, <1>12, <2>4 DEF StackObject
  <2> QED BY <1>10, <2>1, <2>2, <2>3, <2>4
<1>13. AllGather(f, F, n, s, D, in.uses, C, M, FALSE)
  <2> HIDE DEF D, C, M, s
  <2> QED BY <1>11 DEF AllGather
<1> HIDE DEF D, C, M, s
<1>14. /\ \A v, c : <<v, c>> \in H.var <=> \/ <<v, c>> \in F.var
                                           \/ \E j \in 1..n : j \notin M /\ v = D[j] /\ c = C[j]
       /\ \A v, c : <<v, c>> \in H.mem <=> \/ <<v, c>> \in F.mem
                                           \/ \E j \in 1..n : j \in M /\ v = D[j] /\ c = C[j]
       /\ H.goes = TRUE
  <2>1. GatherIs(H, F, n, D, C, M)
    BY GatheredIs
  <2> HIDE DEF H, n
  <2> QED BY <2>1 DEF GatherIs
<1>15. Leads(g, f, s, F, H) /\ FactsOver(f, H)
  <2>1. \A j, k \in 1..n : D[j] = D[k] => j = k
    BY <1>12
  <2> QED BY <1>2, <1>6, <1>9, <1>13, <2>1, GatherLeads
<1> HIDE DEF H
<1>16. Passed(g, in, F, H)
  <2>1. ASSUME NEW j \in 1..n
        PROVE  IF j <= A THEN <<ArgRegs[j], EnvOf(in.uses[j])>> \in H.var
               ELSE <<Argument(in, j), EnvOf(in.uses[j])>> \in H.mem
    <3>1. CASE j <= A
      <4>1. D[j] = ArgRegs[j] /\ C[j] = EnvOf(in.uses[j]) /\ j \notin M
        BY <1>8, <3>1
      <4> QED BY <1>14, <3>1, <4>1
    <3>2. CASE j > A
      <4>1. D[j] = Argument(in, j) /\ C[j] = EnvOf(in.uses[j]) /\ j \in M
        BY <1>8, <3>2
      <4>2. ~(j <= A)
        BY <1>4, <1>5, <3>2
      <4> QED BY <1>14, <4>1, <4>2
    <3> QED BY <1>10, <3>1, <3>2
  <2> QED BY <1>4, <1>14, <2>1 DEF Passed
<1> QED BY <1>9, <1>15, <1>16 DEF s

\* A call finds its arguments in place and leaves its result where it belongs.
LEMMA CallLeads ==
  ASSUME NEW g, Source(g), NEW f, f = CreateRegisters(g),
         NEW b \in DOMAIN g.code, NEW i \in 1..Len(g.code[b]),
         NEW in, in = g.code[b][i], in.op = "call"
  PROVE  Leads(g, f, RewriteCall(in), Known(g, b, i - 1), Known(g, b, i))
<1> DEFINE F == Known(g, b, i - 1)
           G == Known(g, b, i)
           a0 == ArgRegs[1]
           m == IF Len(in.uses) < Len(ArgRegs) THEN Len(in.uses) ELSE Len(ArgRegs)
           def == IF in.def = None THEN None ELSE ArgRegs[1]
           uses == SubSeq(ArgRegs, 1, m)
           call == Instr(in.id, in.op, def, uses, in.mem)
           result == IF in.def = None THEN <<>> ELSE <<Move(in.def, ArgRegs[1])>>
<1>0. Around(g, in, F, G)
  BY KnownAround
<1>1. Len(g.code[b]) \in Nat
  BY DEF Source, WellFormed
<1>2. FactsOver(f, F) /\ FactsOver(f, G)
  <2>1. i - 1 \in 0..Len(g.code[b]) /\ i \in 0..Len(g.code[b])
    BY <1>1
  <2> QED BY <2>1, KnownOver
<1>3. /\ in.def \in VariablesOf(g) \cup {None} /\ in.uses \in Seq(VariablesOf(g))
      /\ in.id # 0 /\ Origin(g, in.id) = in /\ in \in Instructions(g)
  BY SourceInstruction DEF Source
<1>4. RewriteCall(in) = Passes(in) \o <<call>> \o result
  BY DEF RewriteCall, Passes, Argument
<1>5. call.id = in.id /\ call.op = "call" /\ call.def = def /\ call.uses = uses
  BY DEF Instr
<1>6. /\ None \notin f.locals /\ Reg \subseteq f.locals /\ a0 \in Reg
      /\ VariablesOf(g) \subseteq f.locals
      /\ (VariablesOf(g) \cup Copies) \cap Reg = {} /\ None \notin VariablesOf(g) \cup Copies
  BY SourceNames, RegistersAre
<1>7. /\ DOMAIN uses = 1..m /\ m \in Nat /\ \A k \in 1..m : uses[k] = ArgRegs[k] /\ k <= Len(ArgRegs)
      /\ \A k \in DOMAIN in.uses : k \notin 1..m => ~(k <= Len(ArgRegs))
  <2>1. Len(in.uses) \in Nat /\ DOMAIN in.uses = 1..Len(in.uses)
    BY <1>3
  <2>2. Len(ArgRegs) \in Nat /\ ArgRegs \in Seq(Reg)
    BY RegistersAre, RegisterAssumption
  <2>3. m \in 0..Len(ArgRegs)
    BY <2>1, <2>2
  <2> HIDE DEF m
  <2>4. DOMAIN uses = 1..m /\ \A k \in 1..m : uses[k] = ArgRegs[k]
    BY <2>2, <2>3, SubSeqProperties
  <2>5. \A k \in 1..Len(in.uses) : k \notin 1..m => ~(k <= Len(ArgRegs))
    BY <2>1, <2>2 DEF m
  <2> QED BY <2>1, <2>2, <2>3, <2>4, <2>5
<1>8. PICK V : Passes(in) \in Seq(V)
  BY PassesLead
<1>9. PICK H : Leads(g, f, Passes(in), F, H) /\ FactsOver(f, H) /\ Passed(g, in, F, H)
  BY PassesLead
<1> HIDE DEF F, G, call, result, uses, m
<1>10. ~IsInsert(call) /\ \A c : Changes(g, call, c) <=> in.def # None /\ c = EnvOf(in.def)
  BY <1>3, <1>5 DEF IsInsert, Changes
<1>11. Enough(g, f, call, H)
  <2>1. ASSUME NEW k \in DOMAIN in.uses PROVE OperandAt(g, call, H, k)
    <3>1. Origin(g, call.id) = in
      BY <1>3, <1>5
    <3>2. CASE k \in 1..m
      BY <1>5, <1>7, <1>9, <3>1, <3>2 DEF OperandAt, Passed
    <3>3. CASE k \notin 1..m
      <4>1. <<Argument(in, k), EnvOf(in.uses[k])>> \in H.mem
        BY <1>7, <1>9, <3>3 DEF Passed
      <4> QED BY <1>5, <1>7, <3>1, <3>3, <4>1 DEF OperandAt, Argument
    <3> QED BY <3>2, <3>3
  <2>2. SourceWell(g, call, H)
    BY <1>3, <1>5, <2>1 DEF SourceWell
  <2> QED BY <1>9, <1>10, <2>2 DEF Enough, Passed
\* What is known after the call: the result is still in its register.
<1>12. CASE in.def = None
  <2>1. call.def = None /\ result = <<>>
    BY <1>5, <1>12 DEF result
  <2>2. Step(g, call, H, G)
    <3>1. ASSUME NEW v, NEW c, <<v, c>> \in G.var PROVE VarAfter(g, call, H, v, c)
      <4>1. v \in VariablesOf(g) \cup Copies
        BY <1>0, <3>1 DEF Around
      <4>2. v # None /\ v \notin CallerSaved
        BY <1>6, <4>1, RegisterAssumption
      <4>3. <<v, c>> \in H.var
        BY <1>0, <1>9, <1>12, <3>1, <4>2 DEF Around, Passed
      <4> QED BY <1>10, <1>12, <2>1, <4>2, <4>3 DEF VarAfter
    <3>2. G.mem = {} /\ G.reg = {}
      BY <1>0 DEF Around
    <3> QED BY <1>5, <3>1, <3>2 DEF Step
  <2>3. Leads(g, f, <<call>>, H, G)
    BY <1>2, <1>9, <1>11, <2>2, LeadsOne
  <2> DEFINE s == Passes(in)
             W == V \cup {call}
             one == <<call>>
  <2>4. s \in Seq(W) /\ one \in Seq(W)
    BY <1>8, SeqMonotonic
  <2>5. s \o one \o <<>> = s \o one
    <3> HIDE DEF s, one, W
    <3>1. s \o one \in Seq(W)
      BY <2>4, ConcatProperties
    <3> DEFINE t == s \o one
    <3> HIDE DEF t
    <3>2. t \in Seq(W) => t \o <<>> = t
      BY ConcatEmptySeq
    <3> QED BY <3>1, <3>2 DEF t
  <2> HIDE DEF W, s, one
  <2>6. Leads(g, f, s \o one, F, G)
    BY <1>9, <2>3, <2>4, LeadsBoth DEF s, one
  <2>7. RewriteCall(in) = s \o one \o <<>>
    BY <1>4, <2>1 DEF s, one
  <2> QED BY <2>5, <2>6, <2>7 DEF F, G
<1>13. CASE in.def # None
  <2> DEFINE J == Facts({x \in F.var : x[2] # EnvOf(in.def)} \cup {<<a0, EnvOf(in.def)>>}, {}, {}, TRUE)
             mv == Move(in.def, a0)
  <2>1. call.def = a0 /\ result = <<mv>> /\ in.def \in VariablesOf(g)
    BY <1>3, <1>5, <1>13 DEF result
  <2>2. /\ \A v, c : <<v, c>> \in J.var <=>
             \/ <<v, c>> \in F.var /\ c # EnvOf(in.def)
             \/ v = a0 /\ c = EnvOf(in.def)
        /\ J.mem = {} /\ J.reg = {} /\ J.goes = TRUE
    BY DEF Facts
  <2>3. mv.id = 0 /\ mv.op = "move" /\ mv.def = in.def /\ mv.uses = <<a0>> /\ mv.mem = None
    BY DEF Move, Instr
  <2> HIDE DEF J, mv
  <2>4. FactsOver(f, J)
    BY <1>2, <1>6, <2>2, ContentsDiffer DEF FactsOver
  <2>5. Step(g, call, H, J)
    <3>1. ASSUME NEW v, NEW c, <<v, c>> \in J.var PROVE VarAfter(g, call, H, v, c)
      <4>1. CASE v = a0
        <5>1. c = EnvOf(in.def)
          BY <1>0, <1>6, <2>2, <3>1, <4>1 DEF Around
        <5> QED BY <1>5, <1>10, <1>13, <2>1, <4>1, <5>1 DEF VarAfter, Result
      <4>2. CASE v # a0
        <5>1. <<v, c>> \in F.var /\ c # EnvOf(in.def)
          BY <2>2, <3>1, <4>2
        <5>2. v \in VariablesOf(g) \cup Copies /\ <<v, c>> \in H.var
          BY <1>0, <1>9, <5>1 DEF Around, Passed
        <5>3. v \notin CallerSaved
          BY <1>6, <5>2, RegisterAssumption
        <5> QED BY <1>10, <2>1, <4>2, <5>1, <5>2, <5>3 DEF VarAfter
      <4> QED BY <4>1, <4>2
    <3> QED BY <1>5, <2>2, <3>1 DEF Step
  <2>6. IsInsert(mv) /\ \A c : ~Changes(g, mv, c)
    BY <2>3 DEF IsInsert, Changes
  <2>7. Step(g, mv, J, G)
    <3>1. ASSUME NEW v, NEW c, <<v, c>> \in G.var PROVE VarAfter(g, mv, J, v, c)
      <4>1. CASE v = in.def
        <5>1. c = EnvOf(in.def)
          BY <1>0, <3>1, <4>1 DEF Around
        <5>2. <<a0, c>> \in J.var
          BY <2>2, <5>1
        <5> QED BY <2>3, <2>6, <4>1, <5>2 DEF VarAfter, Result
      <4>2. CASE v # in.def
        <5>1. <<v, c>> \in J.var
          BY <1>0, <2>2, <3>1, <4>2 DEF Around
        <5> QED BY <2>3, <2>6, <4>2, <5>1 DEF VarAfter
      <4> QED BY <4>1, <4>2
    <3>2. G.mem = {} /\ G.reg = {}
      BY <1>0 DEF Around
    <3> QED BY <2>3, <3>1, <3>2 DEF Step
  <2>8. Enough(g, f, mv, J)
    <3>1. InsertedWell(f, mv, J)
      BY <1>13, <2>3 DEF InsertedWell
    <3> QED BY <2>2, <2>6, <3>1 DEF Enough
  <2>9. Leads(g, f, <<call>>, H, J)
    BY <1>9, <1>11, <2>4, <2>5, LeadsOne
  <2>10. Leads(g, f, <<mv>>, J, G)
    BY <1>2, <2>4, <2>7, <2>8, LeadsOne
  <2> DEFINE s == Passes(in)
             W == V \cup {call, mv}
             one == <<call>>
             last == <<mv>>
  <2>11. s \in Seq(W) /\ one \in Seq(W) /\ last \in Seq(W)
    BY <1>8, SeqMonotonic
  <2> HIDE DEF W, s, one, last
  <2>12. Leads(g, f, s \o one, F, J)
    BY <1>9, <2>9, <2>11, LeadsBoth DEF s, one
  <2>13. s \o one \in Seq(W)
    BY <2>11, ConcatProperties
  <2> DEFINE t == s \o one
  <2> HIDE DEF t
  <2>14. Leads(g, f, t \o last, F, G)
    BY <2>10, <2>11, <2>12, <2>13, LeadsBoth DEF t, last
  <2>15. RewriteCall(in) = t \o last
    BY <1>4, <2>1 DEF s, one, t, last
  <2> QED BY <2>14, <2>15 DEF F, G
<1> QED BY <1>12, <1>13

ArrivalIs(g, f, F) ==
  /\ \A v, c : <<v, c>> \in F.var <=>
       \/ \E j \in DOMAIN g.params : j <= Len(ArgRegs) /\ v = ArgRegs[j] /\ c = EnvOf(g.params[j])
       \/ \E r \in ToSet(CalleeSaved) : v = r /\ c = CallerOf(r)
  /\ \A s, c : <<s, c>> \in F.mem <=>
       \E j \in DOMAIN g.params :
         j > Len(ArgRegs) /\ s = MemOf(g.params[j]) /\ c = EnvOf(g.params[j])
  /\ \A v, c : <<v, c>> \in F.var => v \in Reg
  /\ F = Facts(F.var, F.mem, {}, TRUE)
  /\ FactsOver(f, F)

LEMMA ArrivalFacts ==
  ASSUME NEW g, Source(g), NEW f, f = CreateRegisters(g), NEW F, F = Arrival(g)
  PROVE  ArrivalIs(g, f, F)
<1> DEFINE low == {k \in DOMAIN g.params : k <= Len(ArgRegs)}
           high == {k \in DOMAIN g.params : k > Len(ArgRegs)}
<1>1. /\ F.var = {<<ArgRegs[j], EnvOf(g.params[j])>> : j \in low}
                    \cup {<<r, CallerOf(r)>> : r \in ToSet(CalleeSaved)}
      /\ F.mem = {<<MemOf(g.params[j]), EnvOf(g.params[j])>> : j \in high}
      /\ F.reg = {} /\ F.goes = TRUE /\ F = Facts(F.var, F.mem, {}, TRUE)
  BY DEF Arrival, Facts
<1>2. \A v, c : <<v, c>> \in F.var <=>
              \/ \E j \in DOMAIN g.params : j <= Len(ArgRegs) /\ v = ArgRegs[j] /\ c = EnvOf(g.params[j])
              \/ \E r \in ToSet(CalleeSaved) : v = r /\ c = CallerOf(r)
  BY <1>1
<1>3. \A s, c : <<s, c>> \in F.mem <=>
              \E j \in DOMAIN g.params :
                j > Len(ArgRegs) /\ s = MemOf(g.params[j]) /\ c = EnvOf(g.params[j])
  BY <1>1
<1>4. \A j \in DOMAIN g.params : j <= Len(ArgRegs) => ArgRegs[j] \in Reg
  <2>1. DOMAIN g.params = 1..Len(g.params) /\ Len(g.params) \in Nat
    BY DEF Source, WellFormed
  <2> QED BY <2>1, RegistersAre
<1>5. \A v, c : <<v, c>> \in F.var => v \in Reg
  BY <1>2, <1>4, CalleeSavedAre
<1>6. \A j \in DOMAIN g.params : StackObject(f, MemOf(g.params[j]))
  BY DEF Source, ObjectNames
<1>7. FactsOver(f, F)
  <2>1. \A s, c : <<s, c>> \in F.mem => StackObject(f, s)
    BY <1>3, <1>6
  <2>2. \A v, s : <<v, AddressOf(s)>> \notin F.var \cup F.mem
    BY <1>2, <1>3, ContentsDiffer
  <2>3. \A v, c : <<v, c>> \in F.var => v \in f.locals
    BY <1>5, SourceNames
  <2> QED BY <1>1, <2>1, <2>2, <2>3 DEF FactsOver
<1> QED BY <1>1, <1>2, <1>3, <1>5, <1>7 DEF ArrivalIs

\* What is known when the callee-saved registers are copied.
Copied(F, H) ==
  /\ \A v, c : <<v, c>> \in H.var <=>
       \/ <<v, c>> \in F.var
       \/ \E r \in ToSet(CalleeSaved) : v = MemOf(r) /\ c = CallerOf(r)
  /\ \A s, c : <<s, c>> \in H.mem <=> <<s, c>> \in F.mem
  /\ H = Facts(H.var, H.mem, {}, TRUE)

LEMMA CopiesLead ==
  ASSUME NEW g, Source(g), NEW f, f = CreateRegisters(g), NEW F, F = Arrival(g), NEW s,
         s = [k \in DOMAIN CalleeSaved |->
                LET r == CalleeSaved[Len(CalleeSaved) + 1 - k] IN Move(MemOf(r), r)]
  PROVE  /\ \E V : s \in Seq(V)
         /\ \E H : Leads(g, f, s, F, H) /\ FactsOver(f, H) /\ Copied(F, H)
<1> DEFINE m == Len(CalleeSaved)
           S == [k \in 1..m |-> CalleeSaved[m + 1 - k]]
           D == [k \in 1..m |-> MemOf(S[k])]
           C == [k \in 1..m |-> CallerOf(S[k])]
           H == Gathered(F, m, D, C, {}, FALSE)
<1>1. /\ m \in Nat /\ DOMAIN CalleeSaved = 1..m
      /\ \A k \in 1..m : CalleeSaved[k] \in Reg /\ CalleeSaved[k] \in ToSet(CalleeSaved)
  BY RegistersAre
<1>2. \A k \in 1..m : m + 1 - k \in 1..m /\ m + 1 - (m + 1 - k) = k
  BY <1>1
<1>3. \A k \in 1..m : /\ S[k] = CalleeSaved[m + 1 - k]
                      /\ D[k] = MemOf(S[k]) /\ C[k] = CallerOf(S[k])
                      /\ s[k] = Move(D[k], S[k]) /\ S[k] \in ToSet(CalleeSaved)
  BY <1>1, <1>2
<1>4. s \in Seq({s[k] : k \in 1..m}) /\ Len(s) = m
  <2>1. s \in [1..m -> {s[k] : k \in 1..m}]
    BY <1>1
  <2>2. s \in Seq({s[k] : k \in 1..m})
    BY <1>1, <2>1, SeqIs
  <2> QED BY <1>1, <2>1, <2>2, LenProperties
<1>5. /\ \A v, c : <<v, c>> \in F.var <=>
           \/ \E j \in DOMAIN g.params : j <= Len(ArgRegs) /\ v = ArgRegs[j] /\ c = EnvOf(g.params[j])
           \/ \E r \in ToSet(CalleeSaved) : v = r /\ c = CallerOf(r)
      /\ \A v, c : <<v, c>> \in F.var => v \in Reg
      /\ F = Facts(F.var, F.mem, {}, TRUE)
      /\ FactsOver(f, F)
  <2>1. ArrivalIs(g, f, F)
    BY ArrivalFacts
  <2> QED BY <2>1 DEF ArrivalIs
<1>6. /\ None \notin f.locals /\ Reg \subseteq f.locals /\ Copies \subseteq f.locals
      /\ Copies \cap Reg = {}
  BY SourceNames
<1> HIDE DEF S, D, C, m
<1>7. AllGather(f, F, m, s, D, S, C, {}, FALSE)
  <2>1. ASSUME NEW k \in 1..m PROVE Gathers(f, F, s[k], k, D, S, C, {}, FALSE)
    <3>1. <<S[k], C[k]>> \in F.var
      BY <1>3, <1>5
    <3>2. D[k] \in Copies
      BY <1>3 DEF Copies
    <3>3. \A c : <<D[k], c>> \notin F.var
      BY <1>5, <1>6, <3>2
    <3>4. \A q : C[k] # AddressOf(q)
      BY <1>3, ContentsDiffer
    <3>5. s[k] = Move(D[k], S[k]) /\ D[k] \in f.locals
      BY <1>3, <1>6, <3>2
    <3> QED BY <3>1, <3>3, <3>4, <3>5 DEF Gathers
  <2> QED BY <2>1 DEF AllGather
<1>8. ASSUME NEW j \in 1..m, NEW k \in 1..m, D[j] = D[k] PROVE j = k
  <2>1. S[j] = S[k]
    <3>1. S[j] \in ToSet(CalleeSaved) /\ S[k] \in ToSet(CalleeSaved) /\ MemOf(S[j]) = MemOf(S[k])
      BY <1>3, <1>8
    <3>2. \A r, q \in ToSet(CalleeSaved) : MemOf(r) = MemOf(q) => r = q
      BY CallingConvention
    <3> QED BY <3>1, <3>2
  <2>2. m + 1 - j = m + 1 - k
    <3>1. \A x, y \in DOMAIN CalleeSaved : CalleeSaved[x] = CalleeSaved[y] => x = y
      BY CallingConvention DEF IsInjective
    <3>2. m + 1 - j \in DOMAIN CalleeSaved /\ m + 1 - k \in DOMAIN CalleeSaved
      BY <1>1, <1>2
    <3>3. CalleeSaved[m + 1 - j] = CalleeSaved[m + 1 - k]
      BY <1>3, <2>1
    <3> QED BY <3>1, <3>2, <3>3
  <2> QED BY <1>1, <2>2
<1>9. Leads(g, f, s, F, H) /\ FactsOver(f, H)
  <2>1. \A j, k \in 1..m : D[j] = D[k] => j = k
    BY <1>8
  <2> QED BY <1>4, <1>5, <1>6, <1>7, <2>1, GatherLeads
<1>10. GatherIs(H, F, m, D, C, {}) /\ H = Facts(H.var, H.mem, {}, TRUE)
  BY GatheredIs, GatheredShape
<1> HIDE DEF H
<1>11. Copied(F, H)
  <2>1. \A v, c : (\E j \in 1..m : v = D[j] /\ c = C[j]) <=>
                  \E r \in ToSet(CalleeSaved) : v = MemOf(r) /\ c = CallerOf(r)
    <3>1. ASSUME NEW r \in ToSet(CalleeSaved) PROVE \E j \in 1..m : S[j] = r
      <4>1. PICK k \in 1..m : r = CalleeSaved[k]
        BY <1>1 DEF ToSet
      <4>2. m + 1 - k \in 1..m /\ S[m + 1 - k] = CalleeSaved[k]
        BY <1>2, <1>3
      <4> QED BY <4>1, <4>2
    <3>2. ASSUME NEW v, NEW c, NEW j \in 1..m, v = D[j], c = C[j]
          PROVE  \E r \in ToSet(CalleeSaved) : v = MemOf(r) /\ c = CallerOf(r)
      BY <1>3, <3>2
    <3>3. ASSUME NEW v, NEW c, NEW r \in ToSet(CalleeSaved), v = MemOf(r), c = CallerOf(r)
          PROVE  \E j \in 1..m : v = D[j] /\ c = C[j]
      <4>1. PICK j \in 1..m : S[j] = r
        BY <3>1
      <4>2. D[j] = MemOf(r) /\ C[j] = CallerOf(r)
        BY <1>3, <4>1
      <4> QED BY <3>3, <4>2
    <3> QED BY <3>2, <3>3
  <2>2. \A v, c : <<v, c>> \in H.var <=> <<v, c>> \in F.var \/ \E j \in 1..m : v = D[j] /\ c = C[j]
    <3> SUFFICES ASSUME NEW v, NEW c
                 PROVE  <<v, c>> \in H.var <=> <<v, c>> \in F.var \/ \E j \in 1..m : v = D[j] /\ c = C[j]
      OBVIOUS
    <3>1. <<v, c>> \in H.var <=> \/ <<v, c>> \in F.var
                                 \/ \E j \in 1..m : j \notin {} /\ v = D[j] /\ c = C[j]
      BY <1>10 DEF GatherIs
    <3> QED BY <3>1
  <2>3. \A v, c : <<v, c>> \in H.mem <=> <<v, c>> \in F.mem
    BY <1>10 DEF GatherIs
  <2>4. ASSUME NEW v, NEW c
        PROVE  <<v, c>> \in H.var <=>
                 \/ <<v, c>> \in F.var
                 \/ \E r \in ToSet(CalleeSaved) : v = MemOf(r) /\ c = CallerOf(r)
    BY <2>1, <2>2
  <2> QED BY <1>10, <2>3, <2>4 DEF Copied
<1> QED BY <1>4, <1>9, <1>11

\* The parameters are moved to where the first block expects them.
LEMMA ParametersLead ==
  ASSUME NEW g, Source(g), NEW f, f = CreateRegisters(g), NEW F, F = Arrival(g),
         NEW H, Copied(F, H), FactsOver(f, H), NEW s,
         s = [j \in DOMAIN g.params |-> ParameterMove(g, j)]
  PROVE  /\ \E V : s \in Seq(V)
         /\ \E J : Leads(g, f, s, H, J) /\ FactsOver(f, J) /\ Weaker(Known(g, 1, 0), J)
<1> DEFINE n == Len(g.params)
           A == Len(ArgRegs)
           D == g.params
           S == [j \in 1..n |-> IF j <= A THEN ArgRegs[j] ELSE MemOf(D[j])]
           C == [j \in 1..n |-> EnvOf(D[j])]
           J == Gathered(H, n, D, C, {}, FALSE)
<1>1. /\ n \in Nat /\ DOMAIN g.params = 1..n /\ A \in Nat
      /\ \A j \in 1..n : D[j] \in ToSet(g.params) /\ D[j] \in VariablesOf(g)
  <2>1. g.params \in Seq(ToSet(g.params))
    BY DEF Source, WellFormed
  <2>2. n \in Nat /\ DOMAIN g.params = 1..n
    BY <2>1
  <2>3. \A j \in 1..n : D[j] \in ToSet(g.params)
    BY <2>2 DEF ToSet
  <2> QED BY <2>2, <2>3, RegistersAre DEF VariablesOf
<1>2. \A j \in 1..n : /\ j <= A => S[j] = ArgRegs[j] /\ s[j] = Move(D[j], S[j])
                      /\ ~(j <= A) => S[j] = MemOf(D[j]) /\ s[j] = Load(D[j], S[j]) /\ j > A
                      /\ C[j] = EnvOf(D[j])
  BY <1>1 DEF ParameterMove
<1>3. s \in Seq({s[k] : k \in 1..n}) /\ Len(s) = n
  <2>1. s \in [1..n -> {s[k] : k \in 1..n}]
    BY <1>1
  <2>2. s \in Seq({s[k] : k \in 1..n})
    BY <1>1, <2>1, SeqIs
  <2> QED BY <1>1, <2>1, <2>2, LenProperties
<1>4. /\ None \notin f.locals /\ VariablesOf(g) \subseteq f.locals
      /\ VariablesOf(g) \cap (Reg \cup Copies) = {}
  BY SourceNames
<1>5. /\ \A v, c : <<v, c>> \in F.var <=>
           \/ \E j \in DOMAIN g.params : j <= Len(ArgRegs) /\ v = ArgRegs[j] /\ c = EnvOf(g.params[j])
           \/ \E r \in ToSet(CalleeSaved) : v = r /\ c = CallerOf(r)
      /\ \A q, c : <<q, c>> \in F.mem <=>
           \E j \in DOMAIN g.params :
             j > Len(ArgRegs) /\ q = MemOf(g.params[j]) /\ c = EnvOf(g.params[j])
      /\ \A v, c : <<v, c>> \in F.var => v \in Reg
  <2>1. ArrivalIs(g, f, F)
    BY ArrivalFacts
  <2> QED BY <2>1 DEF ArrivalIs
<1>6. /\ \A v, c : <<v, c>> \in H.var <=>
           \/ <<v, c>> \in F.var
           \/ \E r \in ToSet(CalleeSaved) : v = MemOf(r) /\ c = CallerOf(r)
      /\ \A q, c : <<q, c>> \in H.mem <=> <<q, c>> \in F.mem
      /\ H = Facts(H.var, H.mem, {}, TRUE)
  BY DEF Copied
<1>7. \A v, c : <<v, c>> \in H.var => v \in Reg \cup Copies
  BY <1>5, <1>6 DEF Copies
<1> HIDE DEF S, C
<1>8. AllGather(f, H, n, s, D, S, C, {}, FALSE)
  <2>1. ASSUME NEW j \in 1..n PROVE Gathers(f, H, s[j], j, D, S, C, {}, FALSE)
    <3>1. D[j] \in f.locals /\ \A c : <<D[j], c>> \notin H.var
      BY <1>1, <1>4, <1>7
    <3>2. \A q : C[j] # AddressOf(q)
      <4>1. C[j] = EnvOf(D[j])
        BY <1>2
      <4> QED BY <4>1, ContentsDiffer
    <3>3. CASE j <= A
      <4>1. <<S[j], C[j]>> \in H.var
        BY <1>1, <1>2, <1>5, <1>6, <3>3
      <4>2. s[j] = Move(D[j], S[j])
        BY <1>2, <3>3
      <4> QED BY <3>1, <3>2, <4>1, <4>2 DEF Gathers
    <3>4. CASE ~(j <= A)
      <4>1. <<S[j], C[j]>> \in H.mem
        BY <1>1, <1>2, <1>5, <1>6, <3>4
      <4>2. s[j] = Load(D[j], S[j])
        BY <1>2, <3>4
      <4> QED BY <3>1, <3>2, <4>1, <4>2 DEF Gathers
    <3> QED BY <3>3, <3>4
  <2> QED BY <2>1 DEF AllGather
<1>9. \A j, k \in 1..n : D[j] = D[k] => j = k
  BY <1>1 DEF Source, Runnable, IsInjective
<1>10. Leads(g, f, s, H, J) /\ FactsOver(f, J)
  BY <1>3, <1>4, <1>6, <1>8, <1>9, GatherLeads
<1>11. GatherIs(J, H, n, D, C, {})
  BY GatheredIs
<1>12. Weaker(Known(g, 1, 0), J)
  <2> DEFINE W == Known(g, 1, 0)
  <2>1. 1 \in DOMAIN g.code
    <3>1. g.code \in Seq(Seq(Instructions(g))) /\ g.code # <<>>
      BY DEF Source, WellFormed
    <3> QED BY <3>1, EmptySeq, LenProperties
  <2>2. W.var = {<<v, EnvOf(v)>> : v \in LiveAfter(g)[1][0]}
                  \cup {<<MemOf(r), CallerOf(r)>> : r \in ToSet(CalleeSaved)}
        /\ W.mem = {} /\ W.reg = {}
    BY DEF Known, Facts
  <2>3. LiveAfter(g)[1][0] \subseteq ToSet(g.params)
    <3>1. LiveAfter(g)[1][0] = LiveIn(g)[1]
      BY <2>1, SourceLive DEF Source
    <3> QED BY <3>1 DEF Source, Runnable
  <2> HIDE DEF W, J
  <2>4. \A v, c : <<v, c>> \in J.var <=> \/ <<v, c>> \in H.var
                                         \/ \E j \in 1..n : j \notin {} /\ v = D[j] /\ c = C[j]
    BY <1>11 DEF GatherIs
  <2>5. ASSUME NEW v \in LiveAfter(g)[1][0] PROVE <<v, EnvOf(v)>> \in J.var
    <3>1. PICK j \in 1..n : v = D[j]
      BY <1>1, <2>3 DEF ToSet
    <3> QED BY <1>2, <2>4, <3>1
  <2>6. ASSUME NEW r \in ToSet(CalleeSaved) PROVE <<MemOf(r), CallerOf(r)>> \in J.var
    BY <1>6, <2>4
  <2>7. Weaker(W, J)
    BY <2>2, <2>5, <2>6 DEF Weaker
  <2> QED BY <2>7 DEF W
<1> QED BY <1>3, <1>10, <1>12

\* The entry block leads to what the first block of the source expects.
LEMMA EntryLeads ==
  ASSUME NEW g, Source(g), NEW f, f = CreateRegisters(g)
  PROVE  \E J : /\ Leads(g, f, EntryBlock(g), Arrival(g), J)
                /\ FactsOver(f, J) /\ Weaker(Known(g, 1, 0), J)
<1> DEFINE s == [k \in DOMAIN CalleeSaved |->
                   LET r == CalleeSaved[Len(CalleeSaved) + 1 - k] IN Move(MemOf(r), r)]
           t == [j \in DOMAIN g.params |-> ParameterMove(g, j)]
           F == Arrival(g)
<1>1. EntryBlock(g) = s \o t
  BY DEF EntryBlock
<1>2. /\ \E V : s \in Seq(V)
      /\ \E H : Leads(g, f, s, F, H) /\ FactsOver(f, H) /\ Copied(F, H)
  BY CopiesLead
<1> HIDE DEF s, F
<1>3. PICK H : Leads(g, f, s, F, H) /\ FactsOver(f, H) /\ Copied(F, H)
  BY <1>2
<1>4. /\ \E V : t \in Seq(V)
      /\ \E J : Leads(g, f, t, H, J) /\ FactsOver(f, J) /\ Weaker(Known(g, 1, 0), J)
  BY <1>3, ParametersLead DEF F
<1> HIDE DEF t
<1>5. PICK J : Leads(g, f, t, H, J) /\ FactsOver(f, J) /\ Weaker(Known(g, 1, 0), J)
  BY <1>4
<1>6. PICK V, W : s \in Seq(V) /\ t \in Seq(W)
  BY <1>2, <1>4
<1> DEFINE U == V \cup W
<1>7. s \in Seq(U) /\ t \in Seq(U)
  <2>1. V \subseteq U /\ W \subseteq U
    OBVIOUS
  <2> HIDE DEF U
  <2> QED BY <1>6, <2>1, SeqMonotonic
<1> HIDE DEF U
<1>8. Leads(g, f, s \o t, F, J)
  BY <1>3, <1>5, <1>7, LeadsBoth
<1> QED BY <1>1, <1>5, <1>8 DEF F

\* A block leads from what is known before its first instruction to what is known
\* after its last one.
LEMMA BlockLeads ==
  ASSUME NEW g, Source(g), NEW f, f = CreateRegisters(g),
         NEW b \in DOMAIN g.code, NEW n, n = Len(g.code[b]), NEW s,
         s = [i \in DOMAIN g.code[b] |-> RewriteInstruction(g.code[b][i])]
  PROVE  Leads(g, f, FlattenSeq(s), Known(g, b, 0), Known(g, b, n))
<1> DEFINE H == [i \in 0..n |-> Known(g, b, i)]
           V == f.locals
           S == UNION {ToSet(RewriteInstruction(in)) : in \in Instructions(g)}
<1>1. n \in Nat /\ DOMAIN g.code[b] = 1..n
  <2>1. g.code[b] \in Seq(Instructions(g))
    BY DEF Source, WellFormed
  <2> QED BY <2>1
<1>2. ASSUME NEW i \in 1..n
      PROVE  /\ g.code[b][i] \in Instructions(g)
             /\ s[i] = RewriteInstruction(g.code[b][i])
  <2>1. g.code[b][i] \in Instructions(g)
    BY SourceInstruction DEF Source
  <2> QED BY <1>1, <2>1
<1>3. ASSUME NEW in \in Instructions(g) PROVE RewriteInstruction(in) \in Seq(ToSet(RewriteInstruction(in)))
  <2>1. /\ in = Instr(in.id, in.op, in.def, in.uses, in.mem)
        /\ in.def \in VariablesOf(g) \cup {None} /\ in.uses \in Seq(VariablesOf(g))
        /\ in.def \notin ToSet(in.uses)
    BY DEF Source, WellFormed, VariablesOf
  <2>2. Reg \subseteq V /\ None \notin V /\ Copies \subseteq V /\ VariablesOf(g) \subseteq V
    BY SourceNames
  <2> HIDE DEF V
  <2>3. in.def \in V \cup {None} /\ in.uses \in Seq(V)
    BY <2>1, <2>2, SeqMonotonic
  <2>4. PieceOver(RewriteInstruction(in), V)
    BY <2>1, <2>2, <2>3, RewriteInstructionOver DEF Copies
  <2> QED BY <2>4 DEF PieceOver
<1>4. \A in \in Instructions(g) : RewriteInstruction(in) \in Seq(S)
  <2>1. \A in \in Instructions(g) : ToSet(RewriteInstruction(in)) \subseteq S
    OBVIOUS
  <2> HIDE DEF S
  <2> QED BY <1>3, <2>1, SeqMonotonic
<1> HIDE DEF S
<1>5. s \in [1..n -> Seq(S)]
  BY <1>1, <1>2, <1>4
<1>6. H[0] = Known(g, b, 0) /\ H[n] = Known(g, b, n)
  BY <1>1
<1>7. FactsOver(f, H[0])
  <2>1. 0 \in 0..Len(g.code[b])
    BY <1>1
  <2> QED BY <1>6, <2>1, KnownOver
<1>8. ASSUME NEW i \in 1..n PROVE Leads(g, f, s[i], H[i - 1], H[i])
  <2> DEFINE in == g.code[b][i]
  <2>1. H[i - 1] = Known(g, b, i - 1) /\ H[i] = Known(g, b, i)
    <3>1. i - 1 \in 0..n /\ i \in 0..n
      BY <1>1
    <3> QED BY <3>1
  <2>2. s[i] = RewriteInstruction(in) /\ i \in 1..Len(g.code[b])
    BY <1>2
  <2> HIDE DEF H
  <2>3. CASE in.op = "call"
    <3>1. s[i] = RewriteCall(in)
      BY <2>2, <2>3 DEF RewriteInstruction
    <3> QED BY <2>1, <2>2, <2>3, <3>1, CallLeads
  <2>4. CASE in.op = "ret"
    <3>1. s[i] = RewriteReturn(in)
      BY <2>2, <2>4 DEF RewriteInstruction
    <3> QED BY <2>1, <2>2, <2>4, <3>1, ReturnLeads
  <2>5. CASE in.op \notin {"call", "ret"}
    <3>1. s[i] = <<in>>
      BY <2>2, <2>5 DEF RewriteInstruction
    <3> QED BY <2>1, <2>2, <2>5, <3>1, PlainLeads
  <2> QED BY <2>3, <2>4, <2>5
<1> HIDE DEF H
<1>9. Leads(g, f, FlattenSeq(s), H[0], H[n])
  BY <1>1, <1>5, <1>7, <1>8, LeadsAll
<1> QED BY <1>6, <1>9

\* create_registers makes code with a certificate.
LEMMA CreatedCertified ==
  ASSUME NEW g, Source(g), NEW f, f = CreateRegisters(g)
  PROVE  Certified(g, f) /\ FrameNames(f)
<1> DEFINE n == Len(g.code)
<1>0. n = Len(g.code) /\ WellFormed(g)
  BY DEF Source
<1> HIDE DEF n
<1>1. /\ n \in Nat /\ n >= 1 /\ DOMAIN g.code = 1..n /\ DOMAIN f.code = 1..(n + 1)
      /\ f.code[1] = EntryBlock(g) /\ f.succ[1] = {2}
      /\ \A b \in 1..n :
           /\ f.code[b + 1] = FlattenSeq([i \in DOMAIN g.code[b] |-> RewriteInstruction(g.code[b][i])])
           /\ f.succ[b + 1] = {s + 1 : s \in g.succ[b]}
      /\ f.frame = [j \in DOMAIN g.params |-> MemOf(g.params[j])]
  <2>1. CreatedFrom(g, f, n)
    BY <1>0, CreatedIs
  <2> QED BY <2>1 DEF CreatedFrom
<1>2. PICK J : /\ Leads(g, f, EntryBlock(g), Arrival(g), J)
               /\ FactsOver(f, J) /\ Weaker(Known(g, 1, 0), J)
  BY EntryLeads
<1> DEFINE P == [b \in 1..(n + 1) |-> IF b = 1 THEN Arrival(g) ELSE Known(g, b - 1, 0)]
           Q == [b \in 1..(n + 1) |-> IF b = 1 THEN J ELSE Known(g, b - 1, Len(g.code[b - 1]))]
<1>3. P[1] = Arrival(g) /\ Q[1] = J
  BY <1>1
<1>4. \A b \in 1..n : P[b + 1] = Known(g, b, 0) /\ Q[b + 1] = Known(g, b, Len(g.code[b]))
  BY <1>1
<1> HIDE DEF P, Q
<1>5. ASSUME NEW d \in 1..(n + 1), d # 1 PROVE \E b \in 1..n : d = b + 1
  <2>1. d - 1 \in 1..n /\ d = (d - 1) + 1
    BY <1>1, <1>5
  <2> QED BY <2>1
<1>6. ASSUME NEW d \in 1..(n + 1) PROVE Leads(g, f, f.code[d], P[d], Q[d])
  <2>1. CASE d = 1
    BY <1>1, <1>2, <1>3, <2>1
  <2>2. CASE d # 1
    <3>1. PICK b \in 1..n : d = b + 1
      BY <1>5, <2>2
    <3> DEFINE s == [i \in DOMAIN g.code[b] |-> RewriteInstruction(g.code[b][i])]
    <3>2. f.code[d] = FlattenSeq(s) /\ b \in DOMAIN g.code
      BY <1>1, <3>1
    <3>3. Leads(g, f, FlattenSeq(s), Known(g, b, 0), Known(g, b, Len(g.code[b])))
      BY <3>2, BlockLeads
    <3> HIDE DEF s
    <3> QED BY <1>4, <3>1, <3>2, <3>3
  <2> QED BY <2>1, <2>2
<1>7. ASSUME NEW d \in 1..(n + 1), NEW t \in f.succ[d] PROVE Weaker(P[t], Q[d])
  <2>1. CASE d = 1
    <3>1. t = 1 + 1 /\ 1 \in 1..n
      BY <1>1, <1>7, <2>1
    <3> QED BY <1>2, <1>3, <1>4, <2>1, <3>1
  <2>2. CASE d # 1
    <3>1. PICK b \in 1..n : d = b + 1
      BY <1>5, <2>2
    <3>2. PICK s \in g.succ[b] : t = s + 1
      BY <1>1, <1>7, <3>1
    <3>3. b \in DOMAIN g.code /\ s \in 1..n /\ LiveAfter(g)[s][0] \subseteq LiveAfter(g)[b][Len(g.code[b])]
      BY <1>1, SourceLive DEF Source
    <3>4. P[t] = Known(g, s, 0) /\ Q[d] = Known(g, b, Len(g.code[b]))
      BY <1>4, <3>1, <3>2, <3>3
    <3>5. Weaker(Known(g, s, 0), Known(g, b, Len(g.code[b])))
      BY <3>3 DEF Weaker, Known, Facts
    <3> QED BY <3>4, <3>5
  <2> QED BY <2>1, <2>2
<1>8. Weaker(P[1], Arrival(g))
  BY <1>3 DEF Weaker
<1>9. ASSUME NEW d \in DOMAIN f.code \cup {1} PROVE P[d].reg = {}
  <2>1. CASE d = 1
    BY <1>3, <2>1 DEF Arrival, Facts
  <2>2. CASE d # 1
    <3>1. PICK b \in 1..n : d = b + 1
      BY <1>1, <1>5, <2>2
    <3>2. P[d] = Known(g, b, 0)
      BY <1>4, <3>1
    <3> QED BY <3>2, KnownFacts
  <2> QED BY <2>1, <2>2
<1>10. Certificate(g, f, P, Q)
  BY <1>1, <1>6, <1>7, <1>8, <1>9 DEF Certificate
<1>11. FrameNames(f)
  <2>1. /\ \A j \in DOMAIN g.params : f.frame[j] # None /\ f.frame[j] \in ToSet(f.frame)
        /\ DOMAIN f.frame = DOMAIN g.params
    <3>1. \A j \in DOMAIN g.params : MemOf(g.params[j]) # None
      BY DEF Source, ObjectNames, StackObject
    <3> QED BY <1>1, <3>1 DEF ToSet
  <2>2. DOMAIN g.params = 1..Len(g.params) /\ Len(g.params) \in Nat
    BY DEF Source, WellFormed
  <2>3. f.frame \in [1..Len(g.params) -> ToSet(f.frame)]
    BY <1>1, <2>1, <2>2
  <2>4. f.frame \in Seq(ToSet(f.frame))
    BY <2>2, <2>3, SeqIs
  <2>5. None \notin ToSet(f.frame)
    BY <2>1 DEF ToSet
  <2> QED BY <2>4, <2>5 DEF FrameNames
<1> QED BY <1>10, <1>11 DEF Certified

-----------------------------------------------------------------------------
(* The facts in a state of the run: e gives the source variables their values, r the *)
(* registers, m the stack objects, and a is the register of each variable.           *)

\* The value a content is.
Meaning(e, c) == IF \E x \in DOMAIN e : c = EnvOf(x) THEN e[c[2]] ELSE c

\* The facts F hold, of the live variables at least.
Holds(F, live, a, e, r, m) ==
  /\ \A v, c : <<v, c>> \in F.var /\ v \in live => r[a[v]] = Meaning(e, c)
  /\ \A s, c : <<s, c>> \in F.mem => s \in DOMAIN m /\ m[s] = Meaning(e, c)

\* The instruction fetches a stack object, or its address, through the register x.
Brings(in, a, x) == in.op \in {"load", "lea"} /\ a[in.def] = x

\* The registers that were put back are as they were, but for the ones through which
\* something was fetched since, up to the i-th instruction of the block b.
Restored(f, a, b, i, F, e, r) ==
  \A x, c : <<x, c>> \in F.reg =>
    \E k \in 1..(i - 1) :
      /\ PutsBack(f.code[b][k], x)
      /\ r[x] = Meaning(e, c) \/ \E j \in (k + 1)..(i - 1) : Brings(f.code[b][j], a, x)

\* The allocation is sound.
Sound(f, a) ==
  /\ a \in [f.locals -> Reg]
  /\ \A x \in Reg : a[x] = x
  /\ \A u \in f.locals : \A v \in Interference(f)[u] \ {u} : a[u] # a[v]

\* The instruction reads live variables and leaves the registers of those that stay live
\* alone, but for the one it defines.
Untouched(f, a, in, before, after) ==
  /\ in.def \in f.locals \cup {None}
  /\ before \subseteq f.locals /\ after \subseteq f.locals
  /\ \A v \in after : v = in.def \/ v \in before
  /\ \A k \in DOMAIN in.uses : in.uses[k] \in before
  /\ in.uses # <<>> => Last(in.uses) \in before /\ 1 \in DOMAIN in.uses
  /\ \A v \in after : v # in.def /\ in.def # None => a[v] # a[in.def]
  /\ \A v \in after : v # in.def /\ in.op = "call" /\ v \notin CallerSaved => a[v] \notin CallerSaved

LEMMA MeaningIs ==
  /\ \A e : \A x \in DOMAIN e : Meaning(e, EnvOf(x)) = e[x]
  /\ \A e, x : Meaning(e, CallerOf(x)) = CallerOf(x) /\ Meaning(e, AddressOf(x)) = AddressOf(x)
<1>1. ASSUME NEW e, NEW x \in DOMAIN e PROVE Meaning(e, EnvOf(x)) = e[x]
  <2>1. EnvOf(x)[2] = x
    BY DEF EnvOf
  <2> QED BY <2>1 DEF Meaning
<1>2. ASSUME NEW e, NEW x
      PROVE  Meaning(e, CallerOf(x)) = CallerOf(x) /\ Meaning(e, AddressOf(x)) = AddressOf(x)
  <2>1. \A y : CallerOf(x) # EnvOf(y) /\ AddressOf(x) # EnvOf(y)
    BY ContentsDiffer
  <2> QED BY <2>1 DEF Meaning
<1> QED BY <1>1, <1>2

\* When a source variable changes the other contents stay.
Changed(e, d, x, e2) ==
  /\ DOMAIN e2 = DOMAIN e
  /\ Meaning(e2, EnvOf(d)) = x
  /\ \A c : c # EnvOf(d) => Meaning(e2, c) = Meaning(e, c)

LEMMA MeaningStays ==
  ASSUME NEW e, NEW d \in DOMAIN e, NEW x, NEW e2, e2 = [e EXCEPT ![d] = x]
  PROVE  Changed(e, d, x, e2)
<1>1. DOMAIN e2 = DOMAIN e /\ e2[d] = x /\ \A y \in DOMAIN e : y # d => e2[y] = e[y]
  OBVIOUS
<1>2. Meaning(e2, EnvOf(d)) = x
  BY <1>1, MeaningIs
<1>3. ASSUME NEW c, c # EnvOf(d) PROVE Meaning(e2, c) = Meaning(e, c)
  <2>1. CASE \E y \in DOMAIN e : c = EnvOf(y)
    <3>1. PICK y \in DOMAIN e : c = EnvOf(y)
      BY <2>1
    <3>2. y # d
      BY <1>3, <3>1
    <3> QED BY <1>1, <3>1, <3>2, MeaningIs
  <2>2. CASE ~ \E y \in DOMAIN e : c = EnvOf(y)
    BY <1>1, <2>2 DEF Meaning
  <2> QED BY <2>1, <2>2
<1> QED BY <1>1, <1>2, <1>3 DEF Changed

\* A sound allocation keeps live variables apart from what is written.
LEMMA RegistersApart ==
  ASSUME NEW f, Closed(f), Reg \subseteq f.locals, NEW a, Sound(f, a),
         NEW b \in DOMAIN f.code, NEW i \in 1..Len(f.code[b]), NEW in, in = f.code[b][i]
  PROVE  Untouched(f, a, in, LiveAfter(f)[b][i - 1], LiveAfter(f)[b][i])
<1> DEFINE before == LiveAfter(f)[b][i - 1]
           after == LiveAfter(f)[b][i]
           V == f.locals
           n == Len(f.code[b])
<1>1. f.code \in Seq(Seq(Instructions(f))) /\ None \notin V
  BY DEF Closed
<1>2. f.code[b] \in Seq(Instructions(f)) /\ n \in Nat /\ i \in DOMAIN f.code[b]
  <2>1. f.code[b] \in Seq(Instructions(f))
    BY <1>1
  <2> QED BY <2>1
<1>3. <<b, i>> \in Points(f) /\ At(f, <<b, i>>) = in
  BY <1>1, <1>2, PointsAre
<1>4. PICK p \in Points(f) : p[1] = b /\ p[2] = i /\ At(f, p) = in
  BY <1>3
<1>5. InstructionOver(in, V)
  BY <1>4 DEF Closed, Instructions
<1>6. UsesOnly(f, V)
  <2>1. ASSUME NEW is \in Instructions(f) PROVE ToSet(is.uses) \subseteq V
    <3>1. is.uses \in Seq(V)
      BY DEF Closed, InstructionOver
    <3> HIDE DEF V
    <3> QED BY <3>1 DEF ToSet
  <2> QED BY <1>1, <2>1 DEF UsesOnly, Closed
<1>7. /\ LiveAfter(f)[b] \in [0..n -> SUBSET V]
      /\ \A j \in 1..n : LiveAfter(f)[b][j - 1] = LiveBefore(f.code[b][j], LiveAfter(f)[b][j])
  BY <1>6, LiveAfterIs
<1>8. before \subseteq V /\ after \subseteq V /\ before = (after \ {in.def}) \cup ToSet(in.uses)
  <2>1. i - 1 \in 0..n /\ i \in 0..n
    BY <1>2
  <2> QED BY <1>7, <2>1 DEF LiveBefore
<1>9. in.def \in V \cup {None} /\ in.uses \in Seq(V)
  BY <1>5 DEF InstructionOver
<1>10. \A k \in DOMAIN in.uses : in.uses[k] \in before
  BY <1>8 DEF ToSet
<1>11. in.uses # <<>> => Last(in.uses) \in before /\ 1 \in DOMAIN in.uses
  <2>1. ASSUME in.uses # <<>> PROVE Len(in.uses) \in DOMAIN in.uses /\ 1 \in DOMAIN in.uses
    <3> HIDE DEF V
    <3> QED BY <1>9, <2>1, EmptySeq, LenProperties
  <2> QED BY <1>10, <2>1 DEF Last
<1>12. ASSUME NEW u \in V, NEW v \in after, u # v, Clobbers(in, after, u, v) PROVE a[u] # a[v]
  <2>1. <<u, v>> \in Conflicts(f)
    <3> DEFINE Named == Reg \cup f.locals \cup UNION {LiveAfter(f)[q[1]][q[2]] : q \in Points(f)}
    <3>1. u \in Named /\ v \in Named
      BY <1>8
    <3>2. Conflicts(f) = {c \in Named \X Named :
                            \E q \in Points(f) :
                               Clobbers(f.code[q[1]][q[2]], LiveAfter(f)[q[1]][q[2]], c[1], c[2])}
      BY DEF Conflicts
    <3>3. <<u, v>> \in Named \X Named /\ <<u, v>>[1] = u /\ <<u, v>>[2] = v
      BY <3>1
    <3> HIDE DEF Named
    <3>4. Clobbers(f.code[p[1]][p[2]], LiveAfter(f)[p[1]][p[2]], u, v)
      BY <1>4, <1>12
    <3> QED BY <3>2, <3>3, <3>4
  <2>2. v \in Interference(f)[u]
    BY <1>8, <2>1 DEF Interference
  <2> QED BY <1>12, <2>2 DEF Sound
<1> HIDE DEF before, after, V
<1>13. ASSUME NEW v \in after, v # in.def, in.def # None PROVE a[v] # a[in.def]
  <2>1. Clobbers(in, after, in.def, v) /\ in.def \in V
    BY <1>9, <1>13 DEF Clobbers
  <2> QED BY <1>12, <1>13, <2>1
<1>14. ASSUME NEW v \in after, v # in.def, in.op = "call", v \notin CallerSaved
       PROVE  a[v] \notin CallerSaved
  <2> SUFFICES ASSUME a[v] \in CallerSaved PROVE FALSE
    OBVIOUS
  <2> DEFINE u == a[v]
  <2>1. u \in Reg /\ u \in V /\ a[u] = u
    BY RegisterAssumption DEF Sound, V
  <2>2. Clobbers(in, after, u, v) /\ u # v
    BY <1>14 DEF Clobbers
  <2> QED BY <1>12, <2>1, <2>2
<1>15. Untouched(f, a, in, before, after)
  BY <1>8, <1>9, <1>10, <1>11, <1>13, <1>14 DEF Untouched, V
<1> QED BY <1>15 DEF before, after

\* The stack object an inserted instruction addresses, and what it does.
SlotIn(in, a, r) ==
  IF in.mem # None THEN in.mem
  ELSE LET x == r[a[in.uses[1]]] IN IF x[1] = "address" THEN x[2] ELSE "nowhere"

Performs(in, a, r, m, r1, m1) ==
  LET slot == SlotIn(in, a, r)
  IN  \/ /\ in.op = "move" /\ r1 = [r EXCEPT ![a[in.def]] = r[a[in.uses[1]]]] /\ m1 = m
      \/ /\ in.op = "load" /\ m1 = m
         /\ r1 = [r EXCEPT ![a[in.def]] = IF slot \in DOMAIN m THEN m[slot] ELSE Junk]
      \/ /\ in.op = "lea" /\ r1 = [r EXCEPT ![a[in.def]] = AddressOf(in.mem)] /\ m1 = m
      \/ /\ in.op = "store" /\ r1 = r
         /\ m1 = [s \in DOMAIN m \cup {slot} |-> IF s = slot THEN r[a[Last(in.uses)]] ELSE m[s]]

\* Facts tell the stack object that is addressed.
LEMMA SlotKnown ==
  ASSUME NEW f, NEW a, NEW in, NEW before, NEW after, Untouched(f, a, in, before, after),
         NEW F, NEW e, NEW r, NEW m, Holds(F, before, a, e, r, m), NEW s, Addresses(in, F, s)
  PROVE  SlotIn(in, a, r) = s
<1>1. CASE in.mem # None
  BY <1>1 DEF SlotIn, Addresses
<1>2. CASE in.mem = None
  <2>1. 1 \in DOMAIN in.uses /\ <<in.uses[1], AddressOf(s)>> \in F.var
    BY <1>2 DEF Addresses
  <2>2. r[a[in.uses[1]]] = Meaning(e, AddressOf(s))
    BY <2>1 DEF Untouched, Holds
  <2>3. r[a[in.uses[1]]] = <<"address", s>>
    BY <2>2, MeaningIs DEF AddressOf, Value
  <2> QED BY <1>2, <2>3 DEF SlotIn
<1> QED BY <1>1, <1>2

\* What an inserted instruction that writes a register leaves there.
LEMMA ResultRead ==
  ASSUME NEW g, NEW f, NEW a, NEW in, NEW before, NEW after, Untouched(f, a, in, before, after),
         NEW F, InsertedWell(f, in, F), IsInsert(in),
         NEW e, NEW r, NEW m, Holds(F, before, a, e, r, m), NEW r1, NEW m1, Performs(in, a, r, m, r1, m1),
         in.op # "store", a[in.def] \in DOMAIN r, NEW c, Result(g, in, F, c)
  PROVE  r1[a[in.def]] = Meaning(e, c)
<1>1. in.op \in {"move", "load", "lea"} /\ (in.op = "move" => Len(in.uses) = 1)
  BY DEF InsertedWell
<1>2. CASE in.op = "move"
  <2>1. <<in.uses[1], c>> \in F.var
    BY <1>2 DEF Result
  <2>2. in.uses # <<>>
    <3>1. Len(<<>>) # 1
      OBVIOUS
    <3> QED BY <1>1, <1>2, <3>1
  <2>3. in.uses[1] \in before
    BY <2>2 DEF Untouched
  <2>4. r[a[in.uses[1]]] = Meaning(e, c)
    BY <2>1, <2>3 DEF Holds
  <2>5. r1 = [r EXCEPT ![a[in.def]] = r[a[in.uses[1]]]]
    BY <1>2 DEF Performs
  <2> QED BY <2>4, <2>5
<1>3. CASE in.op = "load"
  <2>1. PICK s : Addresses(in, F, s) /\ <<s, c>> \in F.mem
    BY <1>3 DEF Result
  <2>2. SlotIn(in, a, r) = s
    BY <2>1, SlotKnown
  <2>3. s \in DOMAIN m /\ m[s] = Meaning(e, c)
    BY <2>1 DEF Holds
  <2>4. r1 = [r EXCEPT ![a[in.def]] = m[s]]
    BY <1>3, <2>2, <2>3 DEF Performs
  <2> QED BY <2>3, <2>4
<1>4. CASE in.op = "lea"
  <2>1. c = AddressOf(in.mem)
    BY <1>4 DEF Result
  <2>2. r1 = [r EXCEPT ![a[in.def]] = AddressOf(in.mem)]
    BY <1>4 DEF Performs
  <2> QED BY <2>1, <2>2, MeaningIs
<1> QED BY <1>1, <1>2, <1>3, <1>4

\* An inserted instruction leads from states where F hold to states where G do.
LEMMA InsertedHolds ==
  ASSUME NEW g, NEW f, None \notin f.locals, Reg \subseteq f.locals, NEW a, Sound(f, a),
         NEW in, NEW before, NEW after, Untouched(f, a, in, before, after), IsInsert(in),
         NEW F, NEW G, FactsOver(f, G), Step(g, in, F, G), InsertedWell(f, in, F),
         NEW e, NEW r, DOMAIN r = Reg, NEW m, Holds(F, before, a, e, r, m),
         NEW r1, NEW m1, Performs(in, a, r, m, r1, m1)
  PROVE  Holds(G, after, a, e, r1, m1) /\ DOMAIN r1 = Reg
<1>1. \A c : ~Changes(g, in, c)
  BY DEF Changes
<1>2. a \in [f.locals -> Reg] /\ \A x \in Reg : a[x] = x
  BY DEF Sound
<1>3. in.op \in {"move", "load", "lea", "store"}
  BY DEF InsertedWell
<1>4. CASE in.op = "store"
  <2>1. /\ r1 = r
        /\ m1 = [s \in DOMAIN m \cup {SlotIn(in, a, r)} |->
                   IF s = SlotIn(in, a, r) THEN r[a[Last(in.uses)]] ELSE m[s]]
    BY <1>4 DEF Performs
  <2>2. in.uses # <<>> /\ Last(in.uses) \in before
    BY <1>4 DEF InsertedWell, Untouched
  <2>3. ASSUME NEW v, NEW c, <<v, c>> \in G.var, v \in after PROVE r1[a[v]] = Meaning(e, c)
    <3>1. VarAfter(g, in, F, v, c)
      BY <2>3 DEF Step
    <3>2. v # in.def
      <4>1. ~Result(g, in, F, c)
        BY <1>4 DEF Result
      <4> QED BY <3>1, <4>1 DEF VarAfter
    <3>3. <<v, c>> \in F.var /\ v \in before
      BY <2>3, <3>1, <3>2 DEF VarAfter, Untouched
    <3> QED BY <2>1, <3>3 DEF Holds
  <2>4. ASSUME NEW s, NEW c, <<s, c>> \in G.mem PROVE s \in DOMAIN m1 /\ m1[s] = Meaning(e, c)
    <3>1. MemAfter(g, in, F, s, c)
      BY <2>4 DEF Step
    <3>2. PICK q : /\ Addresses(in, F, q)
                   /\ IF s = q THEN <<Last(in.uses), c>> \in F.var ELSE <<s, c>> \in F.mem
      BY <1>4, <3>1 DEF MemAfter
    <3>3. SlotIn(in, a, r) = q
      BY <3>2, SlotKnown
    <3>4. CASE s = q
      <4>1. r[a[Last(in.uses)]] = Meaning(e, c)
        BY <2>2, <3>2, <3>4 DEF Holds
      <4> QED BY <2>1, <3>3, <3>4, <4>1
    <3>5. CASE s # q
      <4>1. s \in DOMAIN m /\ m[s] = Meaning(e, c)
        BY <3>2, <3>5 DEF Holds
      <4> QED BY <2>1, <3>3, <3>5, <4>1
    <3> QED BY <3>4, <3>5
  <2> QED BY <2>1, <2>3, <2>4 DEF Holds
<1>5. CASE in.op # "store"
  <2>1. in.def # None /\ in.def \in f.locals /\ a[in.def] \in Reg
    BY <1>2, <1>5 DEF InsertedWell, Untouched
  <2>2. m1 = m /\ DOMAIN r1 = Reg /\ \A x \in Reg : x # a[in.def] => r1[x] = r[x]
    <3>1. m1 = m /\ \E y : r1 = [r EXCEPT ![a[in.def]] = y]
      BY <1>5 DEF Performs
    <3> QED BY <3>1
  <2>3. ASSUME NEW v, NEW c, <<v, c>> \in G.var, v \in after PROVE r1[a[v]] = Meaning(e, c)
    <3>1. VarAfter(g, in, F, v, c)
      BY <2>3 DEF Step
    <3>2. CASE v = in.def
      <4>1. Result(g, in, F, c)
        BY <3>1, <3>2 DEF VarAfter
      <4> QED BY <1>5, <2>1, <3>2, <4>1, ResultRead
    <3>3. CASE v # in.def
      <4>1. <<v, c>> \in F.var /\ v \in before /\ a[v] # a[in.def] /\ v \in f.locals
        BY <2>1, <2>3, <3>1, <3>3 DEF VarAfter, Untouched
      <4>2. r[a[v]] = Meaning(e, c) /\ a[v] \in Reg
        BY <1>2, <4>1 DEF Holds
      <4> QED BY <2>2, <4>1, <4>2
    <3> QED BY <3>2, <3>3
  <2>4. ASSUME NEW s, NEW c, <<s, c>> \in G.mem PROVE s \in DOMAIN m1 /\ m1[s] = Meaning(e, c)
    <3>1. <<s, c>> \in F.mem
      BY <1>5, <2>4 DEF Step, MemAfter
    <3> QED BY <2>2, <3>1 DEF Holds
  <2> QED BY <2>2, <2>3, <2>4 DEF Holds
<1> QED BY <1>4, <1>5

\* It leaves the registers that were put back alone, or fetches something through them.
LEMMA InsertedKeeps ==
  ASSUME NEW g, NEW f, None \notin f.locals, Reg \subseteq f.locals, NEW a, Sound(f, a),
         NEW b, NEW i \in Nat, i >= 1, NEW in, in = f.code[b][i],
         NEW before, NEW after, Untouched(f, a, in, before, after), IsInsert(in),
         NEW F, NEW G, FactsOver(f, G), Step(g, in, F, G), InsertedWell(f, in, F),
         NEW e, NEW r, DOMAIN r = Reg, NEW m, Holds(F, before, a, e, r, m),
         NEW r1, NEW m1, Performs(in, a, r, m, r1, m1), Restored(f, a, b, i, F, e, r)
  PROVE  Restored(f, a, b, i + 1, G, e, r1)
<1> SUFFICES ASSUME NEW x, NEW c, <<x, c>> \in G.reg
             PROVE  \E k \in 1..((i + 1) - 1) :
                      /\ PutsBack(f.code[b][k], x)
                      /\ \/ r1[x] = Meaning(e, c)
                         \/ \E j \in (k + 1)..((i + 1) - 1) : Brings(f.code[b][j], a, x)
  BY DEF Restored
<1>1. RegAfter(in, F, x, c)
  BY DEF Step
<1>2. x \in Reg /\ a[x] = x
  BY CalleeSavedAre DEF FactsOver, Sound
<1>3. CASE x = in.def
  <2>1. in.op = "move" /\ Result(g, in, F, c)
    BY <1>1, <1>3 DEF RegAfter, Result
  <2>2. in.op # "store" /\ a[in.def] \in DOMAIN r
    BY <1>2, <1>3, <2>1
  <2>3. r1[x] = Meaning(e, c)
    BY <1>2, <1>3, <2>1, <2>2, ResultRead
  <2>4. PutsBack(f.code[b][i], x)
    BY <1>3, <2>1 DEF PutsBack
  <2>5. i \in 1..((i + 1) - 1)
    OBVIOUS
  <2> QED BY <2>3, <2>4, <2>5
<1>4. CASE x # in.def
  <2>1. <<x, c>> \in F.reg /\ (in.op = "move" => in.def \in ToSet(CalleeSaved))
    BY <1>1, <1>4 DEF RegAfter
  <2>2. PICK k \in 1..(i - 1) :
          /\ PutsBack(f.code[b][k], x)
          /\ r[x] = Meaning(e, c) \/ \E j \in (k + 1)..(i - 1) : Brings(f.code[b][j], a, x)
    BY <2>1 DEF Restored
  <2>3. k \in 1..((i + 1) - 1) /\ (k + 1)..(i - 1) \subseteq (k + 1)..((i + 1) - 1)
        /\ i \in (k + 1)..((i + 1) - 1)
    OBVIOUS
  <2>4. CASE \E j \in (k + 1)..(i - 1) : Brings(f.code[b][j], a, x)
    BY <2>2, <2>3, <2>4
  <2>5. CASE r[x] = Meaning(e, c)
    <3>1. CASE Brings(in, a, x)
      BY <2>2, <2>3, <3>1
    <3>2. CASE ~Brings(in, a, x)
      <4>1. in.op = "store" => r1 = r
        BY DEF Performs
      <4>2. in.op # "store" => \E y : r1 = [r EXCEPT ![a[in.def]] = y]
        BY DEF Performs
      <4>3. in.op # "store" => a[in.def] # x
        <5>1. CASE in.op = "move"
          <6>1. in.def \in Reg
            BY <2>1, <5>1, CalleeSavedAre
          <6> QED BY <1>4, <6>1 DEF Sound
        <5>2. CASE in.op \in {"load", "lea"}
          BY <3>2, <5>2 DEF Brings
        <5> QED BY <5>1, <5>2 DEF InsertedWell
      <4>4. r1[x] = r[x]
        BY <1>2, <4>1, <4>2, <4>3
      <4> QED BY <2>2, <2>3, <2>5, <4>4
    <3> QED BY <3>1, <3>2
  <2> QED BY <2>2, <2>4, <2>5
<1> QED BY <1>3, <1>4

\* What a computation, a move or a call of the source does on both sides.
Computes(src, in, a, e, r, fresh, e1, r1) ==
  LET new  == IF in.op = "move" THEN e[src.uses[1]] ELSE fresh
      newR == IF in.op = "move" THEN r[a[in.uses[1]]] ELSE fresh
      kept == [x \in Reg |-> IF in.op = "call" /\ x \in CallerSaved THEN Junk ELSE r[x]]
  IN  /\ e1 = IF src.def = None THEN e ELSE [e EXCEPT ![src.def] = new]
      /\ r1 = IF in.def = None THEN kept ELSE [kept EXCEPT ![a[in.def]] = newR]

\* The operands of a source instruction have the values they have in the source.
Reads(src, in, a, e, r, m) ==
  \A k \in DOMAIN src.uses :
    IF k \in DOMAIN in.uses THEN r[a[in.uses[k]]] = e[src.uses[k]]
    ELSE /\ Fresh(Fresh("param", in.id) \o "_", k) \in DOMAIN m
         /\ m[Fresh(Fresh("param", in.id) \o "_", k)] = e[src.uses[k]]

LEMMA OperandsRead ==
  ASSUME NEW g, WellFormed(g), NEW f, NEW a, NEW in, NEW before, NEW after, Untouched(f, a, in, before, after),
         NEW F, SourceWell(g, in, F),
         NEW e, DOMAIN e = VariablesOf(g), NEW r, NEW m, Holds(F, before, a, e, r, m),
         NEW src, src = Origin(g, in.id)
  PROVE  Reads(src, in, a, e, r, m)
<1>1. src \in Instructions(g)
  BY DEF SourceWell
<1>2. src.uses \in Seq(VariablesOf(g))
  BY <1>1 DEF WellFormed, VariablesOf
<1>3. ASSUME NEW k \in DOMAIN src.uses
      PROVE  IF k \in DOMAIN in.uses THEN r[a[in.uses[k]]] = e[src.uses[k]]
             ELSE /\ Fresh(Fresh("param", in.id) \o "_", k) \in DOMAIN m
                  /\ m[Fresh(Fresh("param", in.id) \o "_", k)] = e[src.uses[k]]
  <2> DEFINE c == EnvOf(src.uses[k])
  <2>1. OperandAt(g, in, F, k)
    BY DEF SourceWell
  <2>2. Meaning(e, c) = e[src.uses[k]]
    <3>1. src.uses[k] \in DOMAIN e
      BY <1>2
    <3> QED BY <3>1, MeaningIs
  <2> HIDE DEF c
  <2>3. CASE k \in DOMAIN in.uses
    <3>1. <<in.uses[k], c>> \in F.var
      BY <2>1, <2>3 DEF OperandAt, c
    <3>2. in.uses[k] \in before
      BY <2>3 DEF Untouched
    <3>3. r[a[in.uses[k]]] = Meaning(e, c)
      BY <3>1, <3>2 DEF Holds
    <3> QED BY <2>2, <2>3, <3>3
  <2>4. CASE k \notin DOMAIN in.uses
    <3> DEFINE s == Fresh(Fresh("param", in.id) \o "_", k)
    <3>1. <<s, c>> \in F.mem
      BY <2>1, <2>4 DEF OperandAt, c
    <3> HIDE DEF s
    <3>2. s \in DOMAIN m /\ m[s] = Meaning(e, c)
      BY <3>1 DEF Holds
    <3> QED BY <2>2, <2>4, <3>2 DEF s
  <2> QED BY <2>3, <2>4
<1> QED BY <1>3 DEF Reads

\* The facts G hold, of all variables and registers.
HoldsHere(g, G, live, a, e, r, m) ==
  Holds(G, live, a, e, r, m) /\ DOMAIN e = VariablesOf(g) /\ DOMAIN r = Reg

\* A source instruction leads from states where F hold to states where G do.
LEMMA SourceHolds ==
  ASSUME NEW g, WellFormed(g), NEW f, None \notin f.locals, Reg \subseteq f.locals, NEW a, Sound(f, a),
         NEW in, NEW before, NEW after, Untouched(f, a, in, before, after), ~IsInsert(in),
         NEW F, NEW G, FactsOver(f, G), Step(g, in, F, G), SourceWell(g, in, F),
         NEW e, DOMAIN e = VariablesOf(g), NEW r, DOMAIN r = Reg, NEW m, Holds(F, before, a, e, r, m),
         NEW src, src = Origin(g, in.id), in.op \in {"op", "move", "call"},
         NEW fresh, NEW e1, NEW r1, Computes(src, in, a, e, r, fresh, e1, r1)
  PROVE  HoldsHere(g, G, after, a, e1, r1, m)
<1> DEFINE new == IF in.op = "move" THEN e[src.uses[1]] ELSE fresh
           newR == IF in.op = "move" THEN r[a[in.uses[1]]] ELSE fresh
           kept == [x \in Reg |-> IF in.op = "call" /\ x \in CallerSaved THEN Junk ELSE r[x]]
<1>1. /\ e1 = (IF src.def = None THEN e ELSE [e EXCEPT ![src.def] = new])
      /\ r1 = (IF in.def = None THEN kept ELSE [kept EXCEPT ![a[in.def]] = newR])
  BY DEF Computes
<1>2. a \in [f.locals -> Reg] /\ \A x \in Reg : a[x] = x
  BY DEF Sound
<1>3. new = newR
  <2>1. Reads(src, in, a, e, r, m)
    BY OperandsRead
  <2>2. in.op = "move" => in.uses # <<>> /\ 1 \in DOMAIN src.uses
    BY DEF SourceWell
  <2>3. in.op = "move" => 1 \in DOMAIN in.uses
    BY <2>2 DEF Untouched
  <2> QED BY <2>1, <2>2, <2>3 DEF Reads
<1>4. DOMAIN kept = Reg /\ \A x \in Reg : ~(in.op = "call" /\ x \in CallerSaved) => kept[x] = r[x]
  OBVIOUS
<1> HIDE DEF new, newR, kept
<1>5. src.def \in VariablesOf(g) \cup {None}
  <2>1. src \in Instructions(g)
    BY DEF SourceWell
  <2> QED BY <2>1 DEF WellFormed, VariablesOf
<1>6. \A c : Changes(g, in, c) <=> src.def # None /\ c = EnvOf(src.def)
  BY DEF Changes
<1>7. /\ DOMAIN e1 = VariablesOf(g)
      /\ \A c : ~Changes(g, in, c) => Meaning(e1, c) = Meaning(e, c)
      /\ \A c : Changes(g, in, c) => Meaning(e1, c) = new
  <2>1. CASE src.def = None
    BY <1>1, <1>6, <2>1
  <2>2. CASE src.def # None
    <3>1. src.def \in DOMAIN e /\ e1 = [e EXCEPT ![src.def] = new]
      BY <1>1, <1>5, <2>2
    <3>2. Changed(e, src.def, new, e1)
      BY <3>1, MeaningStays
    <3> QED BY <1>6, <2>2, <3>2 DEF Changed
  <2> QED BY <2>1, <2>2
<1>8. /\ DOMAIN r1 = Reg
      /\ in.def # None => r1[a[in.def]] = new
      /\ \A x \in Reg : (in.def # None => x # a[in.def]) => r1[x] = kept[x]
  <2>1. CASE in.def = None
    BY <1>1, <1>4, <2>1
  <2>2. CASE in.def # None
    <3>1. a[in.def] \in Reg /\ r1 = [kept EXCEPT ![a[in.def]] = new]
      BY <1>1, <1>2, <1>3, <2>2 DEF Untouched
    <3> QED BY <1>4, <2>2, <3>1
  <2> QED BY <2>1, <2>2
<1>9. ASSUME NEW v, NEW c, <<v, c>> \in G.var, v \in after PROVE r1[a[v]] = Meaning(e1, c)
  <2>1. VarAfter(g, in, F, v, c) /\ v \in f.locals
    BY <1>9 DEF Step, FactsOver
  <2>2. CASE v = in.def
    <3>1. Changes(g, in, c) /\ in.def # None
      BY <2>1, <2>2 DEF VarAfter, Result
    <3> QED BY <1>7, <1>8, <2>2, <3>1
  <2>3. CASE v # in.def
    <3>1. /\ <<v, c>> \in F.var /\ ~Changes(g, in, c) /\ (in.op = "call" => v \notin CallerSaved)
          /\ v \in before /\ (in.def # None => a[v] # a[in.def])
          /\ ~(in.op = "call" /\ a[v] \in CallerSaved)
      BY <1>9, <2>1, <2>3 DEF VarAfter, Untouched
    <3>2. a[v] \in Reg /\ r[a[v]] = Meaning(e, c)
      BY <1>2, <2>1, <3>1 DEF Holds
    <3>3. r1[a[v]] = r[a[v]]
      BY <1>4, <1>8, <3>1, <3>2
    <3> QED BY <1>7, <3>1, <3>2, <3>3
  <2> QED BY <2>2, <2>3
<1>10. ASSUME NEW s, NEW c, <<s, c>> \in G.mem PROVE s \in DOMAIN m /\ m[s] = Meaning(e1, c)
  <2>1. <<s, c>> \in F.mem /\ ~Changes(g, in, c)
    BY <1>10 DEF Step, MemAfter
  <2> QED BY <1>7, <2>1 DEF Holds
<1> QED BY <1>7, <1>8, <1>9, <1>10 DEF Holds, HoldsHere

\* A branch changes no value.
LEMMA BranchHolds ==
  ASSUME NEW g, NEW f, None \notin f.locals, NEW a,
         NEW in, NEW before, NEW after, Untouched(f, a, in, before, after), ~IsInsert(in),
         NEW F, NEW G, FactsOver(f, G), Step(g, in, F, G), SourceWell(g, in, F),
         NEW e, NEW r, NEW m, Holds(F, before, a, e, r, m), in.op = "branch"
  PROVE  Holds(G, after, a, e, r, m)
<1>1. in.def = None
  BY DEF SourceWell
<1>2. ASSUME NEW v, NEW c, <<v, c>> \in G.var, v \in after PROVE r[a[v]] = Meaning(e, c)
  <2>1. v # None
    BY <1>2 DEF FactsOver
  <2>2. <<v, c>> \in F.var /\ v \in before
    BY <1>1, <1>2, <2>1 DEF Step, VarAfter, Untouched
  <2> QED BY <2>2 DEF Holds
<1>3. ASSUME NEW s, NEW c, <<s, c>> \in G.mem PROVE s \in DOMAIN m /\ m[s] = Meaning(e, c)
  <2>1. <<s, c>> \in F.mem
    BY <1>3 DEF Step, MemAfter
  <2> QED BY <2>1 DEF Holds
<1> QED BY <1>2, <1>3 DEF Holds

\* Fewer facts about fewer variables hold as well.
LEMMA WeakerHolds ==
  ASSUME NEW F, NEW G, Weaker(G, F), NEW live, NEW before, live \subseteq before,
         NEW a, NEW e, NEW r, NEW m, Holds(F, before, a, e, r, m)
  PROVE  Holds(G, live, a, e, r, m)
BY DEF Weaker, Holds

\* What StartRun gives the source variables, the registers and the stack objects.
Arrived(g, e, r, m) ==
  LET Arg(j) == Value("argument", g.params[j])
      PassedIn(x) == {j \in DOMAIN g.params : j <= Len(ArgRegs) /\ ArgRegs[j] = x}
  IN  /\ e = [v \in VariablesOf(g) |-> IF v \in ToSet(g.params) THEN Value("argument", v) ELSE Junk]
      /\ DOMAIN r = Reg
      /\ \A x \in Reg : IF PassedIn(x) # {} THEN \E j \in PassedIn(x) : r[x] = Arg(j)
                        ELSE r[x] = CallerOf(x)
      /\ DOMAIN m = {MemOf(g.params[j]) : j \in {k \in DOMAIN g.params : k > Len(ArgRegs)}}
      /\ \A s \in DOMAIN m : \E j \in DOMAIN g.params : MemOf(g.params[j]) = s /\ m[s] = Arg(j)

\* When the function is entered, what is known then holds.
LEMMA ArrivalHolds ==
  ASSUME NEW g, Source(g), NEW a, \A x \in Reg : a[x] = x, NEW live,
         NEW e, NEW r, NEW m, Arrived(g, e, r, m)
  PROVE  Holds(Arrival(g), live, a, e, r, m)
<1> DEFINE F == Arrival(g)
           f == CreateRegisters(g)
<1>1. /\ \A v, c : <<v, c>> \in F.var <=>
           \/ \E j \in DOMAIN g.params : j <= Len(ArgRegs) /\ v = ArgRegs[j] /\ c = EnvOf(g.params[j])
           \/ \E x \in ToSet(CalleeSaved) : v = x /\ c = CallerOf(x)
      /\ \A s, c : <<s, c>> \in F.mem <=>
           \E j \in DOMAIN g.params :
             j > Len(ArgRegs) /\ s = MemOf(g.params[j]) /\ c = EnvOf(g.params[j])
      /\ \A v, c : <<v, c>> \in F.var => v \in Reg
  <2>1. ArrivalIs(g, f, F)
    BY ArrivalFacts
  <2> QED BY <2>1 DEF ArrivalIs
<1> HIDE DEF F, f
<1>2. /\ DOMAIN r = Reg
      /\ DOMAIN m = {MemOf(g.params[j]) : j \in {k \in DOMAIN g.params : k > Len(ArgRegs)}}
      /\ \A s \in DOMAIN m : \E j \in DOMAIN g.params :
           MemOf(g.params[j]) = s /\ m[s] = Value("argument", g.params[j])
  BY DEF Arrived
<1>3. \A j \in DOMAIN g.params : Meaning(e, EnvOf(g.params[j])) = Value("argument", g.params[j])
  <2>1. ASSUME NEW j \in DOMAIN g.params
        PROVE  Meaning(e, EnvOf(g.params[j])) = Value("argument", g.params[j])
    <3>1. g.params[j] \in ToSet(g.params) /\ g.params[j] \in VariablesOf(g)
      BY <2>1 DEF ToSet, VariablesOf
    <3>2. g.params[j] \in DOMAIN e /\ e[g.params[j]] = Value("argument", g.params[j])
      BY <3>1 DEF Arrived
    <3> QED BY <3>2, MeaningIs
  <2> QED BY <2>1
<1>4. ASSUME NEW v, NEW c, <<v, c>> \in F.var PROVE r[a[v]] = Meaning(e, c)
  <2> DEFINE PassedIn == {j \in DOMAIN g.params : j <= Len(ArgRegs) /\ ArgRegs[j] = v}
  <2>1. v \in Reg /\ a[v] = v
    BY <1>1, <1>4
  <2>2. /\ PassedIn # {} => \E j \in PassedIn : r[v] = Value("argument", g.params[j])
        /\ PassedIn = {} => r[v] = CallerOf(v)
    BY <2>1 DEF Arrived
  <2>3. CASE \E j \in DOMAIN g.params : j <= Len(ArgRegs) /\ v = ArgRegs[j] /\ c = EnvOf(g.params[j])
    <3>1. PICK j \in DOMAIN g.params : j <= Len(ArgRegs) /\ v = ArgRegs[j] /\ c = EnvOf(g.params[j])
      BY <2>3
    <3>2. PICK k \in PassedIn : r[v] = Value("argument", g.params[k])
      BY <2>2, <3>1
    <3>3. j = k
      <4>1. j \in DOMAIN ArgRegs /\ k \in DOMAIN ArgRegs
        BY <3>1, <3>2, RegistersAre DEF Source, WellFormed
      <4> QED BY <3>1, <3>2, <4>1, CallingConvention DEF IsInjective
    <3> QED BY <1>3, <2>1, <3>1, <3>2, <3>3
  <2>4. CASE \E x \in ToSet(CalleeSaved) : v = x /\ c = CallerOf(x)
    <3>1. v \in ToSet(CalleeSaved) /\ c = CallerOf(v)
      BY <2>4
    <3>2. PassedIn = {}
      <4> SUFFICES ASSUME NEW j \in DOMAIN g.params, j <= Len(ArgRegs), ArgRegs[j] = v PROVE FALSE
        OBVIOUS
      <4>1. j \in DOMAIN ArgRegs
        BY RegistersAre DEF Source, WellFormed
      <4>2. v \in ToSet(ArgRegs)
        BY <4>1 DEF ToSet
      <4> QED BY <3>1, <4>2, CallingConvention
    <3> QED BY <2>1, <2>2, <3>1, <3>2, MeaningIs
  <2> QED BY <1>1, <1>4, <2>3, <2>4
<1>5. ASSUME NEW s, NEW c, <<s, c>> \in F.mem PROVE s \in DOMAIN m /\ m[s] = Meaning(e, c)
  <2>1. PICK j \in DOMAIN g.params : j > Len(ArgRegs) /\ s = MemOf(g.params[j]) /\ c = EnvOf(g.params[j])
    BY <1>1, <1>5
  <2>2. s \in DOMAIN m
    BY <1>2, <2>1
  <2>3. PICK k \in DOMAIN g.params : MemOf(g.params[k]) = s /\ m[s] = Value("argument", g.params[k])
    BY <1>2, <2>2
  <2>4. j = k
    BY <2>1, <2>3 DEF Source, ObjectNames
  <2> QED BY <1>3, <2>1, <2>2, <2>3, <2>4
<1>6. Holds(F, live, a, e, r, m)
  BY <1>1, <1>4, <1>5 DEF Holds
<1> QED BY <1>6 DEF F

-----------------------------------------------------------------------------
(* A run of the allocated code f of g. *)

\* The facts H between the instructions of the block b.
Tabled(g, f, b, P, Q, H) ==
  /\ Certificate(g, f, P, Q)
  /\ Flow(g, f, f.code[b], H) /\ H[0] = P[b] /\ H[Len(f.code[b])] = Q[b]

Allocated(g, f, a) == Closed(f) /\ Reg \subseteq f.locals /\ Sound(f, a) /\ WellFormed(g)

\* The instruction t is next, and what is known before it holds.
Runs(g, f, a, t, e, r, m) ==
  /\ Allocated(g, f, a)
  /\ DOMAIN e = VariablesOf(g) /\ DOMAIN r = Reg
  /\ \E b \in DOMAIN f.code : \E i \in 1..(Len(f.code[b]) + 1) : \E P, Q, H :
       /\ t = <<b, i>>
       /\ Tabled(g, f, b, P, Q, H)
       /\ Holds(H[i - 1], LiveAfter(f)[b][i - 1], a, e, r, m)
       /\ Restored(f, a, b, i, H[i - 1], e, r)

\* A block is entered.
LEMMA Entered ==
  ASSUME NEW g, NEW f, NEW a, Allocated(g, f, a), NEW P, NEW Q, Certificate(g, f, P, Q),
         NEW s \in DOMAIN f.code, NEW e, DOMAIN e = VariablesOf(g), NEW r, DOMAIN r = Reg, NEW m,
         Holds(P[s], LiveAfter(f)[s][0], a, e, r, m)
  PROVE  Runs(g, f, a, <<s, 1>>, e, r, m)
<1>1. PICK H : /\ Flow(g, f, f.code[s], H) /\ H[0] = P[s]
               /\ H[Len(f.code[s])] = Q[s]
  BY DEF Certificate, Leads
<1>2. Tabled(g, f, s, P, Q, H)
  BY <1>1 DEF Tabled
<1>3. 1 \in 1..(Len(f.code[s]) + 1) /\ 1 - 1 = 0
  <2>1. f.code[s] \in Seq(Instructions(f))
    BY ElementOfSeq DEF Allocated, Closed
  <2> QED BY <2>1
<1>4. Holds(H[1 - 1], LiveAfter(f)[s][1 - 1], a, e, r, m)
  BY <1>1, <1>3
<1>5. Restored(f, a, s, 1, H[1 - 1], e, r)
  BY <1>1, <1>3 DEF Certificate, Restored
<1> QED BY <1>2, <1>3, <1>4, <1>5 DEF Runs

\* What lives in a block that follows lived at the end of the one before.
LEMMA LivesOn ==
  ASSUME NEW f, Closed(f), NEW b \in DOMAIN f.code, NEW s \in f.succ[b]
  PROVE  s \in DOMAIN f.code /\ LiveAfter(f)[s][0] \subseteq LiveAfter(f)[b][Len(f.code[b])]
<1> DEFINE V == f.locals
<1>1. f.code \in Seq(Seq(Instructions(f)))
  BY DEF Closed
<1>2. UsesOnly(f, V)
  <2>1. ASSUME NEW is \in Instructions(f) PROVE ToSet(is.uses) \subseteq V
    <3>1. is.uses \in Seq(V)
      BY DEF Closed, InstructionOver
    <3> HIDE DEF V
    <3> QED BY <3>1 DEF ToSet
  <2> QED BY <1>1, <2>1 DEF UsesOnly, Closed
<1> QED BY <1>2, LiveAfterIs

\* At the end of a block the next one is entered.
LEMMA MovesOn ==
  ASSUME NEW g, NEW f, NEW a, Allocated(g, f, a), NEW b \in DOMAIN f.code, NEW P, NEW Q, NEW H,
         Tabled(g, f, b, P, Q, H), NEW e, DOMAIN e = VariablesOf(g), NEW r, DOMAIN r = Reg, NEW m,
         Holds(Q[b], LiveAfter(f)[b][Len(f.code[b])], a, e, r, m), NEW s \in f.succ[b]
  PROVE  Runs(g, f, a, <<s, 1>>, e, r, m)
<1>1. s \in DOMAIN f.code /\ LiveAfter(f)[s][0] \subseteq LiveAfter(f)[b][Len(f.code[b])]
  BY LivesOn DEF Allocated
<1>2. Certificate(g, f, P, Q) /\ Weaker(P[s], Q[b])
  BY DEF Tabled, Certificate
<1>3. Holds(P[s], LiveAfter(f)[s][0], a, e, r, m)
  BY <1>1, <1>2, WeakerHolds
<1> QED BY <1>1, <1>2, <1>3, Entered

\* What is known before and after the next instruction.
Ready(g, f, a, b, i, in, H) ==
  /\ i \in Nat /\ i >= 1 /\ i <= Len(f.code[b]) /\ Len(f.code[b]) \in Nat
  /\ Untouched(f, a, in, LiveAfter(f)[b][i - 1], LiveAfter(f)[b][i])
  /\ FactsOver(f, H[i - 1]) /\ FactsOver(f, H[i])
  /\ Step(g, in, H[i - 1], H[i])
  /\ Enough(g, f, in, H[i - 1])

LEMMA ReadyIs ==
  ASSUME NEW g, NEW f, NEW a, Allocated(g, f, a), NEW b \in DOMAIN f.code,
         NEW i \in 1..(Len(f.code[b]) + 1), i <= Len(f.code[b]),
         NEW P, NEW Q, NEW H, Tabled(g, f, b, P, Q, H), NEW in, in = f.code[b][i]
  PROVE  Ready(g, f, a, b, i, in, H)
<1>1. f.code[b] \in Seq(Instructions(f)) /\ Len(f.code[b]) \in Nat /\ i \in 1..Len(f.code[b])
  <2>1. f.code[b] \in Seq(Instructions(f))
    BY ElementOfSeq DEF Allocated, Closed
  <2> QED BY <2>1
<1>2. Untouched(f, a, in, LiveAfter(f)[b][i - 1], LiveAfter(f)[b][i])
  BY <1>1, RegistersApart DEF Allocated
<1>3. i - 1 \in 0..Len(f.code[b]) /\ i \in 0..Len(f.code[b])
  BY <1>1
<1>4. /\ FactsOver(f, H[i - 1]) /\ FactsOver(f, H[i])
      /\ Step(g, in, H[i - 1], H[i])
      /\ Enough(g, f, in, H[i - 1])
  BY <1>1, <1>3 DEF Tabled, Flow
<1> QED BY <1>1, <1>2, <1>4 DEF Ready

\* The next instruction of the block comes after it.
LEMMA Advances ==
  ASSUME NEW g, NEW f, NEW a, Allocated(g, f, a), NEW b \in DOMAIN f.code,
         NEW i \in 1..(Len(f.code[b]) + 1), NEW in, NEW P, NEW Q, NEW H, Tabled(g, f, b, P, Q, H),
         Ready(g, f, a, b, i, in, H),
         NEW e, DOMAIN e = VariablesOf(g), NEW r, DOMAIN r = Reg, NEW m,
         Holds(H[i], LiveAfter(f)[b][i], a, e, r, m), Restored(f, a, b, i + 1, H[i], e, r)
  PROVE  Runs(g, f, a, <<b, i + 1>>, e, r, m)
<1>1. i + 1 \in 1..(Len(f.code[b]) + 1) /\ (i + 1) - 1 = i
  BY DEF Ready
<1>2. /\ Holds(H[(i + 1) - 1], LiveAfter(f)[b][(i + 1) - 1], a, e, r, m)
      /\ Restored(f, a, b, i + 1, H[(i + 1) - 1], e, r)
  BY <1>1
<1> QED BY <1>1, <1>2 DEF Runs

\* An inserted instruction is executed.
LEMMA InsertedRuns ==
  ASSUME NEW g, NEW f, NEW a, NEW b, NEW i, NEW e, NEW r, NEW m, Runs(g, f, a, <<b, i>>, e, r, m),
         i <= Len(f.code[b]), NEW in, in = f.code[b][i], IsInsert(in),
         NEW r1, NEW m1, Performs(in, a, r, m, r1, m1)
  PROVE  Runs(g, f, a, <<b, i + 1>>, e, r1, m1)
<1>1. /\ Allocated(g, f, a) /\ DOMAIN e = VariablesOf(g) /\ DOMAIN r = Reg
      /\ b \in DOMAIN f.code /\ i \in 1..(Len(f.code[b]) + 1)
  BY DEF Runs
<1>2. PICK P, Q, H : /\ Tabled(g, f, b, P, Q, H)
                     /\ Holds(H[i - 1], LiveAfter(f)[b][i - 1], a, e, r, m)
                     /\ Restored(f, a, b, i, H[i - 1], e, r)
  BY DEF Runs
<1>3. Ready(g, f, a, b, i, in, H)
  BY <1>1, <1>2, ReadyIs
<1> DEFINE F == H[i - 1]
           G == H[i]
           before == LiveAfter(f)[b][i - 1]
           after == LiveAfter(f)[b][i]
<1>4. /\ Untouched(f, a, in, before, after) /\ FactsOver(f, G) /\ Step(g, in, F, G)
      /\ InsertedWell(f, in, F) /\ Holds(F, before, a, e, r, m) /\ Restored(f, a, b, i, F, e, r)
      /\ i \in Nat /\ i >= 1
  BY <1>2, <1>3 DEF Ready, Enough
<1>5. Sound(f, a) /\ None \notin f.locals /\ Reg \subseteq f.locals
  BY <1>1 DEF Allocated, Closed
<1> HIDE DEF F, G, before, after
<1>6. Holds(G, after, a, e, r1, m1) /\ DOMAIN r1 = Reg
  BY <1>1, <1>4, <1>5, InsertedHolds
<1>7. Restored(f, a, b, i + 1, G, e, r1)
  BY <1>1, <1>4, <1>5, InsertedKeeps
<1> QED BY <1>1, <1>2, <1>3, <1>6, <1>7, Advances DEF G, after

\* The next instruction of the source, and what is known before it.
Meets(g, f, a, b, i, in, e, r, m) ==
  \E before, after, F :
    /\ Untouched(f, a, in, before, after)
    /\ SourceWell(g, in, F)
    /\ Holds(F, before, a, e, r, m)
    /\ WellFormed(g) /\ DOMAIN e = VariablesOf(g)

LEMMA MeetsSource ==
  ASSUME NEW g, NEW f, NEW a, NEW b, NEW i, NEW e, NEW r, NEW m, Runs(g, f, a, <<b, i>>, e, r, m),
         i <= Len(f.code[b]), NEW in, in = f.code[b][i], ~IsInsert(in)
  PROVE  Meets(g, f, a, b, i, in, e, r, m)
<1>1. /\ Allocated(g, f, a) /\ DOMAIN e = VariablesOf(g) /\ DOMAIN r = Reg
      /\ b \in DOMAIN f.code /\ i \in 1..(Len(f.code[b]) + 1)
  BY DEF Runs
<1>2. PICK P, Q, H : Tabled(g, f, b, P, Q, H) /\ Holds(H[i - 1], LiveAfter(f)[b][i - 1], a, e, r, m)
  BY DEF Runs
<1>3. Ready(g, f, a, b, i, in, H)
  BY <1>1, <1>2, ReadyIs
<1> DEFINE F == H[i - 1]
           before == LiveAfter(f)[b][i - 1]
           after == LiveAfter(f)[b][i]
<1>4. /\ Untouched(f, a, in, before, after)
      /\ SourceWell(g, in, F) /\ Holds(F, before, a, e, r, m)
  BY <1>2, <1>3 DEF Ready, Enough
<1> QED BY <1>1, <1>4 DEF Meets, Allocated

\* A computation, a move or a call of the source is executed on both sides.
LEMMA SourceRuns ==
  ASSUME NEW g, NEW f, NEW a, NEW b, NEW i, NEW e, NEW r, NEW m, Runs(g, f, a, <<b, i>>, e, r, m),
         i <= Len(f.code[b]), NEW in, in = f.code[b][i], ~IsInsert(in), in.op \in {"op", "move", "call"},
         NEW src, src = Origin(g, in.id),
         NEW fresh, NEW e1, NEW r1, Computes(src, in, a, e, r, fresh, e1, r1)
  PROVE  Runs(g, f, a, <<b, i + 1>>, e1, r1, m)
<1>1. /\ Allocated(g, f, a) /\ DOMAIN e = VariablesOf(g) /\ DOMAIN r = Reg
      /\ b \in DOMAIN f.code /\ i \in 1..(Len(f.code[b]) + 1)
  BY DEF Runs
<1>2. PICK P, Q, H : Tabled(g, f, b, P, Q, H) /\ Holds(H[i - 1], LiveAfter(f)[b][i - 1], a, e, r, m)
  BY DEF Runs
<1>3. Ready(g, f, a, b, i, in, H)
  BY <1>1, <1>2, ReadyIs
<1> DEFINE F == H[i - 1]
           G == H[i]
           before == LiveAfter(f)[b][i - 1]
           after == LiveAfter(f)[b][i]
<1>4. /\ Untouched(f, a, in, before, after) /\ FactsOver(f, G) /\ Step(g, in, F, G)
      /\ SourceWell(g, in, F) /\ Holds(F, before, a, e, r, m)
  BY <1>2, <1>3 DEF Ready, Enough
<1>5. Sound(f, a) /\ None \notin f.locals /\ Reg \subseteq f.locals /\ WellFormed(g)
      /\ DOMAIN e = VariablesOf(g) /\ DOMAIN r = Reg
  BY <1>1 DEF Allocated, Closed
<1> HIDE DEF F, G, before, after
<1>6. HoldsHere(g, G, after, a, e1, r1, m)
  BY <1>4, <1>5, SourceHolds
<1>7. Restored(f, a, b, i + 1, G, e1, r1)
  BY <1>4 DEF Step, RegAfter, Restored
<1> QED BY <1>1, <1>2, <1>3, <1>6, <1>7, Advances DEF G, after, HoldsHere

\* A branch leads to a block that follows.
LEMMA BranchRuns ==
  ASSUME NEW g, NEW f, NEW a, NEW b, NEW i, NEW e, NEW r, NEW m, Runs(g, f, a, <<b, i>>, e, r, m),
         i <= Len(f.code[b]), NEW in, in = f.code[b][i], in.op = "branch", NEW s \in f.succ[b]
  PROVE  Runs(g, f, a, <<s, 1>>, e, r, m)
<1>1. /\ Allocated(g, f, a) /\ DOMAIN e = VariablesOf(g) /\ DOMAIN r = Reg
      /\ b \in DOMAIN f.code /\ i \in 1..(Len(f.code[b]) + 1)
  BY DEF Runs
<1>2. PICK P, Q, H : Tabled(g, f, b, P, Q, H) /\ Holds(H[i - 1], LiveAfter(f)[b][i - 1], a, e, r, m)
  BY DEF Runs
<1>3. Ready(g, f, a, b, i, in, H)
  BY <1>1, <1>2, ReadyIs
<1> DEFINE F == H[i - 1]
           G == H[i]
           before == LiveAfter(f)[b][i - 1]
           after == LiveAfter(f)[b][i]
<1>4. /\ Untouched(f, a, in, before, after) /\ FactsOver(f, G) /\ Step(g, in, F, G)
      /\ SourceWell(g, in, F) /\ Holds(F, before, a, e, r, m) /\ ~IsInsert(in)
  <2>1. ~IsInsert(in)
    BY <1>3 DEF Ready, Enough, InsertedWell
  <2> QED BY <1>2, <1>3, <2>1 DEF Ready, Enough
<1>5. None \notin f.locals
  BY <1>1 DEF Allocated, Closed
<1>6. ~G.goes
  BY <1>4 DEF Step
<1>7. i = Len(f.code[b])
  <2> SUFFICES ASSUME i # Len(f.code[b]) PROVE FALSE
    OBVIOUS
  <2>1. i + 1 \in 1..(Len(f.code[b]) + 1) /\ i + 1 <= Len(f.code[b]) /\ (i + 1) - 1 = i
    BY <1>3 DEF Ready
  <2>2. Ready(g, f, a, b, i + 1, f.code[b][i + 1], H)
    BY <1>1, <1>2, <2>1, ReadyIs
  <2>3. H[(i + 1) - 1].goes
    BY <2>2 DEF Ready, Enough
  <2> QED BY <1>6, <2>1, <2>3
<1> HIDE DEF F, G, before, after
<1>8. Holds(G, after, a, e, r, m)
  BY <1>1, <1>4, <1>5, BranchHolds
<1>9. Holds(Q[b], LiveAfter(f)[b][Len(f.code[b])], a, e, r, m)
  BY <1>2, <1>7, <1>8 DEF G, after, Tabled
<1> QED BY <1>1, <1>2, <1>9, MovesOn

\* Other registers that agree where it matters are as good.
LEMMA AgreeingHolds ==
  ASSUME NEW f, NEW G, FactsOver(f, G), NEW live, NEW a, NEW e, NEW r, NEW m, Holds(G, live, a, e, r, m),
         NEW r1, \A v \in live \cap f.locals : r1[a[v]] = r[a[v]]
  PROVE  Holds(G, live, a, e, r1, m)
BY DEF FactsOver, Holds

\* The entry block, which ends with no branch, leads to the first block of the source;
\* the prologue may change a register that is no longer read.
LEMMA EntryRuns ==
  ASSUME NEW g, NEW f, NEW a, NEW b, NEW i, NEW e, NEW r, NEW m, Runs(g, f, a, <<b, i>>, e, r, m),
         ~(i <= Len(f.code[b])), NEW s \in f.succ[b],
         NEW r1, DOMAIN r1 = Reg,
         \A x \in Reg : x # Scratch \/ r1 = r => r1[x] = r[x],
         \A v \in LiveAfter(f)[b][Len(f.code[b])] : a[v] # Scratch \/ r1 = r
  PROVE  Runs(g, f, a, <<s, 1>>, e, r1, m)
<1>1. /\ Allocated(g, f, a) /\ DOMAIN e = VariablesOf(g) /\ DOMAIN r = Reg
      /\ b \in DOMAIN f.code /\ i \in 1..(Len(f.code[b]) + 1)
  BY DEF Runs
<1>2. PICK P, Q, H : Tabled(g, f, b, P, Q, H) /\ Holds(H[i - 1], LiveAfter(f)[b][i - 1], a, e, r, m)
  BY DEF Runs
<1>3. i - 1 = Len(f.code[b]) /\ Len(f.code[b]) \in Nat
  <2>1. f.code[b] \in Seq(Instructions(f))
    BY <1>1, ElementOfSeq DEF Allocated, Closed
  <2>2. Len(f.code[b]) \in Nat
    BY <2>1
  <2> QED BY <1>1, <2>2
<1> DEFINE live == LiveAfter(f)[b][Len(f.code[b])]
<1>4. Holds(Q[b], live, a, e, r, m) /\ FactsOver(f, Q[b])
  BY <1>2, <1>3 DEF Tabled, Flow
<1>5. ASSUME NEW v \in live \cap f.locals PROVE r1[a[v]] = r[a[v]]
  <2>1. a[v] \in Reg
    BY <1>1 DEF Allocated, Sound
  <2> QED BY <1>5, <2>1
<1> HIDE DEF live
<1>6. Holds(Q[b], live, a, e, r1, m)
  BY <1>4, <1>5, AgreeingHolds
<1> QED BY <1>1, <1>2, <1>6, MovesOn DEF live

\* A source instruction reads what it reads in the source.
LEMMA RunReads ==
  ASSUME NEW g, NEW f, NEW a, NEW b, NEW i, NEW e, NEW r, NEW m, Runs(g, f, a, <<b, i>>, e, r, m),
         i <= Len(f.code[b]), NEW in, in = f.code[b][i], ~IsInsert(in), NEW src, src = Origin(g, in.id)
  PROVE  Reads(src, in, a, e, r, m)
<1>1. Meets(g, f, a, b, i, in, e, r, m)
  BY MeetsSource
<1>2. PICK before, after, F :
        /\ Untouched(f, a, in, before, after)
        /\ SourceWell(g, in, F)
        /\ Holds(F, before, a, e, r, m)
        /\ WellFormed(g) /\ DOMAIN e = VariablesOf(g)
  BY <1>1 DEF Meets
<1> QED BY <1>2, OperandsRead

\* A return finds the caller's value in a callee-saved register that was put back, or
\* something was fetched through it since.
Returned(f, a, b, i, r) ==
  \A x \in ToSet(CalleeSaved) :
    \E k \in 1..(i - 1) :
      /\ PutsBack(f.code[b][k], x)
      /\ r[x] = CallerOf(x) \/ \E j \in (k + 1)..(i - 1) : Brings(f.code[b][j], a, x)

LEMMA RunReturns ==
  ASSUME NEW g, NEW f, NEW a, NEW b, NEW i, NEW e, NEW r, NEW m, Runs(g, f, a, <<b, i>>, e, r, m),
         i <= Len(f.code[b]), NEW in, in = f.code[b][i], in.op = "ret"
  PROVE  Returned(f, a, b, i, r)
<1>1. /\ Allocated(g, f, a) /\ b \in DOMAIN f.code /\ i \in 1..(Len(f.code[b]) + 1)
  BY DEF Runs
<1>2. PICK P, Q, H : Tabled(g, f, b, P, Q, H) /\ Restored(f, a, b, i, H[i - 1], e, r)
  BY DEF Runs
<1>3. Ready(g, f, a, b, i, in, H)
  BY <1>1, <1>2, ReadyIs
<1>4. SourceWell(g, in, H[i - 1])
  BY <1>3 DEF Ready, Enough, InsertedWell
<1>5. \A x \in ToSet(CalleeSaved) : <<x, CallerOf(x)>> \in H[i - 1].reg
  BY <1>4 DEF SourceWell
<1> QED BY <1>2, <1>5, MeaningIs DEF Restored, Returned

\* An inserted instruction does one of four things.
LEMMA RunInserts ==
  ASSUME NEW g, NEW f, NEW a, NEW b, NEW i, NEW e, NEW r, NEW m, Runs(g, f, a, <<b, i>>, e, r, m),
         i <= Len(f.code[b]), NEW in, in = f.code[b][i], IsInsert(in)
  PROVE  in.op \in {"move", "load", "lea", "store"}
<1>1. /\ Allocated(g, f, a) /\ b \in DOMAIN f.code /\ i \in 1..(Len(f.code[b]) + 1)
  BY DEF Runs
<1>2. PICK P, Q, H : Tabled(g, f, b, P, Q, H)
  BY DEF Runs
<1>3. Ready(g, f, a, b, i, in, H)
  BY <1>1, <1>2, ReadyIs
<1> QED BY <1>3 DEF Ready, Enough, InsertedWell

-----------------------------------------------------------------------------
(* The run of the allocated code keeps to its certificate. *)

RunInv == Runs(Given, fn, varToReg, at, env, regs, mem)

\* Where the run stands.
LEMMA StandsHere ==
  ASSUME RunInv
  PROVE  /\ at = <<at[1], at[2]>>
         /\ Runs(Given, fn, varToReg, <<at[1], at[2]>>, env, regs, mem)
<1>1. at = <<at[1], at[2]>>
  BY DEF RunInv, Runs
<1> QED BY <1>1 DEF RunInv

\* What does not change while the code runs.
LEMMA RunKeeps ==
  ASSUME NEW env1, NEW regs1, NEW mem1, NEW made1, Values(env1, regs1, mem1, made1), NEW t, at' = t,
         Runs(Given, fn, varToReg, t, env1, regs1, mem1)
  PROVE  RunInv'
<1>1. /\ Given' = Given /\ fn' = fn /\ varToReg' = varToReg
      /\ env' = env1 /\ regs' = regs1 /\ mem' = mem1
  BY DEF Values, Given
<1> QED BY <1>1 DEF RunInv

LEMMA RunInsertedInv ==
  ASSUME RunInv, RunInserted
  PROVE  RunInv'
<1> DEFINE in == Here
           b == at[1]
           i == at[2]
           t == <<b, i + 1>>
           a == varToReg
<1>1. /\ i <= Len(fn.code[b]) /\ IsInsert(in) /\ at' = t /\ in = fn.code[b][i]
  BY DEF RunInserted, Running, Advance, Here
<1>2. Runs(Given, fn, a, <<b, i>>, env, regs, mem)
  BY StandsHere
<1>3. in.op \in {"move", "load", "lea", "store"}
  BY <1>1, <1>2, RunInserts
<1>4. SlotOf(in) = SlotIn(in, a, regs)
  BY DEF SlotOf, SlotIn, R
<1>5. CASE in.op = "move"
  <2> DEFINE regs1 == [regs EXCEPT ![a[in.def]] = regs[a[in.uses[1]]]]
  <2>1. Values(env, regs1, mem, made)
    BY <1>5 DEF RunInserted, R
  <2>2. Performs(in, a, regs, mem, regs1, mem)
    BY <1>5 DEF Performs
  <2> HIDE DEF regs1, in, a
  <2>3. Runs(Given, fn, a, t, env, regs1, mem)
    BY <1>1, <1>2, <2>2, InsertedRuns
  <2> QED BY <1>1, <2>1, <2>3, RunKeeps DEF a
<1>6. CASE in.op = "load"
  <2> DEFINE regs1 == [regs EXCEPT ![a[in.def]] = ReadMem(SlotOf(in))]
  <2>1. Values(env, regs1, mem, made)
    BY <1>6 DEF RunInserted, R
  <2>2. Performs(in, a, regs, mem, regs1, mem)
    BY <1>4, <1>6 DEF Performs, ReadMem
  <2> HIDE DEF regs1, in, a
  <2>3. Runs(Given, fn, a, t, env, regs1, mem)
    BY <1>1, <1>2, <2>2, InsertedRuns
  <2> QED BY <1>1, <2>1, <2>3, RunKeeps DEF a
<1>7. CASE in.op = "lea"
  <2> DEFINE regs1 == [regs EXCEPT ![a[in.def]] = Value("address", in.mem)]
  <2>1. Values(env, regs1, mem, made)
    BY <1>7 DEF RunInserted, R
  <2>2. Performs(in, a, regs, mem, regs1, mem)
    BY <1>7 DEF Performs, AddressOf
  <2> HIDE DEF regs1, in, a
  <2>3. Runs(Given, fn, a, t, env, regs1, mem)
    BY <1>1, <1>2, <2>2, InsertedRuns
  <2> QED BY <1>1, <2>1, <2>3, RunKeeps DEF a
<1>8. CASE in.op = "store"
  <2> DEFINE mem1 == Written(SlotOf(in), regs[a[Last(in.uses)]])
  <2>1. Values(env, regs, mem1, made)
    BY <1>8 DEF RunInserted, R
  <2>2. Performs(in, a, regs, mem, regs, mem1)
    BY <1>4, <1>8 DEF Performs, Written
  <2> HIDE DEF mem1, in, a
  <2>3. Runs(Given, fn, a, t, env, regs, mem1)
    BY <1>1, <1>2, <2>2, InsertedRuns
  <2> QED BY <1>1, <2>1, <2>3, RunKeeps DEF a
<1> QED BY <1>3, <1>5, <1>6, <1>7, <1>8

LEMMA RunSourceInv ==
  ASSUME RunInv, RunSource
  PROVE  RunInv'
<1> DEFINE in == Here
           b == at[1]
           i == at[2]
           t == <<b, i + 1>>
           a == varToReg
           src == SourceOf(in.id)
           fresh == Value("made", ToString(made + 1))
           new == IF in.op = "move" THEN env[src.uses[1]] ELSE fresh
           newR == IF in.op = "move" THEN regs[a[in.uses[1]]] ELSE fresh
           kept == [r \in Reg |-> IF in.op = "call" /\ r \in CallerSaved THEN Junk ELSE regs[r]]
           env1 == IF src.def = None THEN env ELSE [env EXCEPT ![src.def] = new]
           regs1 == IF in.def = None THEN kept ELSE [kept EXCEPT ![a[in.def]] = newR]
<1>1. /\ i <= Len(fn.code[b]) /\ ~IsInsert(in) /\ at' = t /\ in = fn.code[b][i]
      /\ in.op \in {"op", "move", "call"}
  BY DEF RunSource, Running, Advance, Here
<1>2. Runs(Given, fn, a, <<b, i>>, env, regs, mem)
  BY StandsHere
<1>3. Values(env1, regs1, mem, made + 1)
  BY DEF RunSource, R
<1>4. src = Origin(Given, in.id)
  BY DEF SourceOf, Origin, At
<1>5. Computes(src, in, a, env, regs, fresh, env1, regs1)
  BY DEF Computes
<1> HIDE DEF env1, regs1, in, a, src, fresh
<1>6. Runs(Given, fn, a, t, env1, regs1, mem)
  BY <1>1, <1>2, <1>4, <1>5, SourceRuns
<1> QED BY <1>1, <1>3, <1>6, RunKeeps DEF a

LEMMA RunJumpInv ==
  ASSUME RunInv, RunJump
  PROVE  RunInv'
<1>1. PICK s \in fn.succ[at[1]] : at' = <<s, 1>>
  BY DEF RunJump
<1>2. /\ at[2] <= Len(fn.code[at[1]]) /\ fn.code[at[1]][at[2]].op = "branch"
      /\ Values(env, regs, mem, made)
  BY DEF RunJump, Running, Here
<1>3. Runs(Given, fn, varToReg, <<s, 1>>, env, regs, mem)
  BY <1>2, StandsHere, BranchRuns
<1> QED BY <1>1, <1>2, <1>3, RunKeeps

\* A function that calls others and has a large frame: at the end of its entry block
\* the prologue overwrites a register that is still to be read.  It holds a parameter
\* then (the run large_frame shows one).
Overwrites ==
  /\ pc = "run" /\ IsCaller /\ FarReturnAddress
  /\ \E v \in LiveAfter(fn)[1][Len(fn.code[1])] : R(v) = Scratch

LEMMA LeaveEntryInv ==
  ASSUME RunInv, LeaveEntry, ~Overwrites
  PROVE  RunInv'
<1> DEFINE f == fn
           a == varToReg
           i == at[2]
           e == env
           r == StoreRA
           live == LiveAfter(f)[1][Len(f.code[1])]
<1>1. PICK s \in f.succ[1] : at' = <<s, 1>>
  BY DEF LeaveEntry
<1>2. ~(i <= Len(f.code[1])) /\ Values(e, r, mem, made)
  BY DEF LeaveEntry, Running
<1>3. Runs(Given, f, a, <<1, i>>, e, regs, mem)
  BY StandsHere DEF LeaveEntry
<1>4. \/ r = regs
      \/ /\ r = [regs EXCEPT ![Scratch] = Value("address", "ra")]
         /\ \A v \in live : a[v] # Scratch
  BY DEF LeaveEntry, StoreRA, Overwrites, R
<1> HIDE DEF f, a, i, e, r, live
<1>5. \A x \in Reg : x # Scratch \/ r = regs => r[x] = regs[x]
  <2>1. DOMAIN regs = Reg
    BY <1>3 DEF Runs
  <2> QED BY <1>4, <2>1
<1>6. DOMAIN r = Reg
  <2>1. DOMAIN regs = Reg
    BY <1>3 DEF Runs
  <2> QED BY <1>4, <2>1
<1>7. \A v \in live : a[v] # Scratch \/ r = regs
  BY <1>4
<1>8. Runs(Given, f, a, <<s, 1>>, e, r, mem)
  BY <1>1, <1>2, <1>3, <1>5, <1>6, <1>7, EntryRuns DEF live
<1> QED BY <1>1, <1>2, <1>8, RunKeeps DEF f, a

-----------------------------------------------------------------------------
(* From the allocator to the run. *)

\* The rewritings keep the blocks of a function.
LEMMA RewritingKeepsEntry ==
  ASSUME NEW f, NEW v, 1 \in DOMAIN f.code
  PROVE  1 \in DOMAIN SpillCode(f, v).code /\ 1 \in DOMAIN RewriteLargeOffset(f).code
<1>1. DOMAIN SpillCode(f, v).code = DOMAIN f.code
  BY DEF SpillCode, SpillStores, Replaced, Function
<1>2. DOMAIN RewriteLargeOffset(f).code = DOMAIN f.code
  BY DEF RewriteLargeOffset, Addressed, Replaced, Function
<1> QED BY <1>1, <1>2

\* While registers are allocated the code has a certificate, and it can be entered.
AllocInv ==
  /\ IInv /\ ClosedInv /\ FrameNames(fn)
  /\ Certified(Given, fn)
  /\ 1 \in DOMAIN fn.code
  /\ at = <<1, 1>>

\* No stack object of the functions has the name of another or of a variable.
StackNames == \A p \in Programs : ObjectNames(Functions[p])

LEMMA ProgramsAreSource ==
  ASSUME StackNames, NEW p \in Programs
  PROVE  Source(Functions[p])
BY FunctionAssumption, RunAssumption DEF StackNames, Source

LEMMA AllocInit ==
  ASSUME FreshNames, StackNames, ExecInit
  PROVE  AllocInv
<1>1. prog \in Programs /\ fn = CreateRegisters(Given) /\ at = <<1, 1>> /\ pc = "build" /\ Init
  BY DEF ExecInit, Given, Init
<1>2. Source(Given)
  BY <1>1, ProgramsAreSource DEF Given
<1>3. IInv
  BY <1>1, InitInv
<1>4. ClosedInv
  <2>1. Closed(fn) /\ NamesLeft(fn)
    BY <1>1, <1>2, CreateRegistersClosed DEF FreshNames, Source, Given
  <2> QED BY <1>1, <2>1 DEF ClosedInv, NoNullNode
<1>5. Certified(Given, fn) /\ FrameNames(fn)
  BY <1>1, <1>2, CreatedCertified
<1>6. 1 \in DOMAIN fn.code
  <2> DEFINE n == Len(Given.code)
  <2>1. n = Len(Given.code) /\ WellFormed(Given)
    BY <1>2 DEF Source
  <2> HIDE DEF n
  <2>2. n \in Nat /\ DOMAIN fn.code = 1..(n + 1)
    BY <1>1, <2>1, CreatedIs DEF CreatedFrom
  <2> QED BY <2>2
<1> QED BY <1>1, <1>3, <1>4, <1>5, <1>6 DEF AllocInv

LEMMA AllocStep ==
  ASSUME OneToOne, Source(Given), AllocInv, pc # "run", [Next]_vars, UNCHANGED exec
  PROVE  AllocInv'
<1>1. IInv' /\ ClosedInv'
  BY NextInv, ClosedStep DEF AllocInv
<1>2. Given' = Given /\ at' = at
  BY DEF exec, Given
<1>3. /\ Closed(fn) /\ NamesLeft(fn) /\ FrameNames(fn) /\ Certified(Given, fn) /\ 1 \in DOMAIN fn.code
      /\ Reg \subseteq fn.locals
  BY DEF AllocInv, ClosedInv, IInv, TypeOK
<1>4. CASE pc = "build" /\ BuildGraph
  <2>1. fn' = RewriteLargeOffset(fn)
    BY <1>4 DEF BuildGraph
  <2>2. Certified(Given, fn') /\ FrameNames(fn')
    BY <1>3, <2>1, AddressedCertified
  <2>3. 1 \in DOMAIN fn'.code
    BY <1>3, <2>1, RewritingKeepsEntry
  <2> QED BY <1>1, <1>2, <2>2, <2>3 DEF AllocInv
<1>5. CASE pc' = "build" /\ Top \in fn.locals \ Reg /\ fn' = SpillCode(fn, Top)
  <2>1. Given.params \in Seq(ToSet(Given.params))
    BY DEF Source, WellFormed
  <2>2. Certified(Given, fn') /\ FrameNames(fn')
    BY <1>3, <1>5, <2>1, SpillCertified
  <2>3. 1 \in DOMAIN fn'.code
    BY <1>3, <1>5, RewritingKeepsEntry
  <2> QED BY <1>1, <1>2, <2>2, <2>3 DEF AllocInv
<1>6. CASE fn' = fn
  BY <1>1, <1>2, <1>3, <1>6 DEF AllocInv
<1> QED BY <1>4, <1>5, <1>6, CodeSteps DEF AllocInv

\* The published registers are a sound allocation.
LEMMA PublishedSound ==
  ASSUME IInv, pc = "done"
  PROVE  Sound(fn, varToReg)
<1>1. /\ varToReg = color /\ Precolored /\ Reg \subseteq fn.locals
      /\ color \in [fn.locals -> Reg \cup {None}]
  BY DEF IInv, Built, Published, TypeOK
<1>2. \A v \in fn.locals : color[v] # None
  BY <1>1, PlacedFromInv DEF EveryVariablePlaced
<1>3. varToReg \in [fn.locals -> Reg]
  BY <1>1, <1>2
<1>4. \A x \in Reg : varToReg[x] = x
  BY <1>1 DEF Precolored
<1>5. ASSUME NEW u \in fn.locals, NEW v \in Interference(fn)[u] \ {u} PROVE varToReg[u] # varToReg[v]
  <2>1. v \in fn.locals
    BY InterferenceGraph
  <2> QED BY <1>1, <1>2, <2>1, ColoringFromInv DEF ProperColoring, Uncolored
<1> QED BY <1>3, <1>4, <1>5 DEF Sound

\* The caller's values are where the convention puts them.
LEMMA StartArrives ==
  ASSUME Source(Given), StartRun
  PROVE  Arrived(Given, env', regs', mem')
<1> DEFINE g == Given
           Arg(j) == Value("argument", g.params[j])
           PassedIn(x) == {j \in DOMAIN g.params : j <= Len(ArgRegs) /\ ArgRegs[j] = x}
           high == {j \in DOMAIN g.params : j > Len(ArgRegs)}
<1>1. env' = [v \in VariablesOf(g) |-> IF v \in ToSet(g.params) THEN Value("argument", v) ELSE Junk]
  BY DEF StartRun, SourceVariables, VariablesOf
<1>2. /\ DOMAIN regs' = Reg
      /\ \A x \in Reg : IF PassedIn(x) # {} THEN \E j \in PassedIn(x) : regs'[x] = Arg(j)
                        ELSE regs'[x] = CallerOf(x)
  <2>1. regs' = [r \in Reg |->
                   IF \E j \in DOMAIN g.params : j <= Len(ArgRegs) /\ ArgRegs[j] = r
                   THEN Arg(CHOOSE j \in DOMAIN g.params : j <= Len(ArgRegs) /\ ArgRegs[j] = r)
                   ELSE Value("caller", r)]
    BY DEF StartRun
  <2>2. ASSUME NEW x \in Reg, PassedIn(x) # {} PROVE \E j \in PassedIn(x) : regs'[x] = Arg(j)
    <3> DEFINE j == CHOOSE j \in DOMAIN g.params : j <= Len(ArgRegs) /\ ArgRegs[j] = x
    <3>1. \E k \in DOMAIN g.params : k <= Len(ArgRegs) /\ ArgRegs[k] = x
      BY <2>2
    <3>2. j \in DOMAIN g.params /\ j <= Len(ArgRegs) /\ ArgRegs[j] = x
      BY <3>1
    <3>3. regs'[x] = Arg(j)
      BY <2>1, <3>1
    <3> QED BY <3>2, <3>3
  <2>3. ASSUME NEW x \in Reg, PassedIn(x) = {} PROVE regs'[x] = CallerOf(x)
    <3>1. ~ \E j \in DOMAIN g.params : j <= Len(ArgRegs) /\ ArgRegs[j] = x
      BY <2>3
    <3> QED BY <2>1, <3>1 DEF CallerOf
  <2> QED BY <2>1, <2>2, <2>3
<1>3. /\ DOMAIN mem' = {MemOf(g.params[j]) : j \in high}
      /\ \A s \in DOMAIN mem' : \E j \in DOMAIN g.params : MemOf(g.params[j]) = s /\ mem'[s] = Arg(j)
  <2>1. mem' = [s \in {MemOf(g.params[j]) : j \in high} |->
                  Arg(CHOOSE j \in DOMAIN g.params : MemOf(g.params[j]) = s)]
    BY DEF StartRun
  <2>2. ASSUME NEW s \in DOMAIN mem'
        PROVE  \E j \in DOMAIN g.params : MemOf(g.params[j]) = s /\ mem'[s] = Arg(j)
    <3> DEFINE j == CHOOSE j \in DOMAIN g.params : MemOf(g.params[j]) = s
    <3>1. \E k \in DOMAIN g.params : MemOf(g.params[k]) = s
      BY <2>1
    <3>2. j \in DOMAIN g.params /\ MemOf(g.params[j]) = s
      BY <3>1
    <3>3. mem'[s] = Arg(j)
      BY <2>1
    <3> QED BY <3>2, <3>3
  <2> QED BY <2>1, <2>2
<1> QED BY <1>1, <1>2, <1>3 DEF Arrived

LEMMA StartRunInv ==
  ASSUME Source(Given), AllocInv, StartRun
  PROVE  RunInv'
<1>1. pc = "done" /\ Given' = Given /\ fn' = fn /\ varToReg' = varToReg /\ at' = <<1, 1>>
  BY DEF StartRun, AllocInv, Given
<1> DEFINE g == Given
           f == fn
           a == varToReg
<1>2. PICK P, Q : Certificate(g, f, P, Q)
  BY DEF AllocInv, Certified
<1>3. Arrived(g, env', regs', mem')
  BY StartArrives
<1>4. Allocated(g, f, a)
  <2>1. Sound(f, a)
    BY <1>1, PublishedSound DEF AllocInv
  <2> QED BY <2>1 DEF Allocated, AllocInv, ClosedInv, IInv, TypeOK, Source
<1>5. \A x \in Reg : a[x] = x
  BY <1>4 DEF Allocated, Sound
<1>6. Holds(Arrival(g), LiveAfter(f)[1][0], a, env', regs', mem')
  BY <1>3, <1>5, ArrivalHolds
<1>7. Weaker(P[1], Arrival(g))
  BY <1>2 DEF Certificate
<1>8. Holds(P[1], LiveAfter(f)[1][0], a, env', regs', mem')
  BY <1>6, <1>7, WeakerHolds
<1>9. DOMAIN env' = VariablesOf(g) /\ DOMAIN regs' = Reg /\ 1 \in DOMAIN f.code
  BY <1>3 DEF Arrived, AllocInv
<1> HIDE DEF g, f, a
<1>10. Runs(g, f, a, <<1, 1>>, env', regs', mem')
  BY <1>2, <1>4, <1>8, <1>9, Entered
<1> QED BY <1>1, <1>10 DEF RunInv, g, f, a

-----------------------------------------------------------------------------
(* The theorems. *)

\* The certificate is kept while registers are allocated, and followed while the
\* code runs.
ExecInv ==
  /\ prog \in Programs
  /\ IF pc = "run" THEN Overwrites \/ RunInv ELSE AllocInv

LEMMA ExecStart ==
  ASSUME FreshNames, StackNames, ExecInit
  PROVE  ExecInv
<1>1. prog \in Programs /\ pc # "run"
  BY DEF ExecInit, Init
<1> QED BY <1>1, AllocInit DEF ExecInv

LEMMA ExecStep ==
  ASSUME FreshNames, StackNames, ExecInv, [ExecNext]_<<vars, exec>>
  PROVE  ExecInv'
<1>1. prog \in Programs /\ Source(Given)
  BY ProgramsAreSource DEF ExecInv, Given
<1>2. CASE AllocateStep \/ (UNCHANGED <<vars, exec>> /\ pc # "run")
  <2>1. AllocInv /\ pc # "run" /\ [Next]_vars /\ UNCHANGED exec
    BY <1>2 DEF AllocateStep, ExecInv
  <2>2. AllocInv'
    BY <1>1, <2>1, AllocStep DEF FreshNames
  <2>3. pc' # "run"
    BY <2>2 DEF AllocInv, IInv, TypeOK
  <2>4. prog' = prog
    BY <2>1 DEF exec
  <2> QED BY <1>1, <2>2, <2>3, <2>4 DEF ExecInv
<1>3. CASE StartRun
  <2>1. pc' = "run" /\ prog' = prog /\ AllocInv
    BY <1>3 DEF StartRun, ExecInv
  <2>2. RunInv'
    BY <1>1, <1>3, <2>1, StartRunInv
  <2> QED BY <1>1, <2>1, <2>2 DEF ExecInv
<1>4. ASSUME pc = "run", pc' = pc, prog' = prog, fn' = fn, varToReg' = varToReg, RunInv /\ ~Overwrites => RunInv'
      PROVE  ExecInv'
  <2>1. Overwrites' <=> Overwrites
    BY <1>4 DEF Overwrites, IsCaller, FarReturnAddress, Points, R
  <2> QED BY <1>1, <1>4, <2>1 DEF ExecInv
<1>5. CASE RunInserted
  <2>1. pc = "run" /\ pc' = pc /\ prog' = prog /\ fn' = fn /\ varToReg' = varToReg
    BY <1>5 DEF RunInserted, Running, Values
  <2> QED BY <1>4, <1>5, <2>1, RunInsertedInv
<1>6. CASE RunSource
  <2>1. pc = "run" /\ pc' = pc /\ prog' = prog /\ fn' = fn /\ varToReg' = varToReg
    BY <1>6 DEF RunSource, Running, Values
  <2> QED BY <1>4, <1>6, <2>1, RunSourceInv
<1>7. CASE RunJump
  <2>1. pc = "run" /\ pc' = pc /\ prog' = prog /\ fn' = fn /\ varToReg' = varToReg
    BY <1>7 DEF RunJump, Running, Values
  <2> QED BY <1>4, <1>7, <2>1, RunJumpInv
<1>8. CASE LeaveEntry
  <2>1. pc = "run" /\ pc' = pc /\ prog' = prog /\ fn' = fn /\ varToReg' = varToReg
    BY <1>8 DEF LeaveEntry, Values
  <2> QED BY <1>4, <1>8, <2>1, LeaveEntryInv
<1>9. CASE UNCHANGED <<vars, exec>> /\ pc = "run"
  <2>1. pc' = pc /\ prog' = prog /\ fn' = fn /\ varToReg' = varToReg
        /\ at' = at /\ env' = env /\ regs' = regs /\ mem' = mem /\ Given' = Given
    BY <1>9 DEF vars, exec, Given
  <2>2. RunInv => RunInv'
    BY <2>1 DEF RunInv
  <2> QED BY <1>4, <1>9, <2>1, <2>2
<1> QED BY <1>2, <1>3, <1>5, <1>6, <1>7, <1>8, <1>9 DEF ExecNext

LEMMA ExecInductive ==
  ASSUME FreshNames, StackNames
  PROVE  ExecSpec => []ExecInv
BY ExecStart, ExecStep, PTL DEF ExecSpec

\* The allocated code computes what the source computes: whatever the function, the
\* registers and the order in which nodes are simplified, coalesced and spilled,
\* every instruction of the source that is reached reads there the values it reads
\* in the source, on every path, after every spill and rewriting - unless a large
\* frame makes the prologue overwrite a register.
THEOREM SourceValuesReach ==
  ASSUME FreshNames, StackNames
  PROVE  ExecSpec => [](~Overwrites => SameOperands)
<1>1. ExecInv /\ ~Overwrites => SameOperands
  <2> SUFFICES ASSUME ExecInv, ~Overwrites, Running, ~IsInsert(Here)
               PROVE  LET in  == Here
                          src == SourceOf(in.id)
                      IN  \A k \in DOMAIN src.uses :
                            IF k \in DOMAIN in.uses
                            THEN regs[R(in.uses[k])] = env[src.uses[k]]
                            ELSE ReadMem(Fresh(Fresh("param", in.id) \o "_", k)) = env[src.uses[k]]
    BY DEF SameOperands
  <2> DEFINE in == Here
             src == SourceOf(in.id)
             b == at[1]
             i == at[2]
             a == varToReg
  <2>1. Runs(Given, fn, a, <<b, i>>, env, regs, mem)
    BY StandsHere DEF ExecInv, Running
  <2>2. i <= Len(fn.code[b]) /\ in = fn.code[b][i]
    BY DEF Running, Here
  <2>3. src = Origin(Given, in.id)
    BY DEF SourceOf, Origin, At
  <2> HIDE DEF in, src, b, i, a
  <2>4. Reads(src, in, a, env, regs, mem)
    BY <2>1, <2>2, <2>3, RunReads DEF in
  <2> QED BY <2>4 DEF Reads, ReadMem, R, a, src, in
<1> QED BY <1>1, ExecInductive, PTL

\* The caller finds its callee-saved registers as it left them, however many there are and
\* whichever of their copies the allocator kept in place, moved or spilled, near or far -
\* unless the address or the value of a spilled copy is fetched, on the way to the return,
\* through a register that was already put back.
THEOREM CalleeSavedRestored ==
  ASSUME FreshNames, StackNames
  PROVE  ExecSpec => [](~Overwrites /\ ~FetchedOver => CalleeSavedKept)
<1>1. ExecInv /\ ~Overwrites /\ ~FetchedOver => CalleeSavedKept
  <2> SUFFICES ASSUME ExecInv, ~Overwrites, ~FetchedOver, Running, Here.op = "ret",
                      NEW r \in ToSet(CalleeSaved)
               PROVE  regs[r] = Value("caller", r)
    BY DEF CalleeSavedKept
  <2> DEFINE in == Here
             b == at[1]
             i == at[2]
             a == varToReg
  <2>1. Runs(Given, fn, a, <<b, i>>, env, regs, mem)
    BY StandsHere DEF ExecInv, Running
  <2>2. i <= Len(fn.code[b]) /\ in = fn.code[b][i] /\ in.op = "ret"
    BY DEF Running, Here
  <2>3. i \in Nat
    BY <2>1 DEF Runs
  <2>4. \A k, j \in 1..(i - 1) :
          k < j /\ PutsBack(fn.code[b][k], r) => ~Brings(fn.code[b][j], a, r)
    BY DEF FetchedOver, Fetches, Brings, R
  <2> HIDE DEF in, b, i, a
  <2>5. Returned(fn, a, b, i, regs)
    BY <2>1, <2>2, RunReturns
  <2>6. PICK k \in 1..(i - 1) :
          /\ PutsBack(fn.code[b][k], r)
          /\ regs[r] = CallerOf(r) \/ \E j \in (k + 1)..(i - 1) : Brings(fn.code[b][j], a, r)
    BY <2>5 DEF Returned
  <2>7. ASSUME NEW j \in (k + 1)..(i - 1) PROVE ~Brings(fn.code[b][j], a, r)
    <3>1. j \in 1..(i - 1) /\ k < j
      BY <2>3
    <3> QED BY <2>4, <2>6, <3>1
  <2> QED BY <2>6, <2>7 DEF CallerOf
<1> QED BY <1>1, ExecInductive, PTL
=============================================================================
