------------------------- MODULE RegisterAllocation -------------------------
(***************************************************************************)
(* What a register allocator promises, whatever its method: starting from  *)
(* a function whose calls, parameters and returns have been given their    *)
(* registers, it may move variables out of registers and into the frame,   *)
(* never a physical register, and it ends by giving every remaining        *)
(* variable a register that no interfering variable shares.                *)
(***************************************************************************)
CONSTANTS
  Reg,              \* the physical registers
  Start,            \* the functions an allocation may start from
  Addressed(_),     \* a function with its far stack slots rewritten
  Spilled(_, _),    \* a function with a variable moved to its frame
  Neighbours(_)     \* the interference graph of a function

VARIABLES
  fn,    \* the function being allocated
  alloc  \* the allocation, empty until there is one

SoundFor(f, a) ==
  LET conflicts == Neighbours(f)
  IN  /\ a \in [f.locals -> Reg]
      /\ \A r \in Reg : a[r] = r
      /\ \A u \in f.locals : \A v \in conflicts[u] \ {u} : a[u] # a[v]

Init == fn \in Start /\ alloc = <<>>

Address ==
  /\ alloc = <<>>
  /\ fn' = Addressed(fn)
  /\ UNCHANGED alloc

Spill(v) ==
  /\ alloc = <<>>
  /\ v \in fn.locals \ Reg
  /\ fn' = Spilled(fn, v)
  /\ UNCHANGED alloc

Allocate ==
  /\ alloc = <<>>
  /\ SoundFor(fn, alloc')
  /\ UNCHANGED fn

Next == Address \/ (\E v \in fn.locals : Spill(v)) \/ Allocate

Spec == Init /\ [][Next]_<<fn, alloc>>
=============================================================================
