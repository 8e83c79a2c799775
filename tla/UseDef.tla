------------------------------- MODULE UseDef -------------------------------
(***************************************************************************)
(* Values and users of the intermediate representation: each user keeps    *)
(* the operands it reads, each value keeps the users that read it, and the *)
(* two are updated by hand.  A phi keeps a third copy: the value it takes  *)
(* from each predecessor (optional_values).  Passes look for what to       *)
(* change through the users, so a user that is missing there is missed.    *)
(*                                                                         *)
(* Passes may call the operations in any order.  The operands of a user    *)
(* are counted, their order is left out: no operation depends on it.       *)
(***************************************************************************)
EXTENDS Integers, FiniteSets, TLC

CONSTANTS
  Values,      \* every value: users, blocks and the rest
  Users,       \* the values that have operands (a block never gets any)
  Phis,        \* the users that are phis
  Blocks,      \* the values that are blocks
  Null,        \* no value: nullptr
  None,        \* no key in optional_values
  MaxUses      \* bound: how often a user has one operand

ASSUME ValueAssumption ==
  /\ Phis \subseteq Users /\ Users \subseteq Values /\ Blocks \subseteq Values
  /\ Users \cap Blocks = {} /\ IsFiniteSet(Blocks)
  /\ None \notin Values /\ Null \notin Values /\ None # Null
  /\ MaxUses \in Nat \ {0}

VARIABLES
  operands_,       \* how often each user has each value as an operand
  users_,          \* the users each value knows of
  optional_values  \* of each phi: the value for each block it has as a key

vars == <<operands_, users_, optional_values>>

NoOperands == [v \in Values |-> 0]
NoOptions  == [b \in Blocks |-> None]

Init ==
  /\ operands_ = [u \in Users |-> NoOperands]
  /\ users_ = [v \in Values |-> {}]
  /\ optional_values = [p \in Phis |-> NoOptions]

-----------------------------------------------------------------------------
(* Operations of User. *)

\* Mutant: the value is not told.
AddOperandOneWay(u, v) ==
  /\ operands_[u][v] < MaxUses
  /\ operands_' = [operands_ EXCEPT ![u][v] = @ + 1]
  /\ users_' = users_

\* add_operand.
AddOperand(u, v) ==
  /\ operands_[u][v] < MaxUses
  /\ operands_' = [operands_ EXCEPT ![u][v] = @ + 1]
  /\ users_' = [users_ EXCEPT ![v] = @ \cup {u}]

\* The instruction constructors add the operands one by one.
GiveOperand(u, v) ==
  /\ u \notin Phis
  /\ AddOperand(u, v)
  /\ UNCHANGED optional_values

\* What the operands are when every one that is v becomes w; v may be w.
Renamed(ops, v, w) == [ops EXCEPT ![v] = 0, ![w] = @ + ops[v]]

\* Mutant: only one of the options that are v is found.
RenamedOnce(options, v, w) ==
  LET at == CHOOSE b \in Blocks : options[b] = v
  IN  IF \E b \in Blocks : options[b] = v THEN [options EXCEPT ![at] = w] ELSE options

\* Mutant: a phi renames its operands only.
OptionsNotRenamed(options, v, w) == options

\* The options of a phi when v becomes w: a block is a key, anything else a value.
\* A value kept for the new block is overwritten; it stays an operand.
RenamedOptions(options, v, w) ==
  IF v \in Blocks
  THEN [options EXCEPT ![v] = None, ![w] = options[v]]
  ELSE [b \in Blocks |-> IF options[b] = v THEN w ELSE options[b]]

\* A block replaces a block, and the phis in us have the old block as a key: the
\* code stops with an error otherwise.  The new value may be the old one.
Replaceable(us, v, w) ==
  /\ v \in Blocks <=> w \in Blocks
  /\ \A u \in us : Renamed(operands_[u], v, w)[w] <= MaxUses
  /\ v \in Blocks => \A p \in us \cap Phis : optional_values[p][v] # None

ModifiedOptions(us, v, w) ==
  [p \in Phis |-> IF p \in us THEN RenamedOptions(optional_values[p], v, w)
                  ELSE optional_values[p]]

\* modify_operand, also through Block::modify_successor.
ModifyOperand(u, v, w) ==
  /\ operands_[u][v] > 0
  /\ Replaceable({u}, v, w)
  /\ operands_' = [operands_ EXCEPT ![u] = Renamed(@, v, w)]
  /\ users_' = [users_ EXCEPT ![v] = @ \ {u}, ![w] = @ \cup {u}]
  /\ optional_values' = ModifiedOptions({u}, v, w)

\* replace_by_new_value: modify_operand of every user v knows of, which then
\* forgets them all, also when it was replaced by itself.
ReplaceByNewValue(v, w) ==
  /\ users_[v] # {}
  /\ Replaceable(users_[v], v, w)
  /\ operands_' = [u \in Users |-> IF u \in users_[v] THEN Renamed(operands_[u], v, w)
                                   ELSE operands_[u]]
  /\ users_' = [users_ EXCEPT ![w] = @ \cup users_[v], ![v] = {}]
  /\ optional_values' = ModifiedOptions(users_[v], v, w)

\* Mutant: a phi is cleared like any user, it keeps its options.
ClearOperandsOnly(u) ==
  /\ operands_' = [operands_ EXCEPT ![u] = NoOperands]
  /\ users_' = [v \in Values |-> IF operands_[u][v] > 0 THEN users_[v] \ {u} ELSE users_[v]]
  /\ UNCHANGED optional_values

\* clear_operands of an instruction a pass removes, or its destruction.
ClearOperands(u) ==
  /\ operands_' = [operands_ EXCEPT ![u] = NoOperands]
  /\ users_' = [v \in Values |-> IF operands_[u][v] > 0 THEN users_[v] \ {u} ELSE users_[v]]
  /\ optional_values' = [p \in Phis |-> IF p = u THEN NoOptions ELSE optional_values[p]]

-----------------------------------------------------------------------------
(* Operations of Phi. *)

\* Phi::create before the values are known: a key and an operand for each block.
CreatePhi(p, bs) ==
  /\ bs # {}
  /\ operands_[p] = NoOperands /\ optional_values[p] = NoOptions
  /\ optional_values' = [optional_values EXCEPT ![p] = [b \in Blocks |-> IF b \in bs THEN Null
                                                                        ELSE None]]
  /\ operands_' = [operands_ EXCEPT ![p] = [v \in Values |-> IF v \in bs THEN 1 ELSE 0]]
  /\ users_' = [v \in Values |-> IF v \in bs THEN users_[v] \cup {p} ELSE users_[v]]

\* set_optional_value: the value becomes an operand, and so does a new block.
SetOptionalValue(p, b, v) ==
  LET keyed == optional_values[p][b] = Null IN
  /\ optional_values[p][b] \in {None, Null}
  /\ v \notin Blocks
  /\ operands_[p][v] < MaxUses
  /\ optional_values' = [optional_values EXCEPT ![p][b] = v]
  /\ operands_' = [operands_ EXCEPT ![p][b] = IF keyed THEN @ ELSE @ + 1, ![p][v] = @ + 1]
  /\ users_' = [users_ EXCEPT ![b] = IF keyed THEN @ ELSE @ \cup {p}, ![v] = @ \cup {p}]

\* Mutant: the values keep the phi among their users.
RemoveKeepingUsers(p, b) ==
  LET v == optional_values[p][b] IN
  /\ v \in Values
  /\ optional_values' = [optional_values EXCEPT ![p][b] = None]
  /\ operands_' = [operands_ EXCEPT ![p][b] = @ - 1, ![p][v] = @ - 1]
  /\ users_' = users_

\* remove_optional_value: remove_operand takes one occurrence of the block and
\* one of the value away from the operands, and the phi away from their users,
\* even when another block gives it the same value.  nullptr is no operand.
RemoveOptionalValue(p, b) ==
  LET gone == {b, optional_values[p][b]} IN
  /\ optional_values[p][b] # None
  /\ optional_values' = [optional_values EXCEPT ![p][b] = None]
  /\ operands_' = [operands_ EXCEPT ![p] = [v \in Values |-> IF v \in gone THEN @[v] - 1
                                                            ELSE @[v]]]
  /\ users_' = [v \in Values |-> IF v \in gone THEN users_[v] \ {p} ELSE users_[v]]

-----------------------------------------------------------------------------
Next ==
  \/ \E u \in Users, v \in Values : GiveOperand(u, v)
  \/ \E u \in Users, v, w \in Values : ModifyOperand(u, v, w)
  \/ \E v, w \in Values : ReplaceByNewValue(v, w)
  \/ \E u \in Users : ClearOperands(u)
  \/ \E p \in Phis, bs \in SUBSET Blocks : CreatePhi(p, bs)
  \/ \E p \in Phis, b \in Blocks, v \in Values : SetOptionalValue(p, b, v)
  \/ \E p \in Phis, b \in Blocks : RemoveOptionalValue(p, b)

Spec == Init /\ [][Next]_vars

\* No operation tells one block from another.
BlockSymmetry == Permutations(Blocks)

-----------------------------------------------------------------------------
\* Operands are counted, users are users, and a phi has at most one value for
\* each block, which is not a block.
TypeOK ==
  /\ operands_ \in [Users -> [Values -> Nat]]
  /\ users_ \in [Values -> SUBSET Users]
  /\ optional_values \in [Phis -> [Blocks -> (Values \ Blocks) \cup {None, Null}]]

\* No value keeps a user that no longer reads it: a pass that walks the users of
\* a value meets only instructions that have it as an operand.
UsersSound ==
  \A v \in Values : \A u \in users_[v] : operands_[u][v] > 0

\* An operand that its value does not know of.
Lost(u, v) == operands_[u][v] > 0 /\ u \notin users_[v]

OptionsOf(p, v) == {b \in Blocks : optional_values[p][b] = v}

\* The options of a phi are operands of it: the block, and the value as often as
\* it is an option.  There may be more: renaming a block may overwrite an option.
OptionsAreOperands ==
  \A p \in Phis :
    /\ \A b \in Blocks : optional_values[p][b] # None => operands_[p][b] > 0
    /\ \A v \in Values \ Blocks : Cardinality(OptionsOf(p, v)) <= operands_[p][v]

\* A phi that a block knows of has the block as a key, so that replacing a block
\* never runs into the error "Phi operand not found".
KnownBlocksAreKeys ==
  \A p \in Phis, b \in Blocks : p \in users_[b] => optional_values[p][b] # None

\* An option is removed whose block or value is more than once an operand.
SharedRemoval ==
  \E p \in Phis, b \in Blocks :
    /\ RemoveOptionalValue(p, b)
    /\ \E v \in {b, optional_values[p][b]} \cap Values : operands_[p][v] > 1

\* A value is replaced by itself: its users read it as before, and it forgets them.
SelfReplacement == \E v \in Values : ReplaceByNewValue(v, v)

NoneGetsLost ==
  \A u \in Users, v \in Values : Lost(u, v)' => Lost(u, v)

\* Two operations leave a value without a user that still reads it, and no other:
\* removing an option whose value the phi also takes from another block, or whose
\* block was renamed onto another, and replacing a value by itself.
UsersLostTwoWays == [][SharedRemoval \/ SelfReplacement \/ NoneGetsLost]_vars

\* Replacing a value that knows all its users by another one leaves no one reading it,
\* and every phi takes the new value from the blocks that gave it the old one.
ReplacedEverywhere ==
  [][\A v, w \in Values :
       ReplaceByNewValue(v, w) /\ v # w /\ v \notin Blocks
         /\ (\A u \in Users : ~Lost(u, v)) =>
       /\ \A u \in Users : operands_'[u][v] = 0
       /\ \A p \in Phis, b \in Blocks :
            optional_values'[p][b] = IF optional_values[p][b] = v THEN w
                                     ELSE optional_values[p][b]]_vars
=============================================================================
