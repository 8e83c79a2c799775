--------------------------- MODULE UseDef_proofs ---------------------------
(***************************************************************************)
(* For any set of values: users are never stale, the options of a phi and  *)
(* its operands stay in step, and a user is lost in two ways only.         *)
(***************************************************************************)
EXTENDS UseDef, FiniteSetTheorems, TLAPS

IInv == TypeOK /\ UsersSound /\ OptionsAreOperands /\ KnownBlocksAreKeys

\* A phi has finitely many options of a value.
LEMMA OptionsFinite ==
  \A p \in Phis, v \in Values : IsFiniteSet(OptionsOf(p, v)) /\ Cardinality(OptionsOf(p, v)) \in Nat
  BY ValueAssumption, FS_Subset, FS_CardinalityType DEF OptionsOf

\* Before any instruction exists, the lists are empty.
LEMMA Initially == Init => IInv
  <1> SUFFICES ASSUME Init PROVE IInv
    OBVIOUS
  <1>1. TypeOK /\ UsersSound
    BY ValueAssumption DEF Init, TypeOK, UsersSound, NoOperands, NoOptions
  <1>2. OptionsAreOperands
    <2>1. \A p \in Phis, b \in Blocks : optional_values[p][b] = None
      BY DEF Init, NoOptions
    <2>2. \A p \in Phis, v \in Values \ Blocks : OptionsOf(p, v) = {}
      BY <2>1, ValueAssumption DEF OptionsOf
    <2>3. \A p \in Phis, v \in Values \ Blocks :
            Cardinality(OptionsOf(p, v)) = 0 /\ operands_[p][v] = 0
      BY <2>2, FS_EmptySet, ValueAssumption DEF Init, NoOperands
    <2> QED BY <2>1, <2>3 DEF OptionsAreOperands
  <1>3. KnownBlocksAreKeys
    BY ValueAssumption DEF Init, KnownBlocksAreKeys
  <1> QED BY <1>1, <1>2, <1>3 DEF IInv

\* add_operand keeps the invariant.
LEMMA GiveOperandKeeps ==
  ASSUME IInv, NEW u \in Users, NEW v \in Values, GiveOperand(u, v)
  PROVE  IInv'
  <1>1. TypeOK' /\ UsersSound'
    BY DEF IInv, GiveOperand, AddOperand, TypeOK, UsersSound
  <1>2. \A p \in Phis : operands_'[p] = operands_[p]
    BY ValueAssumption DEF IInv, GiveOperand, AddOperand, TypeOK
  <1>3. OptionsAreOperands'
    BY <1>2 DEF IInv, GiveOperand, OptionsAreOperands, OptionsOf
  <1>4. KnownBlocksAreKeys'
    BY ValueAssumption DEF IInv, GiveOperand, AddOperand, TypeOK, KnownBlocksAreKeys
  <1> QED BY <1>1, <1>3, <1>4 DEF IInv

\* clear_operands keeps it: every operand loses the user.
LEMMA ClearOperandsKeeps ==
  ASSUME IInv, NEW u \in Users, ClearOperands(u)
  PROVE  IInv'
  <1>1. TypeOK' /\ UsersSound'
    BY ValueAssumption DEF IInv, ClearOperands, TypeOK, UsersSound, NoOperands, NoOptions
  <1>2. ASSUME NEW p \in Phis
        PROVE  /\ \A b \in Blocks : optional_values'[p][b] # None => operands_'[p][b] > 0
               /\ \A v \in Values \ Blocks : Cardinality(OptionsOf(p, v)') <= operands_'[p][v]
    <2>1. CASE p = u
      <3>1. /\ \A b \in Blocks : optional_values'[p][b] = None
            /\ \A v \in Values : operands_'[p][v] = 0
        BY <2>1 DEF IInv, ClearOperands, TypeOK, NoOperands, NoOptions
      <3>2. \A v \in Values \ Blocks : OptionsOf(p, v)' = {}
        BY <3>1, ValueAssumption DEF OptionsOf
      <3>3. \A v \in Values \ Blocks : Cardinality(OptionsOf(p, v)') = 0
        BY <3>2, FS_EmptySet
      <3> QED BY <3>1, <3>3
    <2>2. CASE p # u
      <3>1. operands_'[p] = operands_[p] /\ optional_values'[p] = optional_values[p]
        BY <2>2, ValueAssumption DEF IInv, ClearOperands, TypeOK
      <3> QED BY <3>1 DEF IInv, OptionsAreOperands, OptionsOf
    <2> QED BY <2>1, <2>2
  <1>3. KnownBlocksAreKeys'
    <2> SUFFICES ASSUME NEW p \in Phis, NEW b \in Blocks, p \in users_'[b]
                 PROVE  optional_values'[p][b] # None
      BY DEF KnownBlocksAreKeys
    <2>1. p \in Users /\ b \in Values
      BY ValueAssumption
    <2>2. p \in users_[b] /\ ~(p = u /\ operands_[u][b] > 0)
      BY <2>1 DEF IInv, TypeOK, ClearOperands
    <2>3. p # u
      BY <2>1, <2>2 DEF IInv, UsersSound
    <2> QED BY <2>2, <2>3 DEF IInv, KnownBlocksAreKeys, ClearOperands
  <1> QED BY <1>1, <1>2, <1>3 DEF IInv, OptionsAreOperands

\* A new phi, which knows its blocks and has no options, keeps it.
LEMMA CreatePhiKeeps ==
  ASSUME IInv, NEW p \in Phis, NEW bs \in SUBSET Blocks, CreatePhi(p, bs)
  PROVE  IInv'
  <1>0. p \in Users /\ Phis \subseteq Users /\ Blocks \subseteq Values /\ Null \notin Values
    BY ValueAssumption
  <1>1. /\ \A u \in Users, x \in Values :
             operands_'[u][x] = IF u # p THEN operands_[u][x] ELSE IF x \in bs THEN 1 ELSE 0
        /\ \A q \in Phis, c \in Blocks :
             optional_values'[q][c] = IF q # p THEN optional_values[q][c]
                                      ELSE IF c \in bs THEN Null ELSE None
        /\ operands_' \in [Users -> [Values -> Nat]]
        /\ optional_values' \in [Phis -> [Blocks -> (Values \ Blocks) \cup {None, Null}]]
    BY <1>0 DEF IInv, TypeOK, CreatePhi
  <1>2. \A x \in Values : operands_[p][x] = 0
    BY DEF CreatePhi, NoOperands
  <1>3. TypeOK' /\ UsersSound'
    <2>1. users_' \in [Values -> SUBSET Users]
      BY <1>0 DEF IInv, TypeOK, CreatePhi
    <2>2. ASSUME NEW x \in Values, NEW u \in users_'[x]
          PROVE  operands_'[u][x] > 0
      <3>1. u \in Users /\ (u \in users_[x] \/ (u = p /\ x \in bs))
        BY <1>0, <2>2 DEF IInv, TypeOK, CreatePhi
      <3>2. u \in users_[x] => u # p
        BY <1>2 DEF IInv, UsersSound
      <3> QED BY <1>1, <3>1, <3>2 DEF IInv, UsersSound
    <2> QED BY <1>1, <2>1, <2>2 DEF TypeOK, UsersSound
  <1>4. ASSUME NEW q \in Phis
        PROVE  /\ \A c \in Blocks : optional_values'[q][c] # None => operands_'[q][c] > 0
               /\ \A x \in Values \ Blocks : Cardinality(OptionsOf(q, x)') <= operands_'[q][x]
    <2>1. CASE q = p
      <3>1. \A x \in Values : OptionsOf(q, x)' = {}
        BY <1>1, <2>1, ValueAssumption DEF OptionsOf
      <3>2. \A x \in Values : Cardinality(OptionsOf(q, x)') = 0
        BY <3>1, FS_EmptySet
      <3> QED BY <1>0, <1>1, <2>1, <3>2
    <2>2. CASE q # p
      <3>1. \A x : OptionsOf(q, x)' = OptionsOf(q, x)
        BY <1>1, <2>2 DEF OptionsOf
      <3>2. \A x \in Values : operands_'[q][x] = operands_[q][x]
        BY <1>0, <1>1, <2>2
      <3>3. \A c \in Blocks : optional_values'[q][c] = optional_values[q][c]
        BY <1>1, <2>2
      <3> QED BY <1>0, <3>1, <3>2, <3>3 DEF IInv, OptionsAreOperands
    <2> QED BY <2>1, <2>2
  <1>5. KnownBlocksAreKeys'
    <2> SUFFICES ASSUME NEW q \in Phis, NEW b \in Blocks, q \in users_'[b]
                 PROVE  optional_values'[q][b] # None
      BY DEF KnownBlocksAreKeys
    <2>1. q \in users_[b] \/ (q = p /\ b \in bs)
      BY <1>0 DEF CreatePhi
    <2>2. q \in users_[b] => q # p /\ optional_values[q][b] # None
      BY <1>0, <1>2 DEF IInv, UsersSound, KnownBlocksAreKeys
    <2> QED BY <1>1, <2>1, <2>2, ValueAssumption
  <1> QED BY <1>3, <1>4, <1>5 DEF IInv, OptionsAreOperands

\* Setting a new option adds one operand of each kind.
LEMMA SetOptionalValueKeeps ==
  ASSUME IInv, NEW p \in Phis, NEW b \in Blocks, NEW v \in Values, SetOptionalValue(p, b, v)
  PROVE  IInv'
  <1>0. /\ p \in Users /\ b \in Values /\ b # v /\ v \in Values \ Blocks
        /\ v # None /\ v # Null /\ None # Null
        /\ optional_values[p][b] \in {None, Null}
    BY ValueAssumption DEF SetOptionalValue
  <1>k. /\ operands_[p][b] \in Nat /\ operands_[p][v] \in Nat
        /\ optional_values[p][b] = Null => operands_[p][b] > 0
    BY <1>0 DEF IInv, TypeOK, OptionsAreOperands
  <1>1. /\ \A u \in Users, x \in Values :
             operands_'[u][x] = IF u = p /\ x = v THEN operands_[u][x] + 1
                                ELSE IF u = p /\ x = b /\ optional_values[p][b] # Null
                                THEN operands_[u][x] + 1
                                ELSE operands_[u][x]
        /\ \A q \in Phis, c \in Blocks :
             optional_values'[q][c] = IF q = p /\ c = b THEN v ELSE optional_values[q][c]
        /\ operands_' \in [Users -> [Values -> Nat]]
        /\ optional_values' \in [Phis -> [Blocks -> (Values \ Blocks) \cup {None, Null}]]
    <2>1. CASE optional_values[p][b] = Null
      <3>1. operands_' = [operands_ EXCEPT ![p][v] = @ + 1]
        BY <1>0, <2>1 DEF SetOptionalValue, IInv, TypeOK
      <3> QED BY <1>0, <2>1, <3>1 DEF IInv, TypeOK, SetOptionalValue
    <2>2. CASE optional_values[p][b] # Null
      <3>1. operands_' = [operands_ EXCEPT ![p][b] = @ + 1, ![p][v] = @ + 1]
        BY <2>2 DEF SetOptionalValue
      <3> QED BY <1>0, <2>2, <3>1 DEF IInv, TypeOK, SetOptionalValue
    <2> QED BY <2>1, <2>2
  <1>2. TypeOK' /\ UsersSound'
    <2>1. users_' \in [Values -> SUBSET Users]
      BY <1>0 DEF IInv, TypeOK, SetOptionalValue
    <2>2. ASSUME NEW x \in Values, NEW u \in users_'[x]
          PROVE  operands_'[u][x] > 0
      <3>1. u \in Users /\ (u \in users_[x] \/ (u = p /\ x \in {b, v}))
        BY <1>0, <2>2 DEF IInv, TypeOK, SetOptionalValue
      <3>2. operands_[u][x] \in Nat
        BY <3>1 DEF IInv, TypeOK
      <3>3. u \in users_[x] => operands_[u][x] > 0
        BY DEF IInv, UsersSound
      <3> QED BY <1>0, <1>1, <1>k, <3>1, <3>2, <3>3
    <2> QED BY <1>1, <2>1, <2>2 DEF TypeOK, UsersSound
  <1>3. ASSUME NEW q \in Phis
        PROVE  /\ \A c \in Blocks : optional_values'[q][c] # None => operands_'[q][c] > 0
               /\ \A x \in Values \ Blocks : Cardinality(OptionsOf(q, x)') <= operands_'[q][x]
    <2>0. q \in Users /\ Blocks \subseteq Values
      BY ValueAssumption
    <2>1. \A c \in Blocks : optional_values'[q][c] # None => operands_'[q][c] > 0
      <3> SUFFICES ASSUME NEW c \in Blocks, optional_values'[q][c] # None
                   PROVE  operands_'[q][c] > 0
        OBVIOUS
      <3>1. operands_[q][c] \in Nat /\ (optional_values[q][c] # None => operands_[q][c] > 0)
        BY <2>0 DEF IInv, TypeOK, OptionsAreOperands
      <3> QED BY <1>0, <1>1, <1>k, <2>0, <3>1
    <2>2. ASSUME NEW x \in Values \ Blocks
          PROVE  Cardinality(OptionsOf(q, x)') <= operands_'[q][x]
      <3>1. /\ Cardinality(OptionsOf(q, x)) <= operands_[q][x]
            /\ Cardinality(OptionsOf(q, x)) \in Nat /\ operands_[q][x] \in Nat
        BY <2>0, OptionsFinite DEF IInv, TypeOK, OptionsAreOperands
      <3>2. CASE q = p /\ x = v
        <4>1. OptionsOf(q, x)' = OptionsOf(q, x) \cup {b} /\ b \notin OptionsOf(q, x)
          BY <1>0, <1>1, <2>0, <3>2 DEF OptionsOf
        <4>2. Cardinality(OptionsOf(q, x)') = Cardinality(OptionsOf(q, x)) + 1
          BY <4>1, OptionsFinite, FS_AddElement
        <4> QED BY <4>2, <3>1, <3>2, <1>1, <2>0
      <3>3. CASE ~(q = p /\ x = v)
        <4>1. OptionsOf(q, x)' = OptionsOf(q, x)
          BY <1>0, <1>1, <2>0, <3>3, ValueAssumption DEF OptionsOf
        <4> QED BY <4>1, <3>1, <3>3, <1>0, <1>1, <2>0
      <3> QED BY <3>2, <3>3
    <2> QED BY <2>1, <2>2
  <1>4. KnownBlocksAreKeys'
    <2> SUFFICES ASSUME NEW q \in Phis, NEW c \in Blocks, q \in users_'[c]
                 PROVE  optional_values'[q][c] # None
      BY DEF KnownBlocksAreKeys
    <2>1. c \in Values /\ c # v
      BY <1>0, ValueAssumption
    <2>2. q \in users_[c] \/ (q = p /\ c = b)
      BY <1>0, <2>1 DEF SetOptionalValue, IInv, TypeOK
    <2> QED BY <1>0, <1>1, <2>2 DEF IInv, KnownBlocksAreKeys
  <1> QED BY <1>2, <1>3, <1>4 DEF IInv, OptionsAreOperands

\* Removing an option takes one of each away: there was one of each.
LEMMA RemoveOptionalValueKeeps ==
  ASSUME IInv, NEW p \in Phis, NEW b \in Blocks, RemoveOptionalValue(p, b)
  PROVE  IInv'
  <1> DEFINE v == optional_values[p][b]
  <1>0. /\ p \in Users /\ b \in Values /\ b # v /\ v \in (Values \ Blocks) \cup {Null}
        /\ v # None /\ None # Null /\ Null \notin Values
    BY ValueAssumption DEF RemoveOptionalValue, IInv, TypeOK
  <1>1. /\ operands_[p][b] \in Nat /\ operands_[p][b] > 0
        /\ v \in Values => /\ operands_[p][v] \in Nat
                           /\ Cardinality(OptionsOf(p, v)) <= operands_[p][v]
    BY <1>0 DEF IInv, TypeOK, OptionsAreOperands
  <1>2. b \in OptionsOf(p, v)
    BY DEF OptionsOf
  <1>3. v \in Values => operands_[p][v] # 0
    <2>1. v \in Values => /\ Cardinality(OptionsOf(p, v)) # 0
                          /\ Cardinality(OptionsOf(p, v)) \in Nat
      BY <1>2, OptionsFinite, FS_EmptySet
    <2> QED BY <1>1, <2>1
  <1>4. /\ \A u \in Users, x \in Values :
             operands_'[u][x] = IF u = p /\ x \in {b, v} THEN operands_[u][x] - 1
                                ELSE operands_[u][x]
        /\ \A q \in Phis, c \in Blocks :
             optional_values'[q][c] = IF q = p /\ c = b THEN None ELSE optional_values[q][c]
        /\ operands_' \in [Users -> [Values -> Nat]]
        /\ optional_values' \in [Phis -> [Blocks -> (Values \ Blocks) \cup {None, Null}]]
    <2>1. operands_' = [operands_ EXCEPT ![p] = [x \in Values |-> IF x \in {b, v} THEN @[x] - 1
                                                                ELSE @[x]]]
      BY DEF RemoveOptionalValue
    <2>2. operands_[p][b] - 1 \in Nat /\ (v \in Values => operands_[p][v] - 1 \in Nat)
      BY <1>0, <1>1, <1>3 DEF IInv, TypeOK
    <2> QED BY <1>0, <2>1, <2>2 DEF IInv, TypeOK, RemoveOptionalValue
  <1>5. /\ users_' \in [Values -> SUBSET Users]
        /\ \A x \in Values : users_'[x] = IF x \in {b, v} THEN users_[x] \ {p} ELSE users_[x]
    BY <1>0 DEF IInv, TypeOK, RemoveOptionalValue
  <1>6. TypeOK' /\ UsersSound'
    <2>1. TypeOK'
      BY <1>4, <1>5 DEF TypeOK
    <2>2. ASSUME NEW x \in Values, NEW u \in users_'[x]
          PROVE  operands_'[u][x] > 0
      <3>1. u \in Users /\ u \in users_[x] /\ ~(u = p /\ x \in {b, v})
        BY <1>5, <2>2
      <3>2. operands_'[u][x] = operands_[u][x]
        BY <1>4, <3>1
      <3> QED BY <3>1, <3>2 DEF IInv, UsersSound
    <2> QED BY <2>1, <2>2 DEF UsersSound
  <1>7. ASSUME NEW q \in Phis
        PROVE  /\ \A c \in Blocks : optional_values'[q][c] # None => operands_'[q][c] > 0
               /\ \A x \in Values \ Blocks : Cardinality(OptionsOf(q, x)') <= operands_'[q][x]
    <2>0. q \in Users /\ Blocks \subseteq Values
      BY ValueAssumption
    <2>1. \A c \in Blocks : optional_values'[q][c] # None => operands_'[q][c] > 0
      BY <1>0, <1>1, <1>4, <2>0 DEF IInv, OptionsAreOperands
    <2>2. ASSUME NEW x \in Values \ Blocks
          PROVE  Cardinality(OptionsOf(q, x)') <= operands_'[q][x]
      <3>1. /\ Cardinality(OptionsOf(q, x)) <= operands_[q][x]
            /\ Cardinality(OptionsOf(q, x)) \in Nat /\ operands_[q][x] \in Nat
        BY <2>0, OptionsFinite DEF IInv, TypeOK, OptionsAreOperands
      <3>2. CASE q = p /\ x = v
        <4>1. OptionsOf(q, x)' = OptionsOf(q, x) \ {b}
          BY <1>0, <1>4, <2>0, <3>2 DEF OptionsOf
        <4>2. Cardinality(OptionsOf(q, x)') = Cardinality(OptionsOf(q, x)) - 1
          <5>1. IsFiniteSet(OptionsOf(q, x)) /\ b \in OptionsOf(q, x)
            BY <1>2, <3>2, OptionsFinite
          <5> QED BY <4>1, <5>1, FS_RemoveElement
        <4> QED BY <4>2, <3>1, <3>2, <1>4, <2>0
      <3>3. CASE ~(q = p /\ x = v)
        <4>1. OptionsOf(q, x)' = OptionsOf(q, x)
          BY <1>0, <1>4, <2>0, <3>3, ValueAssumption DEF OptionsOf
        <4> QED BY <4>1, <3>1, <3>3, <1>0, <1>4, <2>0
      <3> QED BY <3>2, <3>3
    <2> QED BY <2>1, <2>2
  <1>8. KnownBlocksAreKeys'
    <2> SUFFICES ASSUME NEW q \in Phis, NEW c \in Blocks, q \in users_'[c]
                 PROVE  optional_values'[q][c] # None
      BY DEF KnownBlocksAreKeys
    <2>1. q \in users_[c] /\ ~(q = p /\ c = b)
      BY <1>5, ValueAssumption
    <2> QED BY <1>4, <2>1 DEF IInv, KnownBlocksAreKeys
  <1> QED BY <1>6, <1>7, <1>8 DEF IInv, OptionsAreOperands

\* Renaming v to v leaves operands and options as they are.
LEMMA RenamingToItself ==
  ASSUME IInv, NEW us \in SUBSET Users, NEW v \in Values,
         operands_' = [u \in Users |-> IF u \in us THEN Renamed(operands_[u], v, v)
                                       ELSE operands_[u]],
         optional_values' = ModifiedOptions(us, v, v)
  PROVE  operands_' = operands_ /\ optional_values' = optional_values
  <1>1. ASSUME NEW u \in Users PROVE Renamed(operands_[u], v, v) = operands_[u]
    <2>1. operands_[u] \in [Values -> Nat]
      BY DEF IInv, TypeOK
    <2> QED BY <2>1 DEF Renamed
  <1>2. ASSUME NEW p \in Phis PROVE RenamedOptions(optional_values[p], v, v) = optional_values[p]
    <2>1. optional_values[p] \in [Blocks -> (Values \ Blocks) \cup {None, Null}]
      BY DEF IInv, TypeOK
    <2> QED BY <2>1 DEF RenamedOptions
  <1> QED BY <1>1, <1>2 DEF IInv, TypeOK, ModifiedOptions

\* Renaming v to another value w in the operands and options of the users `us`.
LEMMA RenamingKeeps ==
  ASSUME IInv, NEW us \in SUBSET Users, NEW v \in Values, NEW w \in Values, v # w,
         Replaceable(us, v, w),
         operands_' = [u \in Users |-> IF u \in us THEN Renamed(operands_[u], v, w)
                                       ELSE operands_[u]],
         optional_values' = ModifiedOptions(us, v, w)
  PROVE  /\ operands_' \in [Users -> [Values -> Nat]]
         /\ optional_values' \in [Phis -> [Blocks -> (Values \ Blocks) \cup {None, Null}]]
         /\ \A u \in Users, x \in Values :
              operands_'[u][x] = IF u \notin us THEN operands_[u][x]
                                 ELSE IF x = v THEN 0
                                 ELSE IF x = w THEN operands_[u][w] + operands_[u][v]
                                 ELSE operands_[u][x]
         /\ OptionsAreOperands'
         /\ \A p \in Phis, b \in Blocks :
              optional_values'[p][b] = None =>
                (optional_values[p][b] = None /\ ~(p \in us /\ b = w)) \/ (p \in us /\ b = v)
  <1>0. /\ (v \in Blocks <=> w \in Blocks) /\ v # None /\ w # None /\ v # Null /\ w # Null
        /\ Phis \subseteq Users /\ Blocks \subseteq Values
        /\ v \in Blocks => \A p \in us \cap Phis : optional_values[p][v] # None
    BY ValueAssumption DEF Replaceable
  <1>1. /\ operands_' \in [Users -> [Values -> Nat]]
        /\ \A u \in Users, x \in Values :
             operands_'[u][x] = IF u \notin us THEN operands_[u][x]
                                ELSE IF x = v THEN 0
                                ELSE IF x = w THEN operands_[u][w] + operands_[u][v]
                                ELSE operands_[u][x]
    BY DEF IInv, TypeOK, Renamed
  <1>2. ASSUME NEW p \in Phis, p \notin us
        PROVE  optional_values'[p] = optional_values[p]
    BY <1>2 DEF ModifiedOptions
  <1>3. ASSUME NEW p \in Phis, p \in us, v \in Blocks
        PROVE  \A b \in Blocks : optional_values'[p][b] =
                 IF b = v THEN None ELSE IF b = w THEN optional_values[p][v]
                 ELSE optional_values[p][b]
    <2>1. optional_values[p] \in [Blocks -> (Values \ Blocks) \cup {None, Null}]
      BY DEF IInv, TypeOK
    <2>2. optional_values'[p] = [optional_values[p] EXCEPT ![v] = None, ![w] = optional_values[p][v]]
      BY <1>3 DEF ModifiedOptions, RenamedOptions
    <2> QED BY <1>0, <1>3, <2>1, <2>2
  <1>4. ASSUME NEW p \in Phis, p \in us, v \notin Blocks
        PROVE  \A b \in Blocks : optional_values'[p][b] =
                 IF optional_values[p][b] = v THEN w ELSE optional_values[p][b]
    BY <1>0, <1>4 DEF ModifiedOptions, RenamedOptions
  <1>5. optional_values' \in [Phis -> [Blocks -> (Values \ Blocks) \cup {None, Null}]]
    <2>1. ASSUME NEW p \in Phis, p \in us
          PROVE  RenamedOptions(optional_values[p], v, w)
                   \in [Blocks -> (Values \ Blocks) \cup {None, Null}]
      BY <1>0 DEF IInv, TypeOK, RenamedOptions
    <2> QED BY <2>1 DEF IInv, TypeOK, ModifiedOptions
  <1>6. ASSUME NEW p \in Phis
        PROVE  /\ \A b \in Blocks : optional_values'[p][b] # None => operands_'[p][b] > 0
               /\ \A x \in Values \ Blocks : Cardinality(OptionsOf(p, x)') <= operands_'[p][x]
    <2>1. /\ \A b \in Blocks : optional_values[p][b] # None => operands_[p][b] > 0
          /\ \A x \in Values \ Blocks : Cardinality(OptionsOf(p, x)) <= operands_[p][x]
      BY DEF IInv, OptionsAreOperands
    <2>2. CASE p \notin us
      <3>1. \A x : OptionsOf(p, x)' = OptionsOf(p, x)
        BY <1>2, <2>2 DEF OptionsOf
      <3> QED BY <1>0, <1>1, <1>2, <2>1, <2>2, <3>1
    <2>3. CASE p \in us /\ v \in Blocks
      <3>1. ASSUME NEW b \in Blocks, optional_values'[p][b] # None
            PROVE  operands_'[p][b] > 0
        <4>1. /\ operands_[p][b] \in Nat /\ operands_[p][v] \in Nat /\ operands_[p][v] > 0
              /\ optional_values[p][b] # None => operands_[p][b] > 0
          BY <1>0, <2>1, <2>3 DEF IInv, TypeOK
        <4> QED BY <1>0, <1>1, <1>3, <2>3, <3>1, <4>1
      <3>2. ASSUME NEW x \in Values \ Blocks
            PROVE  Cardinality(OptionsOf(p, x)') <= operands_'[p][x]
        \* The key moves from v to w.
        <4>0. operands_'[p][x] = operands_[p][x] /\ x # None /\ v \in Blocks /\ w \in Blocks
          BY <1>0, <1>1, <2>3, ValueAssumption
        <4>f. /\ IsFiniteSet(OptionsOf(p, x)) /\ Cardinality(OptionsOf(p, x)) \in Nat
              /\ operands_[p][x] \in Nat /\ Cardinality(OptionsOf(p, x)) <= operands_[p][x]
          BY <1>0, <2>1, OptionsFinite DEF IInv, TypeOK
        <4>1. CASE optional_values[p][v] = x
          <5>1. OptionsOf(p, x)' = (OptionsOf(p, x) \ {v}) \cup {w}
            BY <1>0, <1>3, <2>3, <4>0, <4>1 DEF OptionsOf
          <5>2. v \in OptionsOf(p, x)
            BY <4>0, <4>1 DEF OptionsOf
          <5>3. /\ IsFiniteSet(OptionsOf(p, x) \ {v})
                /\ Cardinality(OptionsOf(p, x) \ {v}) = Cardinality(OptionsOf(p, x)) - 1
            BY <5>2, <4>f, FS_RemoveElement
          <5>4. \/ Cardinality(OptionsOf(p, x)') = Cardinality(OptionsOf(p, x) \ {v}) + 1
                \/ Cardinality(OptionsOf(p, x)') = Cardinality(OptionsOf(p, x) \ {v})
            BY <5>1, <5>3, FS_AddElement
          <5> QED BY <5>3, <5>4, <4>0, <4>f
        <4>2. CASE optional_values[p][v] # x
          <5>1. OptionsOf(p, x)' \subseteq OptionsOf(p, x)
            BY <1>0, <1>3, <2>3, <4>0, <4>2 DEF OptionsOf
          <5>2. /\ Cardinality(OptionsOf(p, x)') <= Cardinality(OptionsOf(p, x))
                /\ Cardinality(OptionsOf(p, x)') \in Nat
            BY <5>1, <4>f, FS_Subset, FS_CardinalityType
          <5> QED BY <5>2, <4>0, <4>f
        <4> QED BY <4>1, <4>2
      <3> QED BY <3>1, <3>2
    <2>4. CASE p \in us /\ v \notin Blocks
      <3>1. \A b \in Blocks : optional_values'[p][b] # None => operands_'[p][b] > 0
        BY <1>0, <1>1, <1>4, <2>1, <2>4
      <3>2. ASSUME NEW x \in Values \ Blocks
            PROVE  Cardinality(OptionsOf(p, x)') <= operands_'[p][x]
        <4>1. CASE x = v
          <5>1. OptionsOf(p, x)' = {}
            BY <1>0, <1>4, <2>4, <4>1 DEF OptionsOf
          <5>2. Cardinality(OptionsOf(p, x)') = 0
            BY <5>1, FS_EmptySet
          <5> QED BY <5>2, <4>1, <1>0, <1>1, <2>4
        <4>2. CASE x = w
          <5>1. /\ OptionsOf(p, x)' = OptionsOf(p, w) \cup OptionsOf(p, v)
                /\ OptionsOf(p, w) \cap OptionsOf(p, v) = {}
            BY <1>0, <1>4, <2>4, <4>2 DEF OptionsOf
          <5>2. Cardinality(OptionsOf(p, x)') =
                  Cardinality(OptionsOf(p, w)) + Cardinality(OptionsOf(p, v))
            <6>1. IsFiniteSet(OptionsOf(p, w)) /\ IsFiniteSet(OptionsOf(p, v))
              BY OptionsFinite
            <6>2. Cardinality(OptionsOf(p, w) \cup OptionsOf(p, v)) =
                    Cardinality(OptionsOf(p, w)) + Cardinality(OptionsOf(p, v))
                      - Cardinality(OptionsOf(p, w) \cap OptionsOf(p, v))
              BY <6>1, FS_Union
            <6>3. Cardinality(OptionsOf(p, w) \cap OptionsOf(p, v)) = 0
              BY <5>1, FS_EmptySet
            <6> QED BY <5>1, <6>2, <6>3, OptionsFinite
          <5>3. operands_'[p][x] = operands_[p][w] + operands_[p][v]
            BY <4>2, <1>0, <1>1, <2>4
          <5>4. /\ Cardinality(OptionsOf(p, w)) <= operands_[p][w]
                /\ Cardinality(OptionsOf(p, v)) <= operands_[p][v]
                /\ Cardinality(OptionsOf(p, w)) \in Nat /\ Cardinality(OptionsOf(p, v)) \in Nat
                /\ operands_[p][w] \in Nat /\ operands_[p][v] \in Nat
            BY <2>1, <1>0, <2>4, OptionsFinite DEF IInv, TypeOK
          <5> QED BY <5>2, <5>3, <5>4
        <4>3. CASE x # v /\ x # w
          <5>1. OptionsOf(p, x)' = OptionsOf(p, x)
            BY <1>0, <1>4, <2>4, <4>3 DEF OptionsOf
          <5> QED BY <5>1, <4>3, <2>1, <1>0, <1>1, <2>4
        <4> QED BY <4>1, <4>2, <4>3
      <3> QED BY <3>1, <3>2
    <2> QED BY <2>2, <2>3, <2>4
  <1>7. ASSUME NEW p \in Phis, NEW b \in Blocks, optional_values'[p][b] = None
        PROVE  (optional_values[p][b] = None /\ ~(p \in us /\ b = w)) \/ (p \in us /\ b = v)
    <2>1. CASE p \notin us
      BY <1>2, <1>7, <2>1
    <2>2. CASE p \in us /\ v \in Blocks
      BY <1>0, <1>3, <1>7, <2>2
    <2>3. CASE p \in us /\ v \notin Blocks
      BY <1>0, <1>4, <1>7, <2>3
    <2> QED BY <2>1, <2>2, <2>3
  <1> QED BY <1>1, <1>5, <1>6, <1>7 DEF OptionsAreOperands

\* modify_operand keeps it, of a phi with its options too.
LEMMA ModifyOperandKeeps ==
  ASSUME IInv, NEW u \in Users, NEW v \in Values, NEW w \in Values, ModifyOperand(u, v, w)
  PROVE  IInv'
  <1>1. operands_' = [x \in Users |-> IF x \in {u} THEN Renamed(operands_[x], v, w)
                                      ELSE operands_[x]]
    BY DEF ModifyOperand, IInv, TypeOK
  <1>a. CASE v = w
    \* The user is told once more.
    <2>1. operands_' = operands_ /\ optional_values' = optional_values
      <3>1. optional_values' = ModifiedOptions({u}, v, v)
        BY <1>a DEF ModifyOperand
      <3> QED BY <1>1, <1>a, <3>1, RenamingToItself
    <2>2. users_' = [users_ EXCEPT ![v] = (@ \ {u}) \cup {u}]
      BY <1>a DEF ModifyOperand, IInv, TypeOK
    <2>3. operands_[u][v] > 0
      BY DEF ModifyOperand
    <2>4. TypeOK' /\ UsersSound'
      BY <2>1, <2>2, <2>3 DEF IInv, TypeOK, UsersSound
    <2>5. OptionsAreOperands'
      BY <2>1 DEF IInv, OptionsAreOperands, OptionsOf
    <2>6. KnownBlocksAreKeys'
      <3> SUFFICES ASSUME NEW p \in Phis, NEW b \in Blocks, p \in users_'[b]
                   PROVE  optional_values'[p][b] # None
        BY DEF KnownBlocksAreKeys
      <3>1. p \in users_[b] \/ (b = v /\ p = u)
        BY <2>2, ValueAssumption DEF IInv, TypeOK
      <3>2. b = v /\ p = u => optional_values[p][b] # None
        BY DEF ModifyOperand, Replaceable
      <3> QED BY <2>1, <3>1, <3>2 DEF IInv, KnownBlocksAreKeys
    <2> QED BY <2>4, <2>5, <2>6 DEF IInv
  <1> SUFFICES ASSUME v # w PROVE IInv'
    BY <1>a
  <1>2. v # w /\ operands_[u][v] > 0 /\ operands_[u][v] \in Nat /\ operands_[u][w] \in Nat
    BY DEF ModifyOperand, IInv, TypeOK
  <1>3. /\ operands_' \in [Users -> [Values -> Nat]]
        /\ optional_values' \in [Phis -> [Blocks -> (Values \ Blocks) \cup {None, Null}]]
        /\ \A y \in Users, x \in Values :
             operands_'[y][x] = IF y \notin {u} THEN operands_[y][x]
                                ELSE IF x = v THEN 0
                                ELSE IF x = w THEN operands_[y][w] + operands_[y][v]
                                ELSE operands_[y][x]
        /\ OptionsAreOperands'
        /\ \A p \in Phis, b \in Blocks :
             optional_values'[p][b] = None =>
               (optional_values[p][b] = None /\ ~(p \in {u} /\ b = w)) \/ (p \in {u} /\ b = v)
    <2>1. /\ {u} \in SUBSET Users /\ Replaceable({u}, v, w)
          /\ optional_values' = ModifiedOptions({u}, v, w)
      BY DEF ModifyOperand
    <2> QED BY <1>1, <2>1, RenamingKeeps, Zenon
  <1>4. users_' = [users_ EXCEPT ![v] = @ \ {u}, ![w] = @ \cup {u}]
    BY DEF ModifyOperand
  <1>5. TypeOK'
    BY <1>3, <1>4 DEF IInv, TypeOK
  <1>6. ASSUME NEW x \in Values, NEW y \in users_'[x]
        PROVE  operands_'[y][x] > 0
    <2>1. y \in Users /\ ~(x = v /\ y = u) /\ (y \in users_[x] \/ (x = w /\ y = u))
      BY <1>2, <1>4, <1>6 DEF IInv, TypeOK
    <2>2. CASE x = w /\ y = u
      BY <1>2, <1>3, <2>2
    <2>3. CASE ~(x = w /\ y = u) /\ y \in users_[x]
      <3>1. operands_[y][x] > 0
        BY <2>3 DEF IInv, UsersSound
      <3>2. operands_'[y][x] = operands_[y][x]
        BY <1>3, <2>1, <2>3
      <3> QED BY <3>1, <3>2
    <2> QED BY <2>1, <2>2, <2>3
  <1>7. KnownBlocksAreKeys'
    <2> SUFFICES ASSUME NEW p \in Phis, NEW b \in Blocks, p \in users_'[b]
                 PROVE  optional_values'[p][b] # None
      BY DEF KnownBlocksAreKeys
    <2>1. b \in Values
      BY ValueAssumption
    <2>2. (p \in users_[b] \/ (b = w /\ p \in {u})) /\ ~(b = v /\ p \in {u})
      BY <1>2, <1>4, <2>1 DEF IInv, TypeOK
    <2>3. p \in users_[b] => optional_values[p][b] # None
      BY DEF IInv, KnownBlocksAreKeys
    <2> QED BY <1>3, <2>2, <2>3
  <1> QED BY <1>3, <1>5, <1>6, <1>7 DEF IInv, UsersSound

\* replace_by_new_value keeps it, for every user of the value.
LEMMA ReplaceByNewValueKeeps ==
  ASSUME IInv, NEW v \in Values, NEW w \in Values, ReplaceByNewValue(v, w)
  PROVE  IInv'
  <1>1. users_[v] \in SUBSET Users
    BY DEF IInv, TypeOK
  <1>a. CASE v = w
    \* The value forgets its users, nothing else changes.
    <2>1. PICK us \in SUBSET Users : us = users_[v]
      BY <1>1
    <2>2. operands_' = operands_ /\ optional_values' = optional_values
      <3>1. /\ optional_values' = ModifiedOptions(us, v, v)
            /\ operands_' = [u \in Users |-> IF u \in us THEN Renamed(operands_[u], v, v)
                                             ELSE operands_[u]]
        BY <1>a, <2>1 DEF ReplaceByNewValue
      <3> QED BY <3>1, RenamingToItself
    <2>3. users_' = [users_ EXCEPT ![v] = {}]
      BY <1>a DEF ReplaceByNewValue, IInv, TypeOK
    <2>4. TypeOK' /\ UsersSound' /\ KnownBlocksAreKeys'
      BY <2>2, <2>3, ValueAssumption DEF IInv, TypeOK, UsersSound, KnownBlocksAreKeys
    <2>5. OptionsAreOperands'
      BY <2>2 DEF IInv, OptionsAreOperands, OptionsOf
    <2> QED BY <2>4, <2>5 DEF IInv
  <1> SUFFICES ASSUME v # w PROVE IInv'
    BY <1>a
  <1>2. v # w
    OBVIOUS
  <1>3. /\ operands_' \in [Users -> [Values -> Nat]]
        /\ optional_values' \in [Phis -> [Blocks -> (Values \ Blocks) \cup {None, Null}]]
        /\ \A y \in Users, x \in Values :
             operands_'[y][x] = IF y \notin users_[v] THEN operands_[y][x]
                                ELSE IF x = v THEN 0
                                ELSE IF x = w THEN operands_[y][w] + operands_[y][v]
                                ELSE operands_[y][x]
        /\ OptionsAreOperands'
        /\ \A p \in Phis, b \in Blocks :
             optional_values'[p][b] = None =>
               (optional_values[p][b] = None /\ ~(p \in users_[v] /\ b = w)) \/ (p \in users_[v] /\ b = v)
    <2>1. PICK us \in SUBSET Users : us = users_[v]
      BY <1>1
    <2>2. /\ Replaceable(us, v, w)
          /\ optional_values' = ModifiedOptions(us, v, w)
          /\ operands_' = [u \in Users |-> IF u \in us THEN Renamed(operands_[u], v, w)
                                           ELSE operands_[u]]
      BY <2>1 DEF ReplaceByNewValue
    <2>3. /\ operands_' \in [Users -> [Values -> Nat]]
          /\ optional_values' \in [Phis -> [Blocks -> (Values \ Blocks) \cup {None, Null}]]
          /\ \A u \in Users, x \in Values :
               operands_'[u][x] = IF u \notin us THEN operands_[u][x]
                                  ELSE IF x = v THEN 0
                                  ELSE IF x = w THEN operands_[u][w] + operands_[u][v]
                                  ELSE operands_[u][x]
          /\ OptionsAreOperands'
          /\ \A p \in Phis, b \in Blocks :
               optional_values'[p][b] = None =>
                 (optional_values[p][b] = None /\ ~(p \in us /\ b = w)) \/ (p \in us /\ b = v)
      BY <2>2, RenamingKeeps
    <2> QED BY <2>1, <2>3
  <1>4. users_' = [users_ EXCEPT ![w] = @ \cup users_[v], ![v] = {}]
    BY DEF ReplaceByNewValue
  <1>5. TypeOK'
    BY <1>1, <1>3, <1>4 DEF IInv, TypeOK
  <1>6. ASSUME NEW x \in Values, NEW y \in users_'[x]
        PROVE  operands_'[y][x] > 0
    <2>1. y \in Users /\ x # v /\ (y \in users_[x] \/ (x = w /\ y \in users_[v]))
      BY <1>1, <1>2, <1>4, <1>6 DEF IInv, TypeOK
    <2>2. /\ y \in users_[v] => operands_[y][v] > 0
          /\ y \in users_[x] => operands_[y][x] > 0
          /\ operands_[y][v] \in Nat /\ operands_[y][x] \in Nat
      BY <2>1 DEF IInv, UsersSound, TypeOK
    <2> QED BY <1>2, <1>3, <2>1, <2>2
  <1>7. KnownBlocksAreKeys'
    <2> SUFFICES ASSUME NEW p \in Phis, NEW b \in Blocks, p \in users_'[b]
                 PROVE  optional_values'[p][b] # None
      BY DEF KnownBlocksAreKeys
    <2>1. b \in Values
      BY ValueAssumption
    <2>2. (p \in users_[b] \/ (b = w /\ p \in users_[v])) /\ ~(b = v /\ p \in users_[v])
      BY <1>1, <1>2, <1>4, <2>1 DEF IInv, TypeOK
    <2>3. p \in users_[b] => optional_values[p][b] # None
      BY DEF IInv, KnownBlocksAreKeys
    <2> QED BY <1>3, <2>2, <2>3
  <1> QED BY <1>3, <1>5, <1>6, <1>7 DEF IInv, UsersSound

\* The invariant of the three copies of the use relation, for any program of calls.
THEOREM Inductive == Spec => []IInv
  <1>1. IInv /\ [Next]_vars => IInv'
    <2> SUFFICES ASSUME IInv, [Next]_vars PROVE IInv'
      OBVIOUS
    <2>1. CASE UNCHANGED vars
      BY <2>1 DEF vars, IInv, TypeOK, UsersSound, OptionsAreOperands, OptionsOf, KnownBlocksAreKeys
    <2> QED BY <2>1, ValueAssumption, GiveOperandKeeps, ModifyOperandKeeps,
               ReplaceByNewValueKeeps, ClearOperandsKeeps, CreatePhiKeeps, SetOptionalValueKeeps,
               RemoveOptionalValueKeeps DEF Next
  <1> QED BY <1>1, Initially, PTL DEF Spec

\* A value never keeps a user that stopped reading it.
THEOREM NoStaleUsers == Spec => []UsersSound
  <1>1. IInv => UsersSound
    BY DEF IInv
  <1> QED BY <1>1, Inductive, PTL

\* The options of a phi are among its operands, through every replacement.
THEOREM PhisStayInStep == Spec => []OptionsAreOperands
  <1>1. IInv => OptionsAreOperands
    BY DEF IInv
  <1> QED BY <1>1, Inductive, PTL

\* A block that knows of a phi is a key of it: replacing the block never stops the
\* compiler with "Phi operand not found".
THEOREM PhisFindTheirBlocks == Spec => []KnownBlocksAreKeys
  <1>1. IInv => KnownBlocksAreKeys
    BY DEF IInv
  <1> QED BY <1>1, Inductive, PTL

\* remove_optional_value on a shared value or block, and replace_by_new_value with the
\* value itself, are the only ways to lose a user.
THEOREM LossesKnown == Spec => UsersLostTwoWays
  <1>1. ASSUME IInv, Next, ~SharedRemoval, ~SelfReplacement PROVE NoneGetsLost
    <2>0. TypeOK /\ UsersSound /\ OptionsAreOperands /\ Phis \subseteq Users /\ Blocks \subseteq Values
      BY <1>1, ValueAssumption DEF IInv
    <2>1. ASSUME NEW u \in Users, NEW v \in Values, GiveOperand(u, v) PROVE NoneGetsLost
      BY <2>0, <2>1 DEF GiveOperand, AddOperand, Lost, TypeOK, NoneGetsLost
    <2>2. ASSUME NEW u \in Users, NEW v \in Values, NEW w \in Values, ModifyOperand(u, v, w)
          PROVE  NoneGetsLost
      <3> SUFFICES ASSUME NEW y \in Users, NEW z \in Values, Lost(y, z)' PROVE Lost(y, z)
        BY DEF NoneGetsLost
      <3>1. operands_[u] \in [Values -> Nat]
        BY <2>0 DEF TypeOK
      <3>2. /\ y # u => operands_'[y][z] = operands_[y][z]
            /\ z \notin {v, w} => operands_'[y][z] = operands_[y][z]
            /\ v # w => operands_'[u][v] = 0
        BY <2>0, <2>2, <3>1 DEF ModifyOperand, Renamed, TypeOK
      <3>3. /\ u \in users_'[w]
            /\ y # u \/ z \notin {v, w} => (y \in users_'[z] <=> y \in users_[z])
        BY <2>0, <2>2 DEF ModifyOperand, TypeOK
      <3> QED BY <3>2, <3>3 DEF Lost
    <2>3. ASSUME NEW v \in Values, NEW w \in Values, ReplaceByNewValue(v, w)
          PROVE  NoneGetsLost
      <3>1. v # w
        BY <1>1, <2>3 DEF SelfReplacement
      <3> SUFFICES ASSUME NEW y \in Users, NEW z \in Values, Lost(y, z)' PROVE Lost(y, z)
        BY DEF NoneGetsLost
      <3>2. operands_[y] \in [Values -> Nat] /\ users_[v] \subseteq Users
        BY <2>0 DEF TypeOK
      <3>3. /\ y \notin users_[v] \/ z \notin {v, w} => operands_'[y][z] = operands_[y][z]
            /\ y \in users_[v] => operands_'[y][v] = 0
        BY <2>0, <2>3, <3>1, <3>2 DEF ReplaceByNewValue, Renamed, TypeOK
      <3>4. users_' = [users_ EXCEPT ![w] = @ \cup users_[v], ![v] = {}]
        BY <2>3 DEF ReplaceByNewValue
      <3>5. CASE z = v
        BY <3>3, <3>5 DEF Lost
      <3>6. CASE z # v
        BY <2>0, <3>1, <3>2, <3>3, <3>4, <3>6 DEF Lost, TypeOK
      <3> QED BY <3>5, <3>6
    <2>4. ASSUME NEW u \in Users, ClearOperands(u) PROVE NoneGetsLost
      BY <2>0, <2>4 DEF ClearOperands, NoOperands, Lost, TypeOK, NoneGetsLost
    <2>c. ASSUME NEW p \in Phis, NEW bs \in SUBSET Blocks, CreatePhi(p, bs) PROVE NoneGetsLost
      BY <2>0, <2>c DEF CreatePhi, Lost, TypeOK, NoneGetsLost
    <2>5. ASSUME NEW p \in Phis, NEW b \in Blocks, NEW v \in Values, SetOptionalValue(p, b, v)
          PROVE  NoneGetsLost
      <3>1. b # v /\ b \in Values /\ p \in Users
        BY <2>0, <2>5 DEF SetOptionalValue
      <3>2. CASE optional_values[p][b] = Null
        <4>1. /\ operands_' = [operands_ EXCEPT ![p][v] = @ + 1]
              /\ users_' = [users_ EXCEPT ![v] = @ \cup {p}]
          BY <2>0, <2>5, <3>1, <3>2 DEF SetOptionalValue, TypeOK
        <4> QED BY <2>0, <3>1, <4>1 DEF Lost, TypeOK, NoneGetsLost
      <3>3. CASE optional_values[p][b] # Null
        <4>1. /\ operands_' = [operands_ EXCEPT ![p][b] = @ + 1, ![p][v] = @ + 1]
              /\ users_' = [users_ EXCEPT ![b] = @ \cup {p}, ![v] = @ \cup {p}]
          BY <2>5, <3>3 DEF SetOptionalValue
        <4> QED BY <2>0, <3>1, <4>1 DEF Lost, TypeOK, NoneGetsLost
      <3> QED BY <3>2, <3>3
    <2>6. ASSUME NEW p \in Phis, NEW b \in Blocks, RemoveOptionalValue(p, b)
          PROVE  NoneGetsLost
      <3> DEFINE v == optional_values[p][b]
      <3>1. /\ v \in (Values \ Blocks) \cup {Null} /\ Null \notin Values /\ v # b
            /\ b \in Values /\ ~(operands_[p][b] > 1) /\ (v \in Values => ~(operands_[p][v] > 1))
        <4>1. v \in (Values \ Blocks) \cup {Null} /\ Null \notin Values /\ b \in Values
          BY <2>0, <2>6, ValueAssumption DEF RemoveOptionalValue, TypeOK
        <4>2. v # b
          BY <2>0, <4>1
        <4>3. ~(operands_[p][b] > 1) /\ (v \in Values => ~(operands_[p][v] > 1))
          BY <1>1, <2>6, <4>1 DEF SharedRemoval
        <4> QED BY <4>1, <4>2, <4>3
      <3>2. /\ \A y \in Users, z \in Values :
                 operands_'[y][z] = IF y = p /\ z \in {b, v} THEN operands_[y][z] - 1
                                    ELSE operands_[y][z]
            /\ \A z \in Values : users_'[z] = IF z \in {b, v} THEN users_[z] \ {p} ELSE users_[z]
        BY <2>0, <2>6 DEF RemoveOptionalValue, TypeOK
      <3> SUFFICES ASSUME NEW u \in Users, NEW x \in Values, Lost(u, x)' PROVE Lost(u, x)
        BY DEF NoneGetsLost
      <3>3. CASE u = p /\ x \in {b, v}
        BY <2>0, <3>1, <3>2, <3>3 DEF Lost, TypeOK
      <3>4. CASE ~(u = p /\ x \in {b, v})
        BY <2>0, <3>1, <3>2, <3>4 DEF Lost, TypeOK
      <3> QED BY <3>3, <3>4
    <2> QED BY <1>1, <2>0, <2>1, <2>2, <2>3, <2>4, <2>c, <2>5, <2>6 DEF Next
  <1>2. IInv /\ [Next]_vars => [SharedRemoval \/ SelfReplacement \/ NoneGetsLost]_vars
    BY <1>1
  <1> QED BY <1>2, Inductive, PTL DEF Spec, UsersLostTwoWays

\* Replacing a value whose users are all known leaves no trace of it: no operand,
\* and no option of a phi.
THEOREM ReplacementIsComplete == Spec => ReplacedEverywhere
  <1> DEFINE Complete ==
        \A v, w \in Values :
          ReplaceByNewValue(v, w) /\ v # w /\ v \notin Blocks /\ (\A u \in Users : ~Lost(u, v)) =>
            /\ \A u \in Users : operands_'[u][v] = 0
            /\ \A p \in Phis, b \in Blocks :
                 optional_values'[p][b] = IF optional_values[p][b] = v THEN w
                                          ELSE optional_values[p][b]
  <1>1. ASSUME IInv PROVE Complete
    <2> SUFFICES ASSUME NEW v \in Values, NEW w \in Values, ReplaceByNewValue(v, w), v # w,
                        v \notin Blocks, \A u \in Users : ~Lost(u, v)
                 PROVE  /\ \A u \in Users : operands_'[u][v] = 0
                        /\ \A p \in Phis, b \in Blocks :
                             optional_values'[p][b] = IF optional_values[p][b] = v THEN w
                                                      ELSE optional_values[p][b]
      OBVIOUS
    <2>1. \A u \in Users : operands_[u][v] \in Nat /\ (operands_[u][v] > 0 => u \in users_[v])
      BY <1>1 DEF Lost, IInv, TypeOK
    <2>2. ASSUME NEW u \in Users PROVE operands_'[u][v] = 0
      <3>1. operands_[u] \in [Values -> Nat]
        BY <1>1 DEF IInv, TypeOK
      <3> QED BY <2>1, <3>1 DEF ReplaceByNewValue, Renamed
    <2>3. ASSUME NEW p \in Phis, NEW b \in Blocks
          PROVE  optional_values'[p][b] = IF optional_values[p][b] = v THEN w
                                          ELSE optional_values[p][b]
      <3>1. CASE p \in users_[v]
        BY <3>1 DEF ReplaceByNewValue, ModifiedOptions, RenamedOptions
      <3>2. CASE p \notin users_[v]
        <4>1. optional_values'[p] = optional_values[p]
          BY <3>2 DEF ReplaceByNewValue, ModifiedOptions
        <4>2. operands_[p][v] = 0
          BY <2>1, <3>2, ValueAssumption
        <4>3. b \notin OptionsOf(p, v)
          <5>1. Cardinality(OptionsOf(p, v)) <= 0 /\ Cardinality(OptionsOf(p, v)) \in Nat
            BY <4>2, <1>1, OptionsFinite DEF IInv, OptionsAreOperands
          <5> QED BY <5>1, OptionsFinite, FS_EmptySet
        <4> QED BY <4>1, <4>3 DEF OptionsOf
      <3> QED BY <3>1, <3>2
    <2> QED BY <2>2, <2>3
  <1>2. IInv /\ [Next]_vars => [Complete]_vars
    BY <1>1
  <1> QED BY <1>2, Inductive, PTL DEF Spec, ReplacedEverywhere

\* The records keep their types.
THEOREM TypesKept == Spec => []TypeOK
  <1>1. IInv => TypeOK
    BY DEF IInv
  <1> QED BY <1>1, Inductive, PTL
=============================================================================
