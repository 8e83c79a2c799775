------------------------ MODULE ParallelCopy_proofs ------------------------
(***************************************************************************)
(* The moves that replace the phis have the effect of the phis, for any    *)
(* number of phis, in any order, whatever they copy into one another.      *)
(***************************************************************************)
EXTENDS ParallelCopy, TLAPS

\* The elements of a sequence over S are in S.
LEMMA ElementOfSeq ==
  ASSUME NEW S, NEW s \in Seq(S), NEW k \in DOMAIN s
  PROVE  s[k] \in S
  OBVIOUS

\* Nothing is emitted or run yet.
LEMMA Initially == Init => IInv
  <1> SUFFICES ASSUME Init PROVE IInv
    OBVIOUS
  <1>1. TypeOK
    BY DEF Init, TypeOK
  <1>2. SavedFirst /\ SavedEnough /\ AssignsFollow
    BY MoveListAssumption DEF Init, SavedFirst, SavedEnough, AssignsFollow
  <1>3. EnvInv
    <2>1. ASSUME NEW k \in DOMAIN moves PROVE moves[k].to \in Names
      <3>1. moves \in Seq([to : Names, from : Names])
        BY MoveListAssumption DEF Init
      <3>2. moves[k] \in [to : Names, from : Names]
        BY <3>1, ElementOfSeq
      <3> QED BY <3>2
    <2>2. \A k \in 1..saves : FALSE
      BY DEF Init
    <2>3. pc = "save"
      BY DEF Init
    <2>4. \A x \in Names : env[x] = x
      BY DEF Init
    <2> QED BY <2>1, <2>2, <2>3, <2>4 DEF EnvInv, Ran
  <1> QED BY <1>1, <1>2, <1>3 DEF IInv

\* The moves have different destinations, and none of their names is a temporary.
LEMMA MovesInNames ==
  ASSUME TypeOK
  PROVE  /\ moves \in Seq([to : Names, from : Names])
         /\ \A j, k \in DOMAIN moves : moves[j].to = moves[k].to => j = k
         /\ \A k \in DOMAIN moves : moves[k].to \in Names /\ moves[k].from \in Names
         /\ destinations \subseteq Names
         /\ Names \cap Temps = {}
  <1>1. moves \in Seq([to : Names, from : Names])
    BY MoveListAssumption DEF TypeOK
  <1>2. \A j, k \in DOMAIN moves : moves[j].to = moves[k].to => j = k
    BY MoveListAssumption DEF TypeOK
  <1>3. ASSUME NEW k \in DOMAIN moves PROVE moves[k].to \in Names /\ moves[k].from \in Names
    <2>1. moves[k] \in [to : Names, from : Names]
      BY <1>1, ElementOfSeq
    <2> QED BY <2>1
  <1>4. destinations \subseteq Names
    BY <1>3 DEF destinations
  <1>5. Names \cap Temps = {}
    BY TempAssumption DEF Temps
  <1> QED BY <1>1, <1>2, <1>3, <1>4, <1>5

\* Saving a source that is also a destination keeps the invariant.
LEMMA StepSaveSource == IInv /\ SaveSource => IInv'
  <1> SUFFICES ASSUME IInv, SaveSource PROVE IInv'
    OBVIOUS
  <1> DEFINE v == moves[n].from
             m == Move(Temp(v), v)
  <1>0. v \in Names /\ m \in [to : Names \cup Temps, from : Names \cup Temps]
    BY MovesInNames DEF IInv, TypeOK, SaveSource, Temps, Move
  <1>1. TypeOK'
    BY <1>0 DEF IInv, TypeOK, SaveSource
  <1>2. /\ Len(final_moves) = saves /\ Len(final_moves') = saves'
        /\ final_moves'[saves'] = m
        /\ \A k \in 1..saves : final_moves'[k] = final_moves[k]
    BY <1>0 DEF IInv, TypeOK, AssignsFollow, SaveSource
  <1>3. SavedFirst'
    <2>1. saves' <= Len(final_moves')
      BY <1>2, <1>1 DEF TypeOK
    <2>2. ASSUME NEW k \in 1..saves'
          PROVE  \E w \in saved' : final_moves'[k] = Move(Temp(w), w)
      <3>1. CASE k = saves'
        BY <3>1, <1>2 DEF SaveSource
      <3>2. CASE k \in 1..saves
        BY <3>2, <1>2 DEF SaveSource, IInv, SavedFirst
      <3>3. saves \in Nat /\ saves' = saves + 1
        BY DEF SaveSource, IInv, TypeOK
      <3> QED BY <3>1, <3>2, <3>3
    <2>3. ASSUME NEW w \in saved'
          PROVE  \E k \in 1..saves' : final_moves'[k] = Move(Temp(w), w)
      <3>1. CASE w = v
        BY <3>1, <1>2 DEF SaveSource, IInv, TypeOK
      <3>2. CASE w \in saved
        BY <3>2, <1>2 DEF SaveSource, IInv, SavedFirst, TypeOK
      <3> QED BY <3>1, <3>2, <2>3 DEF SaveSource
    <2> QED BY <2>1, <2>2, <2>3 DEF SavedFirst
  <1>4. SavedEnough'
    BY <1>0 DEF IInv, SavedEnough, SaveSource, TypeOK, destinations
  <1>5. AssignsFollow'
    BY <1>2, MovesInNames DEF IInv, AssignsFollow, SaveSource, TypeOK
  <1>6. EnvInv'
    BY <1>1, MovesInNames DEF IInv, EnvInv, SaveSource, TypeOK, Ran, destinations
  <1> QED BY <1>1, <1>3, <1>4, <1>5, <1>6 DEF IInv

\* So does passing one that is not, or already is saved.
LEMMA StepSkipSource == IInv /\ SkipSource => IInv'
  <1> SUFFICES ASSUME IInv, SkipSource PROVE IInv'
    OBVIOUS
  <1>1. TypeOK'
    BY DEF IInv, TypeOK, SkipSource
  <1>2. SavedFirst'
    BY DEF IInv, SavedFirst, SkipSource
  <1>3. SavedEnough'
    BY DEF IInv, SavedEnough, SkipSource, NeedsSaving, TypeOK, destinations
  <1>4. AssignsFollow'
    BY DEF IInv, AssignsFollow, SkipSource, TypeOK, Source
  <1>5. EnvInv'
    BY DEF IInv, EnvInv, SkipSource, TypeOK, Ran, destinations
  <1> QED BY <1>1, <1>2, <1>3, <1>4, <1>5 DEF IInv

\* So does emitting the copy of a destination, from the saved source if there is one.
LEMMA StepAssignDestination == IInv /\ AssignDestination => IInv'
  <1> SUFFICES ASSUME IInv, AssignDestination PROVE IInv'
    OBVIOUS
  <1> DEFINE m == Move(moves[n].to, Source(moves[n].from))
  <1>0. n \in DOMAIN moves /\ m \in [to : Names \cup Temps, from : Names \cup Temps]
    BY MovesInNames DEF IInv, TypeOK, AssignDestination, Temps, Move, Source
  <1>1. TypeOK'
    BY <1>0 DEF IInv, TypeOK, AssignDestination
  <1>2. /\ Len(final_moves) = saves + n - 1
        /\ Len(final_moves') = saves + n
        /\ final_moves'[saves + n] = m
        /\ \A k \in 1..(saves + n - 1) : final_moves'[k] = final_moves[k]
    BY <1>0 DEF IInv, TypeOK, AssignsFollow, AssignDestination
  <1>3. SavedFirst'
    BY <1>2 DEF IInv, SavedFirst, AssignDestination, TypeOK
  <1>4. SavedEnough'
    BY DEF IInv, SavedEnough, AssignDestination, TypeOK, destinations
  <1>5. AssignsFollow'
    <2>1. ASSUME NEW k \in DOMAIN moves, saves + k <= Len(final_moves')
          PROVE  final_moves'[saves + k] = Move(moves[k].to, Source(moves[k].from))
      <3>1. CASE k = n
        BY <3>1, <1>2
      <3>2. CASE k < n
        <4>1. saves \in Nat /\ n \in Nat /\ k \in Nat \ {0} /\ n \in DOMAIN moves
          BY <1>0, MovesInNames DEF IInv, TypeOK
        <4>2. saves + k \in 1..(saves + n - 1) /\ saves + k <= Len(final_moves)
          BY <1>2, <3>2, <4>1
        <4>3. final_moves[saves + k] = Move(moves[k].to, Source(moves[k].from))
          BY <4>2 DEF IInv, AssignsFollow
        <4> QED BY <1>2, <4>2, <4>3
      <3> QED BY <3>1, <3>2, <2>1, <1>2, <1>0, MovesInNames DEF IInv, TypeOK
    <2> QED BY <2>1, <1>2, <1>0, MovesInNames
            DEF IInv, AssignsFollow, AssignDestination, TypeOK, Source
  <1>6. EnvInv'
    <2>1. \A k \in 1..saves : final_moves'[k] = final_moves[k]
      BY <1>2, <1>0, MovesInNames DEF IInv, TypeOK
    <2> QED BY <2>1 DEF IInv, EnvInv, AssignDestination, Ran, destinations
  <1> QED BY <1>1, <1>3, <1>4, <1>5, <1>6 DEF IInv

\* So does going from one loop of insert_moves to the next.
LEMMA StepNextLoop == IInv /\ NextLoop => IInv'
  <1> SUFFICES ASSUME IInv, NextLoop PROVE IInv'
    OBVIOUS
  <1>1. TypeOK'
    BY DEF IInv, TypeOK, NextLoop
  <1>2. SavedFirst'
    BY DEF IInv, SavedFirst, NextLoop
  <1>3. SavedEnough'
    BY MovesInNames DEF IInv, SavedEnough, NextLoop, TypeOK, destinations
  <1>4. AssignsFollow'
    BY MovesInNames DEF IInv, AssignsFollow, NextLoop, TypeOK, Source
  <1>5. EnvInv'
    <2>1. ASSUME NEW k \in 1..Len(final_moves)
          PROVE  Ran(k)' <=> Ran(k)
      BY MovesInNames DEF IInv, NextLoop, TypeOK, Ran
    <2>2. /\ \A k \in 1..saves : k \in 1..Len(final_moves)
          /\ saves \in Nat /\ Len(final_moves) \in Nat /\ Len(moves) \in Nat
      BY MovesInNames DEF IInv, TypeOK, SavedFirst
    <2>3. CASE pc = "save"
      BY <2>3 DEF IInv, EnvInv, NextLoop, Ran, destinations, TypeOK
    <2>4. CASE pc \in {"assign", "run"}
      <3>1. pc' \in {"run", "done"} /\ UNCHANGED <<moves, saves, final_moves, env>>
        BY <2>4 DEF NextLoop
      <3>2. \A k \in DOMAIN moves : saves + k \in 1..Len(final_moves)
        BY <2>2, <3>1, <2>4, MovesInNames DEF IInv, AssignsFollow, NextLoop, TypeOK
      <3> QED BY <2>1, <2>2, <3>1, <3>2 DEF IInv, EnvInv, destinations
    <2> QED BY <2>3, <2>4 DEF NextLoop
  <1> QED BY <1>1, <1>2, <1>3, <1>4, <1>5 DEF IInv

\* So does running an emitted move.
LEMMA StepRunMove == IInv /\ RunMove => IInv'
  <1> SUFFICES ASSUME IInv, RunMove PROVE IInv'
    OBVIOUS
  <1> DEFINE m == final_moves[n]
  <1>0. /\ n \in DOMAIN final_moves
        /\ m.to \in Names \cup Temps /\ m.from \in Names \cup Temps
        /\ saves \in Nat /\ Len(moves) \in Nat /\ Len(final_moves) = saves + Len(moves)
    <2>1. n \in DOMAIN final_moves
      BY DEF IInv, TypeOK, RunMove
    <2>2. final_moves[n] \in [to : Names \cup Temps, from : Names \cup Temps]
      BY <2>1, ElementOfSeq DEF IInv, TypeOK
    <2>3. saves \in Nat /\ Len(moves) \in Nat /\ Len(final_moves) = saves + Len(moves)
      BY MovesInNames DEF IInv, TypeOK, RunMove, AssignsFollow
    <2> QED BY <2>1, <2>2, <2>3
  <1>1. TypeOK'
    BY <1>0 DEF IInv, TypeOK, RunMove
  <1>2. SavedFirst' /\ SavedEnough' /\ AssignsFollow'
    BY <1>0 DEF IInv, SavedFirst, SavedEnough, AssignsFollow, RunMove, destinations, Source
  <1>3. \A k \in 1..Len(final_moves) : Ran(k)' <=> Ran(k) \/ k = n
    BY <1>0 DEF RunMove, Ran, IInv, TypeOK
  <1>4. \A k \in 1..saves : final_moves[k].from \in Names
                          /\ final_moves[k].to = Temp(final_moves[k].from)
    <2> SUFFICES ASSUME NEW k \in 1..saves
                 PROVE  /\ final_moves[k].from \in Names
                        /\ final_moves[k].to = Temp(final_moves[k].from)
      OBVIOUS
    <2>1. PICK v \in saved : final_moves[k] = Move(Temp(v), v)
      BY DEF IInv, SavedFirst
    <2> QED BY <2>1 DEF IInv, TypeOK, Move
  <1>5. EnvInv'
    <2>1. CASE n <= saves
      \* A value is saved while every name still holds its own.
      <3>1. \A x \in Names : env[x] = x
        BY <2>1, <1>0, MovesInNames DEF IInv, EnvInv, Ran, destinations, RunMove, TypeOK
      <3>2. m.to \in Temps /\ m.from \in Names /\ env' = [env EXCEPT ![m.to] = m.from]
        <4>1. n \in 1..saves
          BY <2>1, <1>0 DEF IInv, TypeOK
        <4>2. m.from \in Names /\ m.to = Temp(m.from)
          BY <4>1, <1>4
        <4> QED BY <4>2, <3>1 DEF RunMove, Temps
      <3>3. \A x \in Names : env'[x] = x
        BY <3>1, <3>2, MovesInNames DEF IInv, TypeOK
      <3>4. \A k \in 1..saves : Ran(k)' => env'[final_moves[k].to] = final_moves[k].from
        <4> SUFFICES ASSUME NEW k \in 1..saves, Ran(k)'
                     PROVE  env'[final_moves[k].to] = final_moves[k].from
          OBVIOUS
        <4>1. k \in 1..Len(final_moves) /\ final_moves[k].to \in Temps
          BY <1>0, <1>4 DEF Temps
        <4>2. CASE final_moves[k].to = m.to
          <5>1. final_moves[k].from = m.from
            BY <4>2, <2>1, <1>0, <1>4, TempAssumption
          <5> QED BY <5>1, <4>1, <4>2, <3>2 DEF IInv, TypeOK
        <4>3. CASE final_moves[k].to # m.to
          <5>1. Ran(k)
            BY <4>1, <4>3, <1>3
          <5> QED BY <5>1, <4>1, <4>3, <3>2 DEF IInv, EnvInv, TypeOK
        <4> QED BY <4>2, <4>3
      <3>5. \A k \in DOMAIN moves : ~Ran(saves + k)'
        BY <2>1, <1>0, MovesInNames DEF RunMove, Ran, IInv, TypeOK
      <3>6. \A k \in DOMAIN moves : env'[moves[k].to] = moves[k].to
        BY <3>3, MovesInNames DEF IInv
      <3>7. moves' = moves /\ saves' = saves /\ final_moves' = final_moves
        BY DEF RunMove
      <3> QED BY <3>3, <3>4, <3>5, <3>6, <3>7 DEF EnvInv, destinations
    <2>2. CASE n > saves
      \* An assignment reads its own source or the value saved for it.
      <3> DEFINE q == n - saves
      <3>1. /\ q \in DOMAIN moves /\ saves + q = n
            /\ m = Move(moves[q].to, Source(moves[q].from))
            /\ moves[q].to \in Names /\ moves[q].from \in Names
        <4>1. /\ pc = "run" /\ n \in Nat /\ saves \in Nat /\ n <= Len(final_moves)
              /\ moves \in Seq([to : Names, from : Names])
          BY MovesInNames DEF IInv, RunMove, TypeOK
        <4>2. Len(final_moves) = saves + Len(moves)
          BY <4>1 DEF IInv, AssignsFollow
        <4>3. q \in DOMAIN moves /\ saves + q = n
          BY <4>1, <4>2, <2>2
        <4>4. final_moves[saves + q] = Move(moves[q].to, Source(moves[q].from))
          BY <4>1, <4>2, <4>3 DEF IInv, AssignsFollow
        <4> QED BY <4>3, <4>4, MovesInNames DEF IInv
      <3>2. env[m.from] = moves[q].from
        <4>1. CASE moves[q].from \in saved
          <5>1. PICK k \in 1..saves : final_moves[k] = Move(Temp(moves[q].from), moves[q].from)
            BY <4>1 DEF IInv, SavedFirst
          <5>2. Ran(k)
            BY <2>2, <1>0 DEF Ran, RunMove, IInv, TypeOK
          <5> QED BY <5>1, <5>2, <4>1, <3>1 DEF IInv, EnvInv, Move, Source
        <4>2. CASE moves[q].from \notin saved
          <5>1. moves[q].from \notin destinations
            BY <4>2, <3>1 DEF IInv, SavedEnough, RunMove
          <5> QED BY <5>1, <4>2, <3>1 DEF IInv, EnvInv, Move, Source
        <4> QED BY <4>1, <4>2
      <3>3. env' = [env EXCEPT ![moves[q].to] = moves[q].from]
        BY <3>1, <3>2 DEF RunMove, Move
      <3>4. \A x \in Names \ destinations : env'[x] = x
        BY <3>1, <3>3 DEF IInv, EnvInv, TypeOK, destinations
      <3>5. \A k \in 1..saves : Ran(k)' => env'[final_moves[k].to] = final_moves[k].from
        <4> SUFFICES ASSUME NEW k \in 1..saves
                     PROVE  env'[final_moves[k].to] = final_moves[k].from
          OBVIOUS
        <4>1. final_moves[k].to \in Temps /\ final_moves[k].to # moves[q].to
          BY <1>4, <3>1, MovesInNames DEF IInv, Temps
        <4>2. Ran(k)
          BY <2>2, <1>0 DEF Ran, RunMove, IInv, TypeOK
        <4> QED BY <4>1, <4>2, <3>3 DEF IInv, EnvInv, TypeOK
      <3>6. \A k \in DOMAIN moves :
              env'[moves[k].to] = IF Ran(saves + k)' THEN moves[k].from ELSE moves[k].to
        <4> SUFFICES ASSUME NEW k \in DOMAIN moves
                     PROVE  env'[moves[k].to] =
                              IF Ran(saves + k)' THEN moves[k].from ELSE moves[k].to
          OBVIOUS
        <4>0. saves + k \in 1..Len(final_moves)
          BY <1>0, MovesInNames DEF IInv, TypeOK
        <4>1. CASE k = q
          <5>1. Ran(saves + k)'
            BY <4>0, <4>1, <3>1, <1>3 DEF RunMove
          <5> QED BY <5>1, <4>1, <3>1, <3>3 DEF IInv, TypeOK
        <4>2. CASE k # q
          <5>1. moves[k].to # moves[q].to
            BY <4>2, <3>1, MovesInNames DEF IInv
          <5>2. saves + k # n
            BY <4>2, <3>1, <1>0 DEF IInv, TypeOK
          <5>3. Ran(saves + k)' <=> Ran(saves + k)
            BY <4>0, <5>2, <1>3 DEF RunMove
          <5> QED BY <5>1, <5>3, <3>3, <3>1, MovesInNames DEF IInv, EnvInv, TypeOK
        <4> QED BY <4>1, <4>2
      <3> QED BY <3>4, <3>5, <3>6 DEF EnvInv, RunMove, destinations
    <2> QED BY <2>1, <2>2, <1>0 DEF IInv, TypeOK
  <1> QED BY <1>1, <1>2, <1>5 DEF IInv

\* IInv holds in every state.
THEOREM Inductive == Spec => []IInv
  <1>1. Init => IInv
    BY Initially
  <1>2. IInv /\ [Next]_vars => IInv'
    <2> SUFFICES ASSUME IInv, [Next]_vars PROVE IInv'
      OBVIOUS
    <2>1. CASE UNCHANGED vars
      BY <2>1 DEF vars, IInv, TypeOK, SavedFirst, SavedEnough, AssignsFollow, EnvInv,
                  Ran, Source, destinations
    <2> QED BY <2>1, StepSaveSource, StepSkipSource, StepAssignDestination,
               StepRunMove, StepNextLoop DEF Next
  <1> QED BY <1>1, <1>2, PTL DEF Spec

\* insert_moves is correct: whatever the phis of the block copy into one another,
\* the moves it emits have the effect of doing all of them together.
THEOREM CopiesAreParallel == Spec => []DoneTogether
  <1>1. IInv => DoneTogether
    BY DEF IInv, EnvInv, Ran, DoneTogether
  <1> QED BY <1>1, Inductive, PTL
=============================================================================
