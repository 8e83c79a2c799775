---------------------------- MODULE ParallelCopy ----------------------------
(***************************************************************************)
(* RemovePhi turns the phis of a block into moves at the end of each       *)
(* predecessor.  The phis of a block read their operands together; the     *)
(* moves run one after the other, and a move may overwrite what a later    *)
(* one reads.  Helper::insert_moves makes a sequence of moves with the     *)
(* same effect: values about to be overwritten are first saved.            *)
(*                                                                         *)
(* The module builds that sequence as the code does and then runs it.  At  *)
(* the start every name holds a value of its own, written like the name.   *)
(***************************************************************************)
EXTENDS Integers, Sequences

CONSTANTS
  Names,     \* values of the function, the copies of the phis included
  Temp(_),   \* the temporary made for a saved value: a new name each time
  MoveLists  \* the lists of moves insert_moves may be given

Move(to, from) == [to |-> to, from |-> from]

\* Helper::build makes one move for each phi, to a copy that belongs to it.
ASSUME MoveListAssumption ==
  /\ MoveLists \subseteq Seq([to : Names, from : Names])
  /\ \A ms \in MoveLists : \A i, j \in DOMAIN ms : ms[i].to = ms[j].to => i = j

\* make_name never returns the same name twice.
ASSUME TempAssumption ==
  /\ \A v \in Names : Temp(v) \notin Names
  /\ \A v, w \in Names : Temp(v) = Temp(w) => v = w

Temps == {Temp(v) : v \in Names}

VARIABLES
  moves,        \* the moves of one predecessor, as if done together
  saved,        \* keys of saved_values; the value saved for v is Temp(v)
  final_moves,
  saves,        \* number of moves of final_moves that save a value
  n,            \* next element of the loop in progress
  pc,
  env           \* what each name holds while final_moves runs

vars == <<moves, saved, final_moves, saves, n, pc, env>>

destinations == {moves[k].to : k \in DOMAIN moves}

Init ==
  /\ moves \in MoveLists
  /\ saved = {} /\ final_moves = <<>> /\ saves = 0
  /\ n = 1
  /\ pc = "save"
  /\ env = [v \in Names \cup Temps |-> v]

\* Mutant: only the destinations met so far are thought to be overwritten.
NeedsSavingLate(k) == moves[k].from \in {moves[j].to : j \in 1..(k - 1)} \ saved

\* The source of a move is also the destination of one, and not saved yet.
NeedsSaving(k) == moves[k].from \in destinations \ saved

\* The second loop saves such sources.
SaveSource ==
  /\ pc = "save" /\ n <= Len(moves)
  /\ NeedsSaving(n)
  /\ saved' = saved \cup {moves[n].from}
  /\ final_moves' = Append(final_moves, Move(Temp(moves[n].from), moves[n].from))
  /\ saves' = saves + 1
  /\ n' = n + 1
  /\ UNCHANGED <<moves, pc, env>>

SkipSource ==
  /\ pc = "save" /\ n <= Len(moves)
  /\ ~NeedsSaving(n)
  /\ n' = n + 1
  /\ UNCHANGED <<moves, saved, final_moves, saves, pc, env>>

\* Mutant: the saved values are not used.
SourceItself(v) == v

\* The third loop: assign from the saved value if there is one.
Source(v) == IF v \in saved THEN Temp(v) ELSE v

AssignDestination ==
  /\ pc = "assign" /\ n <= Len(moves)
  /\ final_moves' = Append(final_moves, Move(moves[n].to, Source(moves[n].from)))
  /\ n' = n + 1
  /\ UNCHANGED <<moves, saved, saves, pc, env>>

\* The last loop puts final_moves before the terminator; the program then runs
\* them in that order.
RunMove ==
  /\ pc = "run" /\ n <= Len(final_moves)
  /\ env' = [env EXCEPT ![final_moves[n].to] = env[final_moves[n].from]]
  /\ n' = n + 1
  /\ UNCHANGED <<moves, saved, final_moves, saves, pc>>

NextLoop ==
  /\ \/ pc = "save"   /\ n > Len(moves)       /\ pc' = "assign"
     \/ pc = "assign" /\ n > Len(moves)       /\ pc' = "run"
     \/ pc = "run"    /\ n > Len(final_moves) /\ pc' = "done"
  /\ n' = 1
  /\ UNCHANGED <<moves, saved, final_moves, saves, env>>

Next == SaveSource \/ SkipSource \/ AssignDestination \/ RunMove \/ NextLoop

Spec == Init /\ [][Next]_vars

-----------------------------------------------------------------------------
\* Running final_moves is doing the moves together: every destination gets the
\* value its source had before any of them, and no other name of the function
\* changes.
DoneTogether ==
  pc = "done" =>
    /\ \A k \in DOMAIN moves : env[moves[k].to] = moves[k].from
    /\ \A v \in Names \ destinations : env[v] = v

-----------------------------------------------------------------------------
(* The inductive invariant. *)

TypeOK ==
  /\ moves \in MoveLists
  /\ saved \subseteq Names
  /\ final_moves \in Seq([to : Names \cup Temps, from : Names \cup Temps])
  /\ saves \in Nat
  /\ n \in Nat \ {0}
  /\ pc \in {"save", "assign", "run", "done"}
  /\ env \in [Names \cup Temps -> Names \cup Temps]

\* The first `saves` moves save the values of `saved`.
SavedFirst ==
  /\ saves <= Len(final_moves)
  /\ \A k \in 1..saves :
       \E v \in saved : final_moves[k] = Move(Temp(v), v)
  /\ \A v \in saved : \E k \in 1..saves : final_moves[k] = Move(Temp(v), v)

\* Every source that some move overwrites is saved once the loop has passed it.
SavedEnough ==
  \A k \in DOMAIN moves :
    (pc = "save" => k < n) /\ moves[k].from \in destinations => moves[k].from \in saved

\* The other moves follow the given ones.
AssignsFollow ==
  /\ pc = "save" => Len(final_moves) = saves
  /\ pc = "assign" => n <= Len(moves) + 1 /\ Len(final_moves) = saves + n - 1
  /\ pc \in {"run", "done"} => Len(final_moves) = saves + Len(moves)
  /\ \A k \in DOMAIN moves :
       saves + k <= Len(final_moves) =>
         final_moves[saves + k] = Move(moves[k].to, Source(moves[k].from))

\* What has run: the saves first, then the assignments one by one.
Ran(k) == pc = "done" \/ (pc = "run" /\ k < n)

EnvInv ==
  /\ \A v \in Names \ destinations : env[v] = v
  /\ \A k \in 1..saves : Ran(k) => env[final_moves[k].to] = final_moves[k].from
  /\ \A k \in DOMAIN moves :
       env[moves[k].to] = IF Ran(saves + k) THEN moves[k].from ELSE moves[k].to
\* insert_moves saves every overwritten source before it assigns, then assigns
\* each destination once, from the value its source had at the start.
IInv == TypeOK /\ SavedFirst /\ SavedEnough /\ AssignsFollow /\ EnvInv
=============================================================================
