--------------------------- MODULE MCParallelCopy ---------------------------
(* Up to three phi copies and one value computed elsewhere. *)
EXTENDS ParallelCopy, SequencesExt

MCNames == {"x", "y", "z", "c"}
MCTemp(v) == "temp_" \o v

\* Every list of moves to some of x, y, z, in every order of the phis and with
\* every choice of sources, the copies themselves included.
MCMoveLists ==
  {ms \in SeqOf([to : MCNames \ {"c"}, from : MCNames], 3) :
     \A i, j \in DOMAIN ms : ms[i].to = ms[j].to => i = j}
=============================================================================
