----------------------------- MODULE MCPoolFile -----------------------------
(* Model checking PoolFile: the hellos of an old and a new build, of which *)
(* the old one visited servers with names of two lengths, one contribution *)
(* to both.                                                                *)
EXTENDS PoolFile, TLC

Sample(build, sni, bodies) == {[build |-> build, sni |-> sni, body |-> i] : i \in bodies}

ThreeGroups == Sample("old", 0, 1..2) \cup Sample("old", 1, 2..3) \cup Sample("new", 0, 1..3)
FewHellos   == Sample("old", 0, 1..2) \cup Sample("new", 0, 1..2)

BuildRank == "new" :> 0 @@ "old" :> 1
RankOf == [f \in {"new", "old"} \X (0..1) |-> 2 * BuildRank[f[1]] + f[2]]

(* The other sources: none, and a pool of two builds, one hello of it      *)
(* twice.                                                                  *)
NoHellos == <<>>
MixedPool == SetToSeq(Sample("old", 0, 1..2) \cup Sample("new", 0, 1..1)) \o SetToSeq(Sample("old", 0, 1..1))
=============================================================================
