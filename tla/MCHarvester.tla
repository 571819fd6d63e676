----------------------------- MODULE MCHarvester -----------------------------
(* Model checking Harvester: the hellos of an old and a new build.         *)
EXTENDS Harvester, TLC

Sample(build, sni, n) == {[build |-> build, sni |-> sni, body |-> i] : i \in 1..n}

(* Servers with names of one length. *)
TwoBuilds == Sample("old", 0, 3) \cup Sample("new", 0, 3)

(* The old build also visited servers with longer names. *)
LongerNames == Sample("old", 0, 2) \cup {[build |-> "old", sni |-> 1, body |-> i] : i \in 3..4}
                                  \cup Sample("new", 0, 3)

BuildRank == "new" :> 0 @@ "old" :> 1
RankOf == [f \in {"new", "old"} \X (0..1) |-> 2 * BuildRank[f[1]] + f[2]]
=============================================================================
