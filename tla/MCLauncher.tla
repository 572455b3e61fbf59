----------------------------- MODULE MCLauncher -----------------------------
(* Model-checking instance of Launcher. *)
EXTENDS Launcher, TLC

GoodReleases == {r \in 1..MaxRelease : r # 2}

\* The processes are alike.
ProcessSymmetry == Permutations(Processes)
=============================================================================
