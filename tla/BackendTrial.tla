---------------------------- MODULE BackendTrial ----------------------------
(***************************************************************************)
(* What updater and launchers promise of the downloaded backends, without    *)
(* directories, daemons or steps that can come between: one release is        *)
(* confirmed, at most one newer one is on trial.  A trial ends before a game  *)
(* starts: a good release is confirmed, a bad one is gone, and the confirmed  *)
(* one is what it was.  A game runs with the confirmed release or with the    *)
(* checked-out copy.                                                         *)
(***************************************************************************)
EXTENDS Naturals

CONSTANTS MaxRelease, Good

VARIABLES
    confirmed,      \* the release confirmed last, or 0
    candidate,      \* the release on trial, or 0
    playing         \* the backends of the games that run: none or one, 0 the checked-out copy

vars == <<confirmed, candidate, playing>>

Init == confirmed = 0 /\ candidate = 0 /\ playing = {}

Offer ==
    /\ candidate = 0 /\ playing = {}
    /\ candidate' \in confirmed + 1 .. MaxRelease
    /\ UNCHANGED <<confirmed, playing>>

Accept ==
    /\ candidate \in Good
    /\ confirmed' = candidate /\ candidate' = 0
    /\ playing' = {candidate}

Refuse ==
    /\ candidate \notin Good \cup {0}
    /\ candidate' = 0
    /\ UNCHANGED <<confirmed, playing>>

Play ==
    /\ candidate = 0 /\ playing = {}
    /\ \E backend \in {confirmed, 0} : playing' = {backend}
    /\ UNCHANGED <<confirmed, candidate>>

Stop ==
    /\ playing # {} /\ playing' = {}
    /\ UNCHANGED <<confirmed, candidate>>

Next == Offer \/ Accept \/ Refuse \/ Play \/ Stop

Spec == Init /\ [][Next]_vars
=============================================================================
