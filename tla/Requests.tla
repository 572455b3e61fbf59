------------------------------ MODULE Requests ------------------------------
(***************************************************************************)
(* What the chat, the bridge files and the daemon have in common: the       *)
(* identity of a request and the trim of a list that has outgrown its limit. *)
(***************************************************************************)
EXTENDS Naturals, Sequences

CONSTANTS
    Questions,      \* the kinds of question a player may ask, see CompanionDaemon
    NoQuestion      \* what lastQuestion and an absent question.txt hold

ASSUME QuestionsAssumption == NoQuestion \notin Questions \cup {"web on", "web off"}

(***************************************************************************)
(* A request is identified by the plugin's sequence number and the id of   *)
(* the chat it belongs to.  Session ids are made from the clock and the    *)
(* process id and are never reused; they are numbered here in the order    *)
(* in which they are made.  None is the identity no request ever has.      *)
(***************************************************************************)
Identity == [seq : Nat, session : Nat]
None == [seq |-> 0, session |-> 0]

\* Identity a was issued before identity b: sequence numbers only grow while
\* a plugin is loaded, and a plugin that is loaded again opens a new session.
Older(a, b) ==
    \/ a.session < b.session
    \/ a.session = b.session /\ a.seq < b.seq

NotNewer(a, b) == a = b \/ Older(a, b)

\* The trim both ends apply to a list that has outgrown its limit.
KeepLast(s, n) == IF Len(s) > n THEN SubSeq(s, Len(s) - n + 1, Len(s)) ELSE s
=============================================================================
