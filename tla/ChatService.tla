---------------------------- MODULE ChatService ----------------------------
(***************************************************************************)
(* What the chat promises its player, without files, threads or processes: *)
(* at most one question is outstanding; it is settled by one reply, by the *)
(* player or by opening a new chat; a reply is always to the question that *)
(* was asked last, and once a question was answered nothing more is said    *)
(* about it.                                                               *)
(***************************************************************************)
EXTENDS Requests, SequencesExt

CONSTANT MaxMessages

VARIABLES
    transcript,     \* what the panel shows
    outstanding,    \* the question that waits for a reply, or None
    issued          \* the newest identity in use

vars == <<transcript, outstanding, issued>>

Welcome == [author |-> "Companion", re |-> None, text |-> NoQuestion]

Say(m) == transcript' = KeepLast(Append(transcript, m), MaxMessages)

Init ==
    /\ transcript = <<Welcome>>
    /\ outstanding = None
    /\ issued \in Identity

Ask ==
    /\ outstanding = None
    /\ issued' \in Identity /\ Older(issued, issued')
    /\ outstanding' = issued'
    /\ \E text \in Questions :
        Say([author |-> "Player", re |-> issued', text |-> text])

Reply ==
    /\ outstanding # None
    /\ Say([author |-> "Companion", re |-> outstanding, text |-> NoQuestion])
    /\ outstanding' = None
    /\ UNCHANGED issued

\* An error may be reported twice, but never once an answer was given.
Fail ==
    /\ Last(transcript).author # "Companion"
    /\ Say([author |-> "Error", re |-> issued, text |-> NoQuestion])
    /\ outstanding' = None
    /\ UNCHANGED issued

Abandon ==
    /\ outstanding # None
    /\ outstanding' = None
    /\ issued' \in Identity /\ Older(issued, issued')
    /\ UNCHANGED transcript

NewChat ==
    /\ transcript' = <<Welcome>>
    /\ outstanding' = None
    /\ issued' \in Identity /\ Older(issued, issued')

Next == Ask \/ Reply \/ Fail \/ Abandon \/ NewChat

Spec == Init /\ [][Next]_vars
=============================================================================
