---------------------------- MODULE BridgeFiles ----------------------------
(***************************************************************************)
(* The bridge directory shared by the game plugin and the companion       *)
(* daemon: question.txt, cancel.txt (written by the plugin) and answer.txt *)
(* (written by the daemon).  Each writer prepares a temporary file and     *)
(* renames it over the destination, so a reader sees the old or the new    *)
(* contents, never a mixture.  Both ends read a file only to compare the   *)
(* identity in its header with one they hold; the text is abstracted.      *)
(***************************************************************************)
EXTENDS Requests

VARIABLES
    question,       \* question.txt
    answer,         \* answer.txt
    cancel          \* cancel.txt

bridgeVars == <<question, answer, cancel>>

Question == [id : Identity, text : Questions \cup {NoQuestion}]

\* body is the identity of the request the text of the answer was composed for.
Answer == [id : Identity, error : BOOLEAN, body : Identity]
NoAnswer == [id |-> None, error |-> FALSE, body |-> None]

\* A first launch finds an empty directory.
BridgeInit ==
    /\ question = [id |-> None, text |-> NoQuestion]
    /\ answer = NoAnswer
    /\ cancel = None
=============================================================================
