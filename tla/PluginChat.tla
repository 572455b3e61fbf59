----------------------------- MODULE PluginChat -----------------------------
(***************************************************************************)
(* The chat inside the game process (plugin/plugin.cpp, plugin/bridge.cpp). *)
(* Two threads share ChatState under one mutex:                            *)
(*  - the render thread runs the buttons of the panel; it changes ChatState *)
(*    under the mutex, releases it, and only then writes a bridge file;     *)
(*  - the poll thread copies the identity it waits for under the mutex,     *)
(*    reads answer.txt without it, and takes it again to apply what it read. *)
(***************************************************************************)
EXTENDS BridgeFiles

CONSTANTS
    MaxMessages,    \* the transcript keeps this many messages (100)
    MaxSequence,    \* bound: sequence numbers used by one plugin process
    MaxSessions     \* bound: chats opened, over all launches of the game

ASSUME PluginAssumption ==
    MaxMessages \in Nat \ {0} /\ MaxSequence \in Nat /\ MaxSessions \in Nat

VARIABLES
    messages,       \* the transcript
    session,        \* sessionId
    sequence,       \* number of the current request
    waiting,        \* a question is outstanding
    canRetry,       \* the Retry button is enabled
    lastQuestion,   \* what the Retry button asks again
    overdue,        \* the last sequence whose wait has exceeded 210 seconds
    ui,             \* render thread: the bridge file it is writing, if any
    poll            \* poll thread: its place in the loop and its local copies

chatVars == <<messages, session, sequence, waiting, canRetry, lastQuestion>>
pluginVars == <<chatVars, overdue, ui, poll>>

Message == [author : {"Player", "Companion", "Error"},
            re : Identity,      \* the request a message asks or replies to
            text : Questions \cup {NoQuestion}]

PlayerMessage(id, text) == [author |-> "Player", re |-> id, text |-> text]
Reply(author, id) == [author |-> author, re |-> id, text |-> NoQuestion]
Welcome == Reply("Companion", None)

Current == [seq |-> sequence, session |-> session]

RenderThread == [pc : {"idle", "request", "cancel"}, id : Identity,
                 text : Questions \cup {NoQuestion}]
PollThread == [pc : {"top", "read", "apply", "expire"}, id : Identity,
               response : Answer]

Idle == [pc |-> "idle", id |-> None, text |-> NoQuestion]
Polling(pc, id, response) == [pc |-> pc, id |-> id, response |-> response]
AtTop == Polling("top", None, NoAnswer)

PluginInit ==
    /\ session = 1 /\ sequence = 1
    /\ messages = <<Welcome>>
    /\ waiting = FALSE /\ canRetry = FALSE
    /\ lastQuestion = NoQuestion
    /\ overdue = 0
    /\ ui = Idle
    /\ poll = AtTop

---------------------------------------------------------------------------
(* AddMessageLocked *)
Untrimmed(s) == s                       \* mutant of Trim: no limit
Trim(s) == KeepLast(s, MaxMessages)

AddMessage(m) == messages' = Trim(Append(messages, m))

SameSequence == sequence                     \* mutant of NextSequence: no increment
NextSequence == sequence + 1

NextId == [seq |-> NextSequence, session |-> session]

(***************************************************************************)
(* The render thread.                                                      *)
(***************************************************************************)
SubmitQuestion(text) ==
    /\ ui.pc = "idle"
    /\ ~waiting
    /\ sequence < MaxSequence
    /\ sequence' = NextSequence
    /\ waiting' = TRUE
    /\ lastQuestion' = text
    /\ canRetry' = FALSE
    /\ AddMessage(PlayerMessage(NextId, text))
    /\ ui' = [pc |-> "request", id |-> NextId, text |-> text]
    /\ UNCHANGED <<session, overdue, poll, bridgeVars>>

Send == \E text \in Questions : SubmitQuestion(text)

\* The Retry button asks the last question again, as a new request.
Retry ==
    /\ canRetry /\ lastQuestion # NoQuestion
    /\ SubmitQuestion(lastQuestion)

\* The second half of SubmitQuestion: WriteRequest renames question.tmp.
WriteRequest ==
    /\ ui.pc = "request"
    /\ question' = [id |-> ui.id, text |-> ui.text]
    /\ ui' = Idle
    /\ UNCHANGED <<chatVars, overdue, poll, answer, cancel>>

AnySequence(number) == TRUE           \* mutant of StillCurrent: no check
\* The mutex was released before the write, so the sequence is checked again.
StillCurrent(number) == sequence = number

\* WriteRequest returned false.
RequestNotWritten ==
    /\ ui.pc = "request"
    /\ StillCurrent(ui.id.seq)
    /\ waiting' = FALSE
    /\ canRetry' = TRUE
    /\ AddMessage(Reply("Error", Current))
    /\ ui' = Idle
    /\ UNCHANGED <<session, sequence, lastQuestion, overdue, poll, bridgeVars>>

\* Building the context or writing the file threw; RenderPanel catches
\* everything, and the question stays outstanding although nothing was sent.
RequestThrew ==
    /\ ui.pc = "request"
    /\ ui' = Idle
    /\ UNCHANGED <<chatVars, overdue, poll, bridgeVars>>

\* Mutant of CancelWaiting: the Retry button is not offered.
CancelWithoutRetry ==
    /\ ui.pc = "idle"
    /\ waiting
    /\ sequence < MaxSequence
    /\ sequence' = NextSequence
    /\ waiting' = FALSE
    /\ ui' = [pc |-> "cancel", id |-> Current, text |-> NoQuestion]
    /\ UNCHANGED <<messages, session, canRetry, lastQuestion, overdue, poll, bridgeVars>>

\* Cancel moves on to the next sequence number so that no late answer matches.
CancelWaiting ==
    /\ ui.pc = "idle"
    /\ waiting
    /\ sequence < MaxSequence
    /\ sequence' = NextSequence
    /\ waiting' = FALSE
    /\ canRetry' = TRUE
    /\ ui' = [pc |-> "cancel", id |-> Current, text |-> NoQuestion]
    /\ UNCHANGED <<messages, session, lastQuestion, overdue, poll, bridgeVars>>

\* New chat, confirmed.  An outstanding request is canceled as well.
ResetConversation ==
    /\ ui.pc = "idle"
    /\ sequence < MaxSequence /\ session < MaxSessions
    /\ sequence' = NextSequence
    /\ session' = session + 1
    /\ messages' = <<Welcome>>
    /\ lastQuestion' = NoQuestion
    /\ waiting' = FALSE
    /\ canRetry' = FALSE
    /\ ui' = IF waiting THEN [pc |-> "cancel", id |-> Current, text |-> NoQuestion]
                        ELSE Idle
    /\ UNCHANGED <<overdue, poll, bridgeVars>>

WriteCancellation ==
    /\ ui.pc = "cancel"
    /\ cancel' = ui.id
    /\ ui' = Idle
    /\ UNCHANGED <<chatVars, overdue, poll, question, answer>>

\* The failure is at most logged: the daemon never hears of this cancellation.
CancellationNotWritten ==
    /\ ui.pc = "cancel"
    /\ ui' = Idle
    /\ UNCHANGED <<chatVars, overdue, poll, bridgeVars>>

---------------------------------------------------------------------------
(***************************************************************************)
(* The poll thread.                                                        *)
(***************************************************************************)
PollSnapshot ==
    /\ poll.pc = "top"
    /\ waiting
    /\ poll' = Polling("read", Current, NoAnswer)
    /\ UNCHANGED <<chatVars, overdue, ui, bridgeVars>>

MatchesSequence(response, id) == response.id.seq = id.seq    \* mutant of Matches
\* The identity in the answer's header is the one the thread waits for.
Matches(response, id) == response.id = id

PollReadMatches ==
    /\ poll.pc = "read"
    /\ Matches(answer, poll.id)
    /\ poll' = Polling("apply", poll.id, answer)
    /\ UNCHANGED <<chatVars, overdue, ui, bridgeVars>>

NeverOverdue(id) == FALSE               \* mutant of Overdue: no timeout
Overdue(id) == overdue = id.seq

\* Any other answer, or a file that cannot be opened at this moment.
PollReadMisses ==
    /\ poll.pc = "read"
    /\ poll' = IF Overdue(poll.id) THEN Polling("expire", poll.id, NoAnswer) ELSE AtTop
    /\ UNCHANGED <<chatVars, overdue, ui, bridgeVars>>

\* ReadResponse threw; the loop logs it and sleeps.
PollReadThrew ==
    /\ poll.pc = "read"
    /\ poll' = AtTop
    /\ UNCHANGED <<chatVars, overdue, ui, bridgeVars>>

\* The mutex was released while the file was read: both are checked again.
Expected == waiting /\ StillCurrent(poll.id.seq)

PollDelivers ==
    /\ poll.pc = "apply"
    /\ Expected
    /\ waiting' = FALSE
    /\ canRetry' = poll.response.error
    /\ AddMessage(Reply(IF poll.response.error THEN "Error" ELSE "Companion",
                        poll.response.body))
    /\ poll' = AtTop
    /\ UNCHANGED <<session, sequence, lastQuestion, overdue, ui, bridgeVars>>

PollExpires ==
    /\ poll.pc = "expire"
    /\ Expected
    /\ waiting' = FALSE
    /\ canRetry' = TRUE
    /\ AddMessage(Reply("Error", Current))
    /\ poll' = AtTop
    /\ UNCHANGED <<session, sequence, lastQuestion, overdue, ui, bridgeVars>>

\* Canceled, reset or already settled in the meantime: the result is dropped.
PollDrops ==
    /\ poll.pc \in {"apply", "expire"}
    /\ ~Expected
    /\ poll' = AtTop
    /\ UNCHANGED <<chatVars, overdue, ui, bridgeVars>>

\* The wait for the outstanding question exceeds RequestTimeout.
TimePasses ==
    /\ waiting
    /\ overdue # sequence
    /\ overdue' = sequence
    /\ UNCHANGED <<chatVars, ui, poll, bridgeVars>>

---------------------------------------------------------------------------
Render ==
    \/ Send \/ Retry \/ WriteRequest \/ RequestNotWritten \/ RequestThrew
    \/ CancelWaiting \/ ResetConversation
    \/ WriteCancellation \/ CancellationNotWritten

PollReads == PollReadMatches \/ PollReadMisses
PollApplies == PollDelivers \/ PollExpires \/ PollDrops
PollLoop == PollSnapshot \/ PollReads \/ PollReadThrew \/ PollApplies

PluginNext == Render \/ PollLoop \/ TimePasses

PluginTypeOK ==
    /\ messages \in Seq(Message) /\ Len(messages) \in 1 .. MaxMessages
    /\ session \in Nat /\ sequence \in Nat /\ overdue \in Nat
    /\ waiting \in BOOLEAN /\ canRetry \in BOOLEAN
    /\ lastQuestion \in Questions \cup {NoQuestion}
    /\ ui \in RenderThread /\ poll \in PollThread
=============================================================================
