-------------------------- MODULE ChatBridgeProofs --------------------------
(***************************************************************************)
(* Proofs about ChatBridge, for every value of its constants.              *)
(***************************************************************************)
EXTENDS ChatBridge, SequenceTheorems, TLAPS

(***************************************************************************)
(* Lists that are trimmed when they grow.                                  *)
(***************************************************************************)
\* t ends with m, and before it has the newest elements of s, in their order.
NewestOf(t, s, m) ==
    /\ Len(t) <= Len(s) + 1
    /\ t[Len(t)] = m
    /\ \A i \in 1 .. Len(t) - 1 :
        /\ i + (Len(s) + 1 - Len(t)) \in 1 .. Len(s)
        /\ t[i] = s[i + (Len(s) + 1 - Len(t))]

\* Appending to a list and trimming it keeps the new element, and before it
\* the newest elements of the list (AddMessageLocked, add_turn).
LEMMA AppendAndTrim ==
    ASSUME NEW S, NEW s \in Seq(S), NEW m \in S, NEW n \in Nat \ {0}
    PROVE  /\ KeepLast(Append(s, m), n) \in Seq(S)
           /\ Len(KeepLast(Append(s, m), n)) \in 1 .. n
           /\ Len(KeepLast(Append(s, m), n)) \in {n, Len(s) + 1}
           /\ NewestOf(KeepLast(Append(s, m), n), s, m)
<1> DEFINE a == Append(s, m)
           t == KeepLast(a, n)
<1>1. /\ a \in Seq(S) /\ Len(a) = Len(s) + 1 /\ Len(s) \in Nat
      /\ a[Len(a)] = m
      /\ \A i \in 1 .. Len(s) : a[i] = s[i]
  OBVIOUS
<1>2. CASE Len(a) > n
  <2>1. t = SubSeq(a, Len(a) - n + 1, Len(a))
    BY <1>2 DEF KeepLast
  <2> DEFINE lo == Len(a) - n + 1
             hi == Len(a)
  <2>2. /\ lo \in Int /\ hi \in Int /\ hi - lo + 1 = n /\ lo <= hi
        /\ \A i \in lo .. hi : a[i] \in S
    BY <1>1, <1>2
  <2>3. /\ t \in Seq(S) /\ Len(t) = n
        /\ \A i \in 1 .. n : t[i] = a[lo + i - 1]
    <3> HIDE DEF a, lo, hi
    <3> QED BY <2>1, <2>2, SubSeqProperties DEF lo, hi
  <2> QED BY <1>1, <1>2, <2>2, <2>3 DEF NewestOf
<1>3. CASE ~(Len(a) > n)
  <2>1. t = a
    BY <1>3 DEF KeepLast
  <2> QED BY <1>1, <1>3, <2>1 DEF NewestOf
<1> QED BY <1>2, <1>3

(***************************************************************************)
(* The order of identities.                                                *)
(***************************************************************************)
LEMMA IdentityOrder ==
    ASSUME NEW a \in Identity, NEW b \in Identity, NEW c \in Identity
    PROVE  /\ None \in Identity
           /\ NotNewer(None, a)
           /\ ~Older(a, a)
           /\ NotNewer(a, b) /\ NotNewer(b, c) => NotNewer(a, c)
           /\ NotNewer(a, b) /\ Older(b, c) => Older(a, c)
           /\ Older(a, b) /\ NotNewer(b, c) => Older(a, c)
           /\ NotNewer(a, b) /\ a # b => Older(a, b)
BY DEF Identity, None, NotNewer, Older

(***************************************************************************)
(* Type correctness.                                                       *)
(***************************************************************************)
\* Adding a message: the transcript stays within its limit, ends with the new
\* message, and before it shows the newest messages it showed (AddMessageLocked).
LEMMA AddMessageProperties ==
    ASSUME PluginTypeOK, NEW m \in Message, AddMessage(m)
    PROVE  /\ messages' \in Seq(Message) /\ Len(messages') \in 1 .. MaxMessages
           /\ Len(messages') \in {MaxMessages, Len(messages) + 1}
           /\ NewestOf(messages', messages, m)
<1>1. messages \in Seq(Message) /\ MaxMessages \in Nat \ {0}
  BY PluginAssumption DEF PluginTypeOK
<1>2. messages' = KeepLast(Append(messages, m), MaxMessages)
  BY DEF AddMessage, Trim
<1> QED BY <1>1, <1>2, AppendAndTrim

\* Adding a turn likewise (add_turn).
LEMMA AddTurnProperties ==
    ASSUME NEW h \in Seq(Identity), NEW id \in Identity
    PROVE  /\ AddTurn(h, id) \in Seq(Identity) /\ Len(AddTurn(h, id)) \in 1 .. HistoryTurns
           /\ NewestOf(AddTurn(h, id), h, id)
<1>1. HistoryTurns \in Nat \ {0}
  BY DaemonAssumption
<1> QED BY <1>1, AppendAndTrim DEF AddTurn

\* The records the actions build have the types of the variables they go to.
LEMMA RecordTypes ==
    ASSUME PluginTypeOK
    PROVE  /\ None \in Identity /\ NoAnswer \in Answer
           /\ Current \in Identity /\ NextId \in Identity /\ NextSequence \in Nat
           /\ Welcome \in Message
           /\ \A id \in Identity, text \in Questions \cup {NoQuestion} :
                PlayerMessage(id, text) \in Message
           /\ \A id \in Identity :
                Reply("Error", id) \in Message /\ Reply("Companion", id) \in Message
<1>1. None \in Identity /\ NoAnswer \in Answer
  BY DEF None, Identity, NoAnswer, Answer
<1>2. Current \in Identity /\ NextId \in Identity /\ NextSequence \in Nat
  BY DEF PluginTypeOK, Current, NextId, NextSequence, Identity
<1> QED BY <1>1, <1>2 DEF Welcome, PlayerMessage, Reply, Message

LEMMA TypeInit == Init => TypeOK
<1> SUFFICES ASSUME Init PROVE TypeOK
  OBVIOUS
<1> USE DEF Init
<1>1. None \in Identity /\ NoAnswer \in Answer /\ Welcome \in Message
  BY DEF None, Identity, NoAnswer, Answer, Welcome, Reply, Message
<1>2. question \in Question /\ answer \in Answer /\ cancel \in Identity
  BY <1>1 DEF BridgeInit, Question
<1>3. PluginTypeOK
  <2>1. messages \in Seq(Message) /\ Len(messages) = 1
    BY <1>1 DEF PluginInit
  <2>2. ui \in RenderThread
    BY <1>1 DEF PluginInit, Idle, RenderThread
  <2>3. poll \in PollThread
    BY <1>1 DEF PluginInit, AtTop, Polling, PollThread
  <2>4. Len(messages) \in 1 .. MaxMessages
    BY <2>1, PluginAssumption
  <2>5. /\ session \in Nat /\ sequence \in Nat /\ overdue \in Nat
        /\ waiting \in BOOLEAN /\ canRetry \in BOOLEAN
        /\ lastQuestion \in Questions \cup {NoQuestion}
    BY DEF PluginInit
  <2> QED BY <2>1, <2>2, <2>3, <2>4, <2>5 DEF PluginTypeOK
<1>4. DaemonTypeOK
  <2>1. conversation \in Conversation /\ Len(conversation.history) = 0
    BY <1>1 DEF DaemonInit, Fresh, NoSession, NoPending, PendingAnswer, Conversation
  <2>2. job \in Job
    BY <1>1 DEF DaemonInit, NoJob, Job
  <2> QED BY <1>1, <2>1, <2>2, DaemonAssumption DEF DaemonTypeOK, DaemonInit
<1> QED BY <1>2, <1>3, <1>4 DEF TypeOK

\* One step of the plugin keeps every variable in its type.
LEMMA PluginTypeNext ==
    ASSUME TypeOK, PluginNext, UNCHANGED daemonVars
    PROVE  TypeOK'
<1> DEFINE Files == question \in Question /\ answer \in Answer /\ cancel \in Identity
<1>1. PluginTypeOK /\ DaemonTypeOK /\ Files
  BY DEF TypeOK
<1>2. DaemonTypeOK'
  BY <1>1 DEF daemonVars, DaemonTypeOK
<1>3. SUFFICES PluginTypeOK' /\ Files'
  BY <1>2 DEF TypeOK
<1> USE <1>1 DEF bridgeVars, chatVars
<1>4. ASSUME NEW text \in Questions \cup {NoQuestion}, SubmitQuestion(text)
      PROVE  PluginTypeOK' /\ Files'
  <2>1. /\ messages' \in Seq(Message) /\ Len(messages') \in 1 .. MaxMessages
    BY <1>4, RecordTypes, AddMessageProperties DEF SubmitQuestion
  <2>2. ui' \in RenderThread
    BY <1>4, RecordTypes DEF SubmitQuestion, RenderThread
  <2> QED BY <1>4, <2>1, <2>2, RecordTypes DEF SubmitQuestion, PluginTypeOK
<1>5. CASE Send
  BY <1>4, <1>5 DEF Send
<1>6. CASE Retry
  BY <1>4, <1>6 DEF Retry, PluginTypeOK
<1>7. ASSUME ui' = Idle PROVE ui' \in RenderThread
  BY <1>7, RecordTypes DEF Idle, RenderThread
<1>8. CASE WriteRequest
  <2>1. question' \in Question
    BY <1>8 DEF WriteRequest, PluginTypeOK, RenderThread, Question
  <2> QED BY <1>7, <1>8, <2>1 DEF WriteRequest, PluginTypeOK
<1>9. CASE RequestNotWritten
  <2>1. /\ messages' \in Seq(Message) /\ Len(messages') \in 1 .. MaxMessages
    BY <1>9, RecordTypes, AddMessageProperties DEF RequestNotWritten
  <2> QED BY <1>7, <1>9, <2>1 DEF RequestNotWritten, PluginTypeOK
<1>10. CASE RequestThrew
  BY <1>7, <1>10 DEF RequestThrew, PluginTypeOK
<1>11. CASE CancelWaiting
  <2>1. ui' \in RenderThread
    BY <1>11, RecordTypes DEF CancelWaiting, RenderThread
  <2> QED BY <1>11, <2>1, RecordTypes DEF CancelWaiting, PluginTypeOK
<1>12. CASE ResetConversation
  <2>1. ui' \in RenderThread
    BY <1>12, RecordTypes DEF ResetConversation, RenderThread, Idle
  <2>2. messages' \in Seq(Message) /\ Len(messages') \in 1 .. MaxMessages
    BY <1>12, RecordTypes, PluginAssumption DEF ResetConversation
  <2>3. session' \in Nat /\ sequence' \in Nat
    BY <1>12, RecordTypes DEF ResetConversation, PluginTypeOK
  <2>4. waiting' \in BOOLEAN /\ canRetry' \in BOOLEAN /\ lastQuestion' = NoQuestion
    BY <1>12 DEF ResetConversation
  <2> QED BY <1>12, <2>1, <2>2, <2>3, <2>4 DEF ResetConversation, PluginTypeOK
<1>13. CASE WriteCancellation
  <2>1. cancel' \in Identity
    BY <1>13 DEF WriteCancellation, PluginTypeOK, RenderThread
  <2> QED BY <1>7, <1>13, <2>1 DEF WriteCancellation, PluginTypeOK
<1>14. CASE CancellationNotWritten
  BY <1>7, <1>14 DEF CancellationNotWritten, PluginTypeOK
<1>15. ASSUME NEW pc \in {"top", "read", "apply", "expire"}, NEW id \in Identity,
              NEW response \in Answer
       PROVE  Polling(pc, id, response) \in PollThread
  BY DEF Polling, PollThread
<1>16. AtTop \in PollThread /\ poll.id \in Identity /\ poll.response \in Answer
       /\ poll.response.body \in Identity
  BY <1>15, RecordTypes DEF AtTop, PluginTypeOK, PollThread, Answer
<1>17. CASE PollSnapshot
  BY <1>15, <1>17, RecordTypes DEF PollSnapshot, PluginTypeOK
<1>18. CASE PollReadMatches
  BY <1>15, <1>16, <1>18 DEF PollReadMatches, PluginTypeOK
<1>19. CASE PollReadMisses
  BY <1>15, <1>16, <1>19, RecordTypes DEF PollReadMisses, PluginTypeOK
<1>20. CASE PollReadThrew
  BY <1>16, <1>20 DEF PollReadThrew, PluginTypeOK
<1>21. CASE PollDelivers
  <2>1. /\ messages' \in Seq(Message) /\ Len(messages') \in 1 .. MaxMessages
    BY <1>16, <1>21, RecordTypes, AddMessageProperties DEF PollDelivers
  <2>2. canRetry' \in BOOLEAN
    BY <1>16, <1>21 DEF PollDelivers, Answer
  <2> QED BY <1>16, <1>21, <2>1, <2>2 DEF PollDelivers, PluginTypeOK
<1>22. CASE PollExpires
  <2>1. /\ messages' \in Seq(Message) /\ Len(messages') \in 1 .. MaxMessages
    BY <1>22, RecordTypes, AddMessageProperties DEF PollExpires
  <2> QED BY <1>16, <1>22, <2>1 DEF PollExpires, PluginTypeOK
<1>23. CASE PollDrops
  BY <1>16, <1>23 DEF PollDrops, PluginTypeOK
<1>24. CASE TimePasses
  BY <1>24 DEF TimePasses, PluginTypeOK
<1> QED
  BY <1>5, <1>6, <1>8, <1>9, <1>10, <1>11, <1>12, <1>13, <1>14, <1>17, <1>18, <1>19,
     <1>20, <1>21, <1>22, <1>23, <1>24
  DEF PluginNext, Render, PollLoop, PollReads, PollApplies

\* One step of the daemon keeps every variable in its type.
LEMMA DaemonTypeNext ==
    ASSUME TypeOK, DaemonNext, UNCHANGED pluginVars
    PROVE  TypeOK'
<1> DEFINE Files == question \in Question /\ answer \in Answer /\ cancel \in Identity
           Phases == {"down", "poll", "capture", "asking", "publish", "internal"}
<1>1. PluginTypeOK /\ DaemonTypeOK /\ Files
  BY DEF TypeOK
<1>2. PluginTypeOK'
  BY <1>1 DEF pluginVars, chatVars, PluginTypeOK
<1>3. SUFFICES DaemonTypeOK' /\ Files'
  BY <1>2 DEF TypeOK
<1> USE <1>1 DEF bridgeVars
<1>4. /\ None \in Identity /\ NoPending \in PendingAnswer /\ NoJob \in Job
      /\ \A s \in Nat : Fresh(s) \in Conversation /\ Len(Fresh(s).history) = 0
      /\ \A id \in Identity : Failure(id) \in PendingAnswer
  <2>1. None \in Identity
    BY DEF None, Identity
  <2>2. NoPending \in PendingAnswer /\ NoJob \in Job
        /\ \A id \in Identity : Failure(id) \in PendingAnswer
    BY <2>1 DEF NoPending, NoJob, Failure, PendingAnswer, Job
  <2>3. \A s \in Nat : Fresh(s) \in Conversation /\ Len(Fresh(s).history) = 0
    BY <2>2 DEF Fresh, Conversation
  <2> QED BY <2>1, <2>2, <2>3
<1>5. /\ job \in Job /\ job.id \in Identity /\ job.web \in BOOLEAN
      /\ question.id \in Identity /\ question.id.session \in Nat
      /\ question.text \in Questions \cup {NoQuestion}
      /\ conversation \in Conversation /\ conversation.history \in Seq(Identity)
      /\ conversation.pending \in PendingAnswer
      /\ conversation.pending.id \in Identity /\ conversation.pending.error \in BOOLEAN
      /\ Len(conversation.history) <= HistoryTurns /\ HistoryTurns \in Nat \ {0}
  BY DaemonAssumption DEF DaemonTypeOK, Job, Question, Identity, Conversation, PendingAnswer
<1>p. \A preference, default : Prefer(preference, default) \in BOOLEAN
  BY DEF Prefer
<1> DEFINE switched == SwitchSession(conversation, question.id.session)
<1>6. switched \in Conversation /\ Len(switched.history) <= HistoryTurns
  BY <1>4, <1>5 DEF SwitchSession
<1>7. ASSUME NEW s \in Identity, Start(s)
      PROVE  DaemonTypeOK' /\ Files'
  BY <1>7 DEF Start, DaemonTypeOK
<1>8. CASE DaemonStart
  <2>1. SeenAtStart \in Identity
    BY <1>4, <1>5 DEF SeenAtStart
  <2> QED BY <1>7, <1>8, <2>1 DEF DaemonStart
<1>9. CASE DaemonStartsBlind
  BY <1>4, <1>7, <1>9 DEF DaemonStartsBlind
<1>10. [id |-> question.id, text |-> question.text, web |-> FALSE] \in Job
  BY <1>5 DEF Job
<1>11. CASE TakeRequest
  <2>1. conversation' \in Conversation /\ conversation'.history = switched.history
    <3>1. Prefer(WebModeDirective(question.text), switched.webEnabled) \in BOOLEAN
      BY <1>p
    <3> QED BY <1>6, <1>11, <3>1 DEF TakeRequest, Conversation
  <2> QED BY <1>6, <1>10, <1>11, <2>1 DEF TakeRequest, DaemonTypeOK
<1>12. CASE RetryPublishing
  BY <1>6, <1>10, <1>12 DEF RetryPublishing, DaemonTypeOK
<1>13. CASE CaptureSucceeds
  <2>1. Prefer(ExplicitWebPreference(job.text), conversation.webEnabled) \in BOOLEAN
    BY <1>p
  <2>2. job' \in Job
    BY <1>5, <1>13, <2>1 DEF CaptureSucceeds, Job
  <2> QED BY <1>13, <2>2 DEF CaptureSucceeds, DaemonTypeOK
<1>14. ASSUME NEW pending \in PendingAnswer, Compose(pending)
       PROVE  DaemonTypeOK' /\ Files'
  <2>1. conversation' \in Conversation /\ conversation'.history = conversation.history
    BY <1>5, <1>14 DEF Compose, Conversation
  <2> QED BY <1>5, <1>14, <2>1 DEF Compose, DaemonTypeOK
<1>15. CASE CaptureFails \/ AskFails \/ AskCanceled
  BY <1>4, <1>5, <1>14, <1>15 DEF CaptureFails, AskFails, AskCanceled
<1>16. CASE AskSucceeds
  <2>1. PICK usedWeb \in {FALSE, job.web} :
            Compose([id |-> job.id, error |-> FALSE, remember |-> ~usedWeb])
    BY <1>16 DEF AskSucceeds
  <2>2. [id |-> job.id, error |-> FALSE, remember |-> ~usedWeb] \in PendingAnswer
    BY <1>5 DEF PendingAnswer
  <2> QED BY <1>14, <2>1, <2>2
<1>17. CASE AskAgainOffline
  <2>1. job' \in Job
    BY <1>5, <1>17 DEF AskAgainOffline, Job
  <2> QED BY <1>17, <2>1 DEF AskAgainOffline, DaemonTypeOK
<1>18. CASE Publish
  <2>1. answer' \in Answer
    BY <1>5, <1>18 DEF Publish, Answer
  <2> DEFINE h == Remember(conversation, conversation.pending)
  <2>2. h \in Seq(Identity) /\ Len(h) <= HistoryTurns
    <3>1. CASE conversation.pending.remember
      <4>1. h = AddTurn(conversation.history, conversation.pending.id)
        BY <3>1 DEF Remember
      <4>2. /\ conversation.history \in Seq(Identity)
            /\ conversation.pending.id \in Identity
        BY <1>5
      <4>3. h \in Seq(Identity) /\ Len(h) \in 1 .. HistoryTurns
        BY <4>1, <4>2, AddTurnProperties
      <4> QED BY <4>3, DaemonAssumption
    <3>2. CASE ~conversation.pending.remember
      BY <1>5, <3>2 DEF Remember
    <3> QED BY <3>1, <3>2
  <2>3. conversation' \in Conversation /\ conversation'.history = h
    BY <1>4, <1>5, <1>18, <2>2 DEF Publish, Conversation
  <2> QED BY <1>4, <1>5, <1>18, <2>1, <2>2, <2>3 DEF Publish, DaemonTypeOK
<1>19. CASE TransientError
  BY <1>4, <1>19 DEF TransientError, DaemonTypeOK
<1>20. CASE UnexpectedError
  BY <1>20 DEF UnexpectedError, DaemonTypeOK
<1>21. CASE AnswerInternalError
  <2>1. answer' \in Answer
    BY <1>5, <1>21 DEF AnswerInternalError, Answer
  <2> QED BY <1>4, <1>5, <1>21, <2>1 DEF AnswerInternalError, DaemonTypeOK
<1>22. CASE DaemonCrash
  <2>1. conversation' \in Conversation /\ Len(conversation'.history) = 0
    BY <1>4, <1>22 DEF DaemonCrash, Stop, NoSession
  <2> QED BY <1>4, <1>5, <1>22, <2>1 DEF DaemonCrash, Stop, DaemonTypeOK
<1> QED
  BY <1>8, <1>9, <1>11, <1>12, <1>13, <1>15, <1>16, <1>17, <1>18, <1>19, <1>20, <1>21, <1>22
  DEF DaemonNext, Capture, Ask, WriteAnswer

LEMMA RestartTypeNext == TypeOK /\ GameRestart => TypeOK'
<1> SUFFICES ASSUME TypeOK, GameRestart PROVE TypeOK'
  OBVIOUS
<1>1. PluginTypeOK /\ DaemonTypeOK
  BY DEF TypeOK
<1>2. question' \in Question /\ answer' \in Answer /\ cancel' \in Identity
  BY DEF TypeOK, GameRestart, bridgeVars
<1>3. PluginTypeOK'
  <2>1. messages' \in Seq(Message) /\ Len(messages') \in 1 .. MaxMessages
    BY <1>1, RecordTypes, PluginAssumption DEF GameRestart
  <2>2. ui' \in RenderThread /\ poll' \in PollThread
    BY <1>1, RecordTypes DEF GameRestart, Idle, RenderThread, AtTop, Polling, PollThread
  <2>3. session' \in Nat /\ sequence' \in Nat /\ overdue' \in Nat
    BY <1>1 DEF GameRestart, PluginTypeOK
  <2>4. waiting' \in BOOLEAN /\ canRetry' \in BOOLEAN /\ lastQuestion' = NoQuestion
    BY DEF GameRestart
  <2> QED BY <2>1, <2>2, <2>3, <2>4 DEF PluginTypeOK
<1>4. DaemonTypeOK'
  <2>1. None \in Identity /\ NoJob \in Job
    BY DEF None, Identity, NoJob, Job
  <2>2. conversation' \in Conversation /\ Len(conversation'.history) = 0
    BY <2>1 DEF GameRestart, Stop, Fresh, NoSession, NoPending, PendingAnswer, Conversation
  <2> QED BY <1>1, <2>1, <2>2, DaemonAssumption DEF GameRestart, Stop, DaemonTypeOK
<1> QED BY <1>2, <1>3, <1>4 DEF TypeOK

\* Every variable keeps its type; in particular the transcript never outgrows
\* MaxMessages, nor the history MAX_HISTORY_TURNS.
THEOREM TypeCorrect == Spec => []TypeOK
<1>1. TypeOK /\ [Next]_vars => TypeOK'
  <2>1. TypeOK /\ UNCHANGED vars => TypeOK'
    BY DEF vars, bridgeVars, pluginVars, chatVars, daemonVars, TypeOK, PluginTypeOK,
           DaemonTypeOK
  <2> QED BY <2>1, PluginTypeNext, DaemonTypeNext, RestartTypeNext DEF Next
<1> QED BY <1>1, TypeInit, PTL DEF Spec

---------------------------------------------------------------------------
(***************************************************************************)
(* The inductive invariant, and the safety properties that follow from it.  *)
(***************************************************************************)

(***************************************************************************)
(* A step keeps each part of the invariant whose variables it leaves alone. *)
(***************************************************************************)
LEMMA Undisturbed ==
    ASSUME IInv
    PROVE  /\ UNCHANGED <<question, cancel, ui, sequence, session>> => RenderThreadInv'
           /\ UNCHANGED <<messages, waiting, ui, sequence, session>> => TranscriptInv'
           /\ UNCHANGED <<poll, sequence, session, question>> => PollThreadInv'
           /\ UNCHANGED <<question, answer, seen>> => AnswerInv'
           /\ UNCHANGED <<question, answer, daemonVars>> => JobInv'
           /\ UNCHANGED <<conversation, seen>> => HistoryInv'
<1> USE DEF IInv
<1>1. UNCHANGED <<question, cancel, ui, sequence, session>> => RenderThreadInv'
  BY DEF RenderThreadInv, Current
<1>2. UNCHANGED <<messages, waiting, ui, sequence, session>> => TranscriptInv'
  BY DEF TranscriptInv, Current, AnswersFollowTheirQuestion
<1>3. UNCHANGED <<poll, sequence, session, question>> => PollThreadInv'
  BY DEF PollThreadInv, Current
<1>4. UNCHANGED <<question, answer, seen>> => AnswerInv'
  BY DEF AnswerInv, AnswerBelongsToItsRequest, SeenIsOnDisk
<1>5. UNCHANGED <<question, answer, daemonVars>> => JobInv'
  BY DEF JobInv, Working, daemonVars
<1>6. UNCHANGED <<conversation, seen>> => HistoryInv'
  BY DEF HistoryInv
<1> QED BY <1>1, <1>2, <1>3, <1>4, <1>5, <1>6

LEMMA SafetyInit == Init => IInv
<1> SUFFICES ASSUME Init PROVE IInv
  OBVIOUS
<1> USE DEF Init, BridgeInit, PluginInit, DaemonInit
<1>1. Current = [seq |-> 1, session |-> 1] /\ Older(None, Current)
  BY DEF Current, None, Older
<1>2. RenderThreadInv
  BY <1>1 DEF RenderThreadInv, Idle, NotNewer
<1>3. TranscriptInv
  BY DEF TranscriptInv, Idle, AnswersFollowTheirQuestion
<1>4. PollThreadInv
  BY DEF PollThreadInv, AtTop, Polling
<1>5. AnswerInv
  BY DEF AnswerInv, AnswerBelongsToItsRequest, SeenIsOnDisk, NoAnswer, NotNewer
<1>6. JobInv /\ HistoryInv
  BY DEF JobInv, HistoryInv, Working, Fresh
<1> QED BY <1>2, <1>3, <1>4, <1>5, <1>6 DEF IInv

(***************************************************************************)
(* The identities the plugin issues are newer than all it issued before.   *)
(***************************************************************************)
LEMMA IssuedLater ==
    ASSUME TypeOK, NEW id \in Identity, NotNewer(id, Current)
    PROVE  /\ Older(id, NextId)
           /\ Older(id, [seq |-> NextSequence, session |-> session + 1])
           /\ Older(id, [seq |-> 1, session |-> session + 1])
<1>1. session \in Nat /\ sequence \in Nat /\ id.session \in Nat /\ id.seq \in Nat
  BY DEF TypeOK, PluginTypeOK, Identity
<1>2. Older(id, Current) \/ id = Current
  BY DEF NotNewer
<1> QED BY <1>1, <1>2 DEF Older, Current, NextId, NextSequence

(***************************************************************************)
(* A message added to the transcript: what it takes to keep replies with   *)
(* their questions.                                                        *)
(***************************************************************************)
LEMMA ReplyInPlace ==
    ASSUME TypeOK, AnswersFollowTheirQuestion, NEW m \in Message, AddMessage(m),
           m.author # "Player" =>
                m.re = Last(messages).re /\ Last(messages).author # "Companion"
    PROVE  AnswersFollowTheirQuestion' /\ Last(messages') = m
<1>1. /\ messages \in Seq(Message) /\ Len(messages) \in Nat /\ Len(messages) >= 1
      /\ Last(messages) = messages[Len(messages)]
  BY DEF TypeOK, PluginTypeOK, Last
<1>2. /\ messages' \in Seq(Message) /\ Len(messages') \in 1 .. MaxMessages
      /\ NewestOf(messages', messages, m)
  BY AddMessageProperties DEF TypeOK
<1>3. /\ Len(messages') \in Nat /\ Len(messages') >= 1
      /\ Last(messages') = m /\ messages'[Len(messages')] = m
  BY <1>2, PluginAssumption DEF NewestOf, Last
<1> DEFINE d == Len(messages) + 1 - Len(messages')
<1>4. /\ d \in Nat
      /\ \A i \in 1 .. Len(messages') - 1 :
            i + d \in 1 .. Len(messages) /\ messages'[i] = messages[i + d]
  BY <1>1, <1>2, <1>3 DEF NewestOf
<1>5. ASSUME NEW i \in 2 .. Len(messages'), messages'[i].author # "Player"
      PROVE  messages'[i].re = messages'[i - 1].re /\ messages'[i - 1].author # "Companion"
  <2>1. messages'[i - 1] = messages[i - 1 + d] /\ i - 1 + d \in 1 .. Len(messages)
    BY <1>3, <1>4
  <2>2. CASE i = Len(messages')
    <3>1. i - 1 + d = Len(messages)
      BY <1>1, <1>3, <2>2
    <3> QED BY <1>1, <1>3, <1>5, <2>1, <2>2, <3>1
  <2>3. CASE i # Len(messages')
    <3>1. i \in 1 .. Len(messages') - 1
      BY <1>3, <2>3
    <3>2. messages'[i] = messages[i + d] /\ i + d \in 2 .. Len(messages)
      BY <1>1, <1>4, <3>1
    <3>3. i - 1 + d = (i + d) - 1
      BY <1>4
    <3> HIDE DEF d
    <3> QED BY <1>5, <2>1, <3>2, <3>3 DEF AnswersFollowTheirQuestion
  <2> QED BY <2>2, <2>3
<1> QED BY <1>3, <1>5 DEF AnswersFollowTheirQuestion

(***************************************************************************)
(* The steps of the plugin.                                                *)
(***************************************************************************)
LEMMA PluginSafetyNext ==
    ASSUME TypeOK, TypeOK', IInv, PluginNext, UNCHANGED daemonVars
    PROVE  IInv'
<1> USE DEF IInv, bridgeVars, chatVars
<1>1. PluginTypeOK /\ PluginTypeOK'
  BY DEF TypeOK
<1>2. UNCHANGED <<conversation, seen, job>>
  BY DEF daemonVars
<1>3. /\ HistoryInv'
      /\ UNCHANGED <<question, answer>> => AnswerInv' /\ JobInv'
  BY <1>2, Undisturbed
<1>4. /\ Current \in Identity /\ question.id \in Identity /\ answer.id \in Identity
      /\ job.id \in Identity /\ cancel \in Identity /\ ui.id \in Identity
      /\ poll.id \in Identity /\ session \in Nat /\ sequence \in Nat
      /\ poll.id.seq \in Nat
  BY <1>1, RecordTypes DEF TypeOK, DaemonTypeOK, Question, Answer, Job, PluginTypeOK,
     RenderThread, PollThread, Identity
<1>5. ASSUME NEW text \in Questions \cup {NoQuestion}, SubmitQuestion(text)
      PROVE  IInv'
  <2>1. Current' = NextId /\ ui'.id = NextId /\ ui'.pc = "request"
    BY <1>5 DEF SubmitQuestion, Current, NextId
  <2>2. RenderThreadInv'
    <3>1. Older(cancel, NextId) /\ Older(question.id, NextId)
      BY <1>4, IssuedLater DEF RenderThreadInv, NotNewer
    <3> QED BY <1>5, <2>1, <3>1 DEF SubmitQuestion, RenderThreadInv, NotNewer
  <2>3. TranscriptInv'
    <3> DEFINE m == PlayerMessage(NextId, text)
    <3>1. m \in Message /\ AddMessage(m) /\ m.author = "Player" /\ m.re = NextId
          /\ m.text = text
      BY <1>1, <1>5, RecordTypes DEF SubmitQuestion, PlayerMessage
    <3>2. AnswersFollowTheirQuestion' /\ Last(messages') = m
      <4> HIDE DEF m
      <4> QED BY <3>1, ReplyInPlace DEF TranscriptInv
    <3> QED BY <2>1, <3>1, <3>2 DEF TranscriptInv
  <2>4. PollThreadInv'
    BY <1>4, <1>5 DEF SubmitQuestion, PollThreadInv, Current, NextSequence
  <2> QED BY <1>3, <1>5, <2>2, <2>3, <2>4 DEF SubmitQuestion
<1>6. CASE Send
  BY <1>5, <1>6 DEF Send
<1>7. CASE Retry
  BY <1>1, <1>5, <1>7 DEF Retry, PluginTypeOK
<1>8. CASE WriteRequest
  <2>1. question'.id = Current /\ Current' = Current /\ ui'.pc = "idle"
    BY <1>8 DEF WriteRequest, RenderThreadInv, Current, Idle
  <2>2. RenderThreadInv'
    BY <1>8, <2>1 DEF WriteRequest, RenderThreadInv, NotNewer
  <2>3. TranscriptInv'
    BY <1>8, <2>1 DEF WriteRequest, TranscriptInv, AnswersFollowTheirQuestion
  <2>4. \A id \in Identity : NotNewer(id, question.id) => NotNewer(id, question'.id)
    BY <1>4, <2>1, IdentityOrder DEF RenderThreadInv
  <2>5. PollThreadInv'
    BY <1>4, <1>8, <2>1, <2>4 DEF WriteRequest, PollThreadInv
  <2>6. AnswerInv' /\ JobInv'
    BY <1>2, <1>4, <1>8, <2>4 DEF WriteRequest, AnswerInv, AnswerBelongsToItsRequest,
       SeenIsOnDisk, JobInv, Working, daemonVars
  <2> QED BY <1>3, <2>2, <2>3, <2>5, <2>6
<1>9. CASE RequestNotWritten
  <2>1. RenderThreadInv'
    BY <1>9 DEF RequestNotWritten, RenderThreadInv, Current, Idle
  <2>2. TranscriptInv'
    <3> DEFINE m == Reply("Error", Current)
    <3>1. m \in Message /\ AddMessage(m) /\ m.re = Current
      BY <1>1, <1>9, RecordTypes DEF RequestNotWritten, Reply
    <3>2. AnswersFollowTheirQuestion'
      <4> HIDE DEF m
      <4> QED BY <1>9, <3>1, ReplyInPlace DEF RequestNotWritten, TranscriptInv
    <3> QED BY <1>9, <3>2 DEF RequestNotWritten, TranscriptInv, Idle
  <2> QED BY <1>3, <1>9, <2>1, <2>2, Undisturbed DEF RequestNotWritten
<1>10. CASE RequestThrew
  <2>1. RenderThreadInv'
    BY <1>10 DEF RequestThrew, RenderThreadInv, Current, Idle
  <2>2. TranscriptInv'
    BY <1>10 DEF RequestThrew, TranscriptInv, Current, Idle, AnswersFollowTheirQuestion
  <2> QED BY <1>3, <1>10, <2>1, <2>2, Undisturbed DEF RequestThrew
<1>11. CASE CancelWaiting
  <2>1. Current' = NextId /\ ui'.pc = "cancel" /\ ui'.id = Current
    BY <1>11 DEF CancelWaiting, Current, NextId
  <2>2. RenderThreadInv'
    <3>1. Older(cancel, NextId) /\ Older(question.id, NextId) /\ Older(Current, NextId)
      BY <1>4, IssuedLater DEF RenderThreadInv, NotNewer
    <3> QED BY <1>11, <2>1, <3>1 DEF CancelWaiting, RenderThreadInv, NotNewer
  <2>3. TranscriptInv'
    BY <1>11, <2>1 DEF CancelWaiting, TranscriptInv, AnswersFollowTheirQuestion
  <2>4. PollThreadInv'
    BY <1>4, <1>11 DEF CancelWaiting, PollThreadInv, Current, NextSequence
  <2> QED BY <1>3, <1>11, <2>2, <2>3, <2>4 DEF CancelWaiting
<1>12. CASE ResetConversation
  <2>1. /\ Current' = [seq |-> NextSequence, session |-> session + 1]
        /\ ui'.pc = "idle" \/ (ui'.pc = "cancel" /\ ui'.id = Current)
    BY <1>12 DEF ResetConversation, Current, Idle
  <2>2. RenderThreadInv'
    <3>1. Older(cancel, Current') /\ Older(question.id, Current') /\ Older(Current, Current')
      BY <1>4, <2>1, IssuedLater DEF RenderThreadInv, NotNewer
    <3> QED BY <1>12, <2>1, <3>1 DEF ResetConversation, RenderThreadInv, NotNewer
  <2>3. TranscriptInv'
    BY <1>12, <2>1 DEF ResetConversation, TranscriptInv, AnswersFollowTheirQuestion
  <2>4. PollThreadInv'
    BY <1>4, <1>12 DEF ResetConversation, PollThreadInv, Current, NextSequence
  <2> QED BY <1>3, <1>12, <2>2, <2>3, <2>4 DEF ResetConversation
<1>13. CASE WriteCancellation
  <2>1. RenderThreadInv'
    BY <1>13 DEF WriteCancellation, RenderThreadInv, Current, Idle
  <2>2. TranscriptInv'
    BY <1>13 DEF WriteCancellation, TranscriptInv, Current, Idle, AnswersFollowTheirQuestion
  <2> QED BY <1>3, <1>13, <2>1, <2>2, Undisturbed DEF WriteCancellation
<1>14. CASE CancellationNotWritten
  <2>1. RenderThreadInv'
    BY <1>14 DEF CancellationNotWritten, RenderThreadInv, Current, Idle
  <2>2. TranscriptInv'
    BY <1>14 DEF CancellationNotWritten, TranscriptInv, Current, Idle,
       AnswersFollowTheirQuestion
  <2> QED BY <1>3, <1>14, <2>1, <2>2, Undisturbed DEF CancellationNotWritten
<1>15. CASE PollSnapshot
  <2>1. PollThreadInv'
    BY <1>15 DEF PollSnapshot, PollThreadInv, Polling, Current
  <2> QED BY <1>3, <1>15, <2>1, Undisturbed DEF PollSnapshot
<1>16. CASE PollReadMatches
  <2>1. PollThreadInv'
    BY <1>16 DEF PollReadMatches, PollThreadInv, Polling, Current, Matches, AnswerInv,
       AnswerBelongsToItsRequest
  <2> QED BY <1>3, <1>16, <2>1, Undisturbed DEF PollReadMatches
<1>17. CASE PollReadMisses
  <2>1. PollThreadInv'
    BY <1>17 DEF PollReadMisses, PollThreadInv, Polling, AtTop, Current
  <2> QED BY <1>3, <1>17, <2>1, Undisturbed DEF PollReadMisses
<1>18. CASE PollReadThrew
  <2>1. PollThreadInv'
    BY <1>18 DEF PollReadThrew, PollThreadInv, Polling, AtTop, Current
  <2> QED BY <1>3, <1>18, <2>1, Undisturbed DEF PollReadThrew
<1>19. CASE PollDelivers
  <2>1. poll.id = Current /\ waiting /\ poll.response.body = Current
    BY <1>4, <1>19 DEF PollDelivers, PollThreadInv, Expected, StillCurrent
  <2>2. ui.pc # "request"
    <3>1. ui.pc = "request" => NotNewer(Current, question.id) /\ Older(question.id, Current)
      BY <1>19, <2>1 DEF PollDelivers, PollThreadInv, RenderThreadInv
    <3> QED BY <1>4, <3>1, IdentityOrder
  <2>3. TranscriptInv'
    <3> DEFINE m == Reply(IF poll.response.error THEN "Error" ELSE "Companion", Current)
    <3>1. m \in Message /\ AddMessage(m) /\ m.re = Current
      BY <1>1, <1>4, <1>19, <2>1, RecordTypes DEF PollDelivers, Reply
    <3>2. Last(messages).re = Current /\ Last(messages).author # "Companion"
      BY <2>1 DEF TranscriptInv, PlayerMessage
    <3>3. AnswersFollowTheirQuestion'
      <4> HIDE DEF m
      <4> QED BY <3>1, <3>2, ReplyInPlace DEF TranscriptInv
    <3> QED BY <1>19, <2>2, <3>3 DEF PollDelivers, TranscriptInv
  <2>4. PollThreadInv'
    BY <1>19 DEF PollDelivers, PollThreadInv, Polling, AtTop
  <2> QED BY <1>3, <1>19, <2>3, <2>4, Undisturbed DEF PollDelivers
<1>20. CASE PollExpires
  <2>1. waiting /\ Last(messages).re = Current /\ Last(messages).author # "Companion"
    BY <1>20 DEF PollExpires, Expected, TranscriptInv, PlayerMessage
  <2>2. TranscriptInv'
    <3> DEFINE m == Reply("Error", Current)
    <3>1. m \in Message /\ AddMessage(m) /\ m.re = Current /\ m.author = "Error"
      BY <1>1, <1>4, <1>20, RecordTypes DEF PollExpires, Reply
    <3>2. AnswersFollowTheirQuestion' /\ Last(messages') = m
      <4> HIDE DEF m
      <4> QED BY <2>1, <3>1, ReplyInPlace DEF TranscriptInv
    <3>3. Current' = Current
      BY <1>20 DEF PollExpires, Current
    <3> QED BY <1>20, <3>1, <3>2, <3>3 DEF PollExpires, TranscriptInv
  <2>3. PollThreadInv'
    BY <1>20 DEF PollExpires, PollThreadInv, Polling, AtTop
  <2> QED BY <1>3, <1>20, <2>2, <2>3, Undisturbed DEF PollExpires
<1>21. CASE PollDrops
  <2>1. PollThreadInv'
    BY <1>21 DEF PollDrops, PollThreadInv, Polling, AtTop
  <2> QED BY <1>3, <1>21, <2>1, Undisturbed DEF PollDrops
<1>22. CASE TimePasses
  BY <1>3, <1>22, Undisturbed DEF TimePasses
<1> QED
  BY <1>6, <1>7, <1>8, <1>9, <1>10, <1>11, <1>12, <1>13, <1>14, <1>15, <1>16, <1>17,
     <1>18, <1>19, <1>20, <1>21, <1>22
  DEF PluginNext, Render, PollLoop, PollReads, PollApplies

(***************************************************************************)
(* The steps of the daemon.                                                *)
(***************************************************************************)
\* What the daemon's part of the invariant needs of a step that starts to work
\* on the question, with conversation c (TakeRequest, RetryPublishing).
LEMMA SwitchedConversation ==
    ASSUME TypeOK, IInv, Unseen(question.id)
    PROVE  LET c == SwitchSession(conversation, question.id.session) IN
           /\ c.session = question.id.session
           /\ Older(seen, question.id)
           /\ \A i \in 1 .. Len(c.history) :
                /\ c.history[i].session = c.session
                /\ NotNewer(c.history[i], seen)
                /\ i > 1 => Older(c.history[i - 1], c.history[i])
<1> DEFINE c == SwitchSession(conversation, question.id.session)
<1> USE DEF IInv
<1>1. question.id \in Identity /\ seen \in Identity
  BY DEF TypeOK, DaemonTypeOK, Question
<1>2. Older(seen, question.id)
  BY <1>1, IdentityOrder DEF AnswerInv, SeenIsOnDisk, Unseen
<1>3. CASE conversation.session = question.id.session
  BY <1>2, <1>3 DEF SwitchSession, HistoryInv
<1>4. CASE conversation.session # question.id.session
  <2>1. c.session = question.id.session /\ c.history = <<>>
    BY <1>4 DEF SwitchSession, Fresh
  <2> QED BY <1>2, <2>1
<1> QED BY <1>3, <1>4

LEMMA DaemonSafetyNext ==
    ASSUME TypeOK, TypeOK', IInv, DaemonNext, UNCHANGED pluginVars
    PROVE  IInv'
<1> USE DEF IInv, bridgeVars
<1>1. UNCHANGED <<messages, session, sequence, waiting, ui, poll>>
  BY DEF pluginVars, chatVars
<1>2. UNCHANGED <<question, cancel>> => RenderThreadInv' /\ TranscriptInv' /\ PollThreadInv'
  BY <1>1, Undisturbed
<1>3. /\ question.id \in Identity /\ answer.id \in Identity /\ job.id \in Identity
      /\ seen \in Identity /\ None \in Identity /\ conversation \in Conversation
      /\ conversation.history \in Seq(Identity) /\ conversation.pending.id \in Identity
  BY IdentityOrder DEF TypeOK, DaemonTypeOK, Question, Answer, Job, Conversation,
     PendingAnswer
<1> DEFINE switched == SwitchSession(conversation, question.id.session)
<1>4. ASSUME NEW s \in {None, answer.id}, Start(s)
      PROVE  IInv'
  <2>1. seen = None /\ UNCHANGED <<question, cancel, answer, conversation>> /\ seen' = s
    BY <1>4 DEF Start, JobInv
  <2>2. AnswerInv'
    BY <2>1 DEF AnswerInv, AnswerBelongsToItsRequest, SeenIsOnDisk
  <2>3. JobInv'
    BY <1>4 DEF Start, JobInv, Working
  <2>4. HistoryInv'
    BY <1>3, <2>1, IdentityOrder DEF HistoryInv
  <2> QED BY <1>2, <2>1, <2>2, <2>3, <2>4
<1>5. CASE DaemonStart
  BY <1>4, <1>5 DEF DaemonStart, SeenAtStart
<1>6. CASE DaemonStartsBlind
  BY <1>4, <1>6 DEF DaemonStartsBlind
<1>7. CASE TakeRequest
  <2>1. /\ conversation'.session = question.id.session
        /\ conversation'.history = switched.history /\ job'.id = question.id
        /\ daemon' = "capture"
        /\ UNCHANGED <<question, answer, cancel, seen>> /\ Unseen(question.id)
    BY <1>7, SwitchedConversation DEF TakeRequest
  <2>2. HistoryInv'
    BY <2>1, SwitchedConversation DEF HistoryInv
  <2>3. JobInv'
    BY <2>1, SwitchedConversation DEF JobInv, Working, AnswerInv, NotNewer
  <2> QED BY <1>2, <2>1, <2>2, <2>3, Undisturbed
<1>8. CASE RetryPublishing
  <2>1. /\ conversation' = switched /\ job'.id = question.id /\ daemon' = "publish"
        /\ switched.pending.id = question.id
        /\ UNCHANGED <<question, answer, cancel, seen>> /\ Unseen(question.id)
    BY <1>8 DEF RetryPublishing, IsPending
  <2>2. HistoryInv'
    BY <2>1, SwitchedConversation DEF HistoryInv
  <2>3. JobInv'
    BY <2>1, SwitchedConversation DEF JobInv, Working, AnswerInv, NotNewer
  <2> QED BY <1>2, <2>1, <2>2, <2>3, Undisturbed
<1>9. CASE CaptureSucceeds
  <2>1. /\ job'.id = job.id /\ daemon' = "asking" /\ daemon = "capture"
        /\ UNCHANGED <<question, answer, cancel, seen, conversation>>
    BY <1>3, <1>9 DEF CaptureSucceeds, TypeOK, DaemonTypeOK, Job
  <2>2. JobInv'
    BY <2>1 DEF JobInv, Working
  <2> QED BY <1>2, <2>1, <2>2, Undisturbed
<1>10. ASSUME NEW pending, pending.id = job.id, Working, daemon # "down", Compose(pending)
       PROVE  IInv'
  <2>1. /\ conversation'.session = conversation.session
        /\ conversation'.history = conversation.history
        /\ conversation'.pending = pending /\ daemon' = "publish"
        /\ UNCHANGED <<question, answer, cancel, seen, job>>
    BY <1>3, <1>10 DEF Compose, Conversation
  <2>2. JobInv'
    BY <1>10, <2>1 DEF JobInv, Working
  <2>3. HistoryInv'
    BY <2>1 DEF HistoryInv
  <2> QED BY <1>2, <2>1, <2>2, <2>3, Undisturbed
<1>11. CASE CaptureFails \/ AskFails \/ AskCanceled
  BY <1>10, <1>11 DEF CaptureFails, AskFails, AskCanceled, Failure, Working
<1>12. CASE AskSucceeds
  BY <1>10, <1>12 DEF AskSucceeds, Working
<1>13. CASE AskAgainOffline
  <2>1. /\ job'.id = job.id /\ daemon' = "asking" /\ daemon = "asking"
        /\ UNCHANGED <<question, answer, cancel, seen, conversation>>
    BY <1>3, <1>13 DEF AskAgainOffline, TypeOK, DaemonTypeOK, Job
  <2>2. JobInv'
    BY <2>1 DEF JobInv, Working
  <2> QED BY <1>2, <2>1, <2>2, Undisturbed
<1>14. ASSUME daemon' = "poll", seen' = job.id, answer'.id = job.id, answer'.body = job.id,
              Working, UNCHANGED <<question, cancel>>
       PROVE  AnswerInv' /\ JobInv' /\ NotNewer(seen, seen')
  BY <1>14 DEF AnswerInv, AnswerBelongsToItsRequest, SeenIsOnDisk, JobInv, Working, NotNewer
<1>15. CASE Publish
  <2>1. /\ conversation.pending.id = job.id /\ conversation.session = job.id.session
        /\ Older(seen, job.id) /\ Working
    BY <1>15 DEF Publish, JobInv, Working
  <2>2. AnswerInv' /\ JobInv' /\ seen' = job.id
    BY <1>14, <1>15, <2>1 DEF Publish
  <2> DEFINE h == conversation.history
             g == AddTurn(h, job.id)
  <2>3. /\ conversation'.session = conversation.session
        /\ conversation'.history = Remember(conversation, conversation.pending)
    BY <1>3, <1>15 DEF Publish, Conversation
  <2>4. conversation'.history = h \/ conversation'.history = g
    BY <2>1, <2>3 DEF Remember
  <2>5. /\ h \in Seq(Identity) /\ Len(h) \in Nat
        /\ \A i \in 1 .. Len(h) :
            /\ h[i] \in Identity /\ h[i].session = job.id.session
            /\ Older(h[i], job.id)
            /\ i > 1 => Older(h[i - 1], h[i])
    BY <1>3, <2>1, IdentityOrder DEF HistoryInv
  <2>6. ASSUME conversation'.history = h PROVE HistoryInv'
    BY <2>1, <2>2, <2>3, <2>5, <2>6 DEF HistoryInv, NotNewer
  <2>7. ASSUME conversation'.history = g PROVE HistoryInv'
    <3>1. g \in Seq(Identity) /\ Len(g) \in 1 .. HistoryTurns /\ NewestOf(g, h, job.id)
      BY <1>3, AddTurnProperties
    <3> DEFINE d == Len(h) + 1 - Len(g)
    <3> HIDE DEF g, h
    <3>2. /\ Len(g) \in Nat /\ Len(g) >= 1 /\ d \in Nat /\ g[Len(g)] = job.id
          /\ \A i \in 1 .. Len(g) - 1 : i + d \in 1 .. Len(h) /\ g[i] = h[i + d]
      BY <2>5, <3>1 DEF NewestOf
    <3>3. ASSUME NEW i \in 1 .. Len(g)
          PROVE  /\ g[i].session = job.id.session
                 /\ NotNewer(g[i], job.id)
                 /\ i > 1 => Older(g[i - 1], g[i])
      <4>1. CASE i = Len(g)
        <5>1. i > 1 => g[i - 1] = h[i - 1 + d] /\ i - 1 + d \in 1 .. Len(h)
          BY <3>2, <4>1
        <5> QED BY <2>5, <3>2, <4>1, <5>1 DEF NotNewer
      <4>2. CASE i # Len(g)
        <5>1. i \in 1 .. Len(g) - 1 /\ (i > 1 => i - 1 \in 1 .. Len(g) - 1)
          BY <3>2, <4>2
        <5>2. g[i] = h[i + d] /\ i + d \in 1 .. Len(h)
          BY <3>2, <5>1
        <5>3. i > 1 => g[i - 1] = h[(i + d) - 1] /\ i + d > 1
          BY <2>5, <3>2, <5>1
        <5> HIDE DEF d
        <5> QED BY <2>5, <5>2, <5>3 DEF NotNewer
      <4> QED BY <4>1, <4>2
    <3> QED BY <2>1, <2>2, <2>3, <2>7, <3>3 DEF HistoryInv
  <2> QED BY <1>2, <1>15, <2>2, <2>4, <2>6, <2>7 DEF Publish
<1>16. CASE TransientError
  <2>1. JobInv'
    BY <1>16 DEF TransientError, JobInv, Working
  <2> QED BY <1>2, <1>16, <2>1, Undisturbed DEF TransientError
<1>17. CASE UnexpectedError
  <2>1. JobInv'
    BY <1>17 DEF UnexpectedError, JobInv, Working
  <2> QED BY <1>2, <1>17, <2>1, Undisturbed DEF UnexpectedError
<1>18. CASE AnswerInternalError
  <2>1. AnswerInv' /\ JobInv' /\ NotNewer(seen, seen') /\ seen' \in Identity
    BY <1>3, <1>14, <1>18 DEF AnswerInternalError, Working
  <2>2. HistoryInv'
    BY <1>3, <1>18, <2>1, IdentityOrder DEF AnswerInternalError, HistoryInv
  <2> QED BY <1>2, <1>18, <2>1, <2>2 DEF AnswerInternalError
<1>19. CASE DaemonCrash
  <2>1. AnswerInv' /\ JobInv' /\ HistoryInv'
    BY <1>19 DEF DaemonCrash, Stop, AnswerInv, AnswerBelongsToItsRequest, SeenIsOnDisk,
       JobInv, Working, HistoryInv, Fresh
  <2> QED BY <1>2, <1>19, <2>1 DEF DaemonCrash
<1> QED
  BY <1>5, <1>6, <1>7, <1>8, <1>9, <1>11, <1>12, <1>13, <1>15, <1>16, <1>17, <1>18, <1>19
  DEF DaemonNext, Capture, Ask, WriteAnswer

LEMMA RestartSafetyNext ==
    ASSUME TypeOK, IInv, GameRestart
    PROVE  IInv'
<1> USE DEF IInv, bridgeVars
<1>1. Current' = [seq |-> 1, session |-> session + 1] /\ UNCHANGED <<question, answer, cancel>>
  BY DEF GameRestart, Current
<1>2. question.id \in Identity /\ cancel \in Identity
  BY DEF TypeOK, Question
<1>3. RenderThreadInv'
  <2>1. Older(cancel, Current') /\ Older(question.id, Current')
    BY <1>1, <1>2, IssuedLater DEF RenderThreadInv, NotNewer
  <2> QED BY <1>1, <2>1 DEF GameRestart, RenderThreadInv, Idle, NotNewer
<1>4. TranscriptInv' /\ PollThreadInv'
  BY DEF GameRestart, TranscriptInv, AnswersFollowTheirQuestion, PollThreadInv, Idle, AtTop,
     Polling
<1>5. AnswerInv' /\ JobInv' /\ HistoryInv'
  BY <1>1 DEF GameRestart, Stop, AnswerInv, AnswerBelongsToItsRequest, SeenIsOnDisk, JobInv,
     Working, HistoryInv, Fresh
<1> QED BY <1>3, <1>4, <1>5

(***************************************************************************)
(* The safety properties.                                                  *)
(***************************************************************************)
LEMMA SafetyNext == TypeOK /\ TypeOK' /\ IInv /\ [Next]_vars => IInv'
<1> SUFFICES ASSUME TypeOK, TypeOK', IInv, [Next]_vars PROVE IInv'
  OBVIOUS
<1>1. CASE UNCHANGED vars
  BY <1>1, Undisturbed DEF vars, bridgeVars, pluginVars, chatVars, daemonVars, IInv
<1> QED BY <1>1, PluginSafetyNext, DaemonSafetyNext, RestartSafetyNext DEF Next

\* The inductive invariant holds in every behaviour.
THEOREM Inductive == Spec => []IInv
<1> QED BY TypeCorrect, SafetyInit, SafetyNext, PTL DEF Spec

LEMMA InvariantImpliesSafety ==
    ASSUME TypeOK, IInv
    PROVE  /\ AnswersFollowTheirQuestion /\ CancelSparesTheLiveRequest
           /\ AnswerBelongsToItsRequest /\ SeenIsOnDisk /\ NoCrossChatContext
<1> USE DEF IInv
<1>1. AnswersFollowTheirQuestion /\ AnswerBelongsToItsRequest /\ SeenIsOnDisk
  BY DEF TranscriptInv, AnswerInv
<1>2. CancelSparesTheLiveRequest
  <2>1. Current \in Identity
    BY RecordTypes DEF TypeOK
  <2> QED BY <2>1, IdentityOrder DEF RenderThreadInv, CancelSparesTheLiveRequest,
     CancellationRequested
<1>3. NoCrossChatContext
  <2> SUFFICES ASSUME Working, NEW i \in 1 .. Len(conversation.history)
               PROVE  /\ conversation.history[i].session = job.id.session
                      /\ Older(conversation.history[i], job.id)
                      /\ NotNewer(conversation.history[i], answer.id)
                      /\ i > 1 => Older(conversation.history[i - 1], conversation.history[i])
    BY DEF NoCrossChatContext, JobInv
  <2> DEFINE turn == conversation.history[i]
  <2>1. /\ turn \in Identity /\ seen \in Identity /\ job.id \in Identity
        /\ answer.id \in Identity /\ None \in Identity
    BY IdentityOrder DEF TypeOK, DaemonTypeOK, Conversation, Job, Answer
  <2>2. /\ turn.session = conversation.session /\ NotNewer(turn, seen)
        /\ i > 1 => Older(conversation.history[i - 1], turn)
    BY DEF HistoryInv
  <2>3. conversation.session = job.id.session /\ Older(seen, job.id)
    BY DEF JobInv
  <2>4. NotNewer(seen, answer.id)
    BY <2>1, IdentityOrder DEF AnswerInv, SeenIsOnDisk, NotNewer
  <2> HIDE DEF turn
  <2>5. Older(turn, job.id) /\ NotNewer(turn, answer.id)
    BY <2>1, <2>2, <2>3, <2>4, IdentityOrder
  <2> QED BY <2>2, <2>3, <2>5 DEF turn
<1> QED BY <1>1, <1>2, <1>3

\* No reply is ever shown under another question, and no question is answered
\* twice, whatever is canceled, lost, late or restarted.
THEOREM RepliesInPlace == Spec => []AnswersFollowTheirQuestion
<1> QED BY TypeCorrect, Inductive, InvariantImpliesSafety, PTL

\* A cancellation on disk never names the request the player waits for.
THEOREM CancelIsPrecise == Spec => []CancelSparesTheLiveRequest
<1> QED BY TypeCorrect, Inductive, InvariantImpliesSafety, PTL

\* The text of an answer was composed for the request in its header.
THEOREM AnswerIsGenuine == Spec => []AnswerBelongsToItsRequest
<1> QED BY TypeCorrect, Inductive, InvariantImpliesSafety, PTL

\* The daemon takes a request for handled only if its answer is on disk.
THEOREM SeenIsPublished == Spec => []SeenIsOnDisk
<1> QED BY TypeCorrect, Inductive, InvariantImpliesSafety, PTL

\* Claude is never sent a turn of another chat, an unpublished turn, or one twice.
THEOREM ChatsAreSeparate == Spec => []NoCrossChatContext
<1> QED BY TypeCorrect, Inductive, InvariantImpliesSafety, PTL

(***************************************************************************)
(* Work that is not repeated.                                              *)
(***************************************************************************)
LEMMA FirstTimeInit == Init => FirstTimeInv
BY DEF Init, DaemonInit, FirstTimeInv, Working

LEMMA FirstTimeNext ==
    TypeOK /\ IInv /\ FirstTimeInv /\ [Next]_vars => FirstTimeInv'
<1> SUFFICES ASSUME TypeOK, IInv, FirstTimeInv, [Next]_vars, ~FlakyReads
             PROVE  FirstTimeInv'
  BY DEF FirstTimeInv
<1> USE DEF IInv, bridgeVars
<1>1. /\ question.id \in Identity /\ answer.id \in Identity /\ job.id \in Identity
      /\ seen \in Identity /\ None \in Identity /\ Current \in Identity
  BY IdentityOrder, RecordTypes DEF TypeOK, DaemonTypeOK, Question, Answer, Job
<1>2. ASSUME UNCHANGED <<daemonVars, answer>>, NotNewer(question.id, question'.id),
             question'.id \in Identity
      PROVE  FirstTimeInv'
  BY <1>1, <1>2, IdentityOrder DEF daemonVars, FirstTimeInv, Working
<1>3. CASE UNCHANGED vars
  BY <1>1, <1>2, <1>3 DEF vars, NotNewer
<1>4. CASE PluginNext /\ UNCHANGED daemonVars
  <2>1. CASE WriteRequest
    <3>1. question'.id = Current /\ NotNewer(question.id, Current) /\ answer' = answer
      BY <2>1 DEF WriteRequest, RenderThreadInv
    <3> QED BY <1>1, <1>2, <1>4, <3>1
  <2>2. CASE ~WriteRequest
    <3>1. UNCHANGED <<question, answer>>
      BY <1>4, <2>2 DEF PluginNext, Render, PollLoop, PollReads, PollApplies, Send, Retry,
         SubmitQuestion, RequestNotWritten, RequestThrew, CancelWaiting, ResetConversation,
         WriteCancellation, CancellationNotWritten, PollSnapshot, PollReadMatches,
         PollReadMisses, PollReadThrew, PollDelivers, PollExpires, PollDrops, TimePasses
    <3> QED BY <1>1, <1>2, <1>4, <3>1 DEF NotNewer
  <2> QED BY <2>1, <2>2
<1>5. CASE GameRestart
  BY <1>5 DEF GameRestart, Stop, FirstTimeInv, Working
<1>6. CASE DaemonNext /\ UNCHANGED pluginVars
  <2>1. CASE DaemonStart
    <3>1. seen' = SeenAtStart /\ daemon' = "poll" /\ UNCHANGED <<question, answer>>
      BY <2>1 DEF DaemonStart, Start
    <3>2. question.id # answer.id => Older(answer.id, question.id)
      BY <1>1, IdentityOrder DEF AnswerInv
    <3> QED BY <3>1, <3>2 DEF SeenAtStart, FirstTimeInv, Working
  <2>2. CASE DaemonStartsBlind
    BY <2>2 DEF DaemonStartsBlind
  <2>3. CASE TakeRequest \/ RetryPublishing
    <3>1. /\ job'.id = question.id /\ UNCHANGED <<question, answer, seen>>
          /\ Unseen(question.id) /\ daemon = "poll"
      BY <2>3 DEF TakeRequest, RetryPublishing
    <3>2. Older(answer.id, question.id)
      BY <1>1, <3>1, IdentityOrder DEF Unseen, FirstTimeInv, AnswerInv, SeenIsOnDisk
    <3> QED BY <3>1, <3>2 DEF FirstTimeInv
  <2>4. CASE Capture \/ Ask \/ AskAgainOffline \/ UnexpectedError \/ TransientError
    <3>1. /\ job'.id = job.id \/ daemon' = "poll"
          /\ Working /\ daemon # "down" /\ UNCHANGED <<question, answer, seen>>
      BY <2>4 DEF Capture, CaptureSucceeds, CaptureFails, Ask, AskSucceeds, AskFails,
         AskCanceled, AskAgainOffline, Compose, UnexpectedError, TransientError, Working,
         TypeOK, DaemonTypeOK, Job
    <3> QED BY <3>1 DEF FirstTimeInv, Working
  <2>5. CASE WriteAnswer
    <3>1. seen' = job.id /\ daemon' = "poll" /\ Working
      BY <2>5 DEF WriteAnswer, Publish, AnswerInternalError, Working
    <3>2. job.id # None
      BY <1>1, <3>1, IdentityOrder DEF JobInv, NotNewer
    <3> QED BY <3>1, <3>2 DEF FirstTimeInv, Working
  <2>6. CASE DaemonCrash
    BY <2>6 DEF DaemonCrash, Stop, FirstTimeInv, Working
  <2> QED BY <1>6, <2>1, <2>2, <2>3, <2>4, <2>5, <2>6 DEF DaemonNext
<1> QED BY <1>3, <1>4, <1>5, <1>6 DEF Next

LEMMA FirstTime == Spec => []FirstTimeInv
<1> QED BY TypeCorrect, Inductive, FirstTimeInit, FirstTimeNext, PTL DEF Spec

\* A request whose answer is on disk is not worked on again, not even after a
\* restart, when the daemon could read both files at start-up.
THEOREM WorkedOnce ==
    ASSUME ~FlakyReads
    PROVE  Spec => []NoWorkForPublishedAnswer
<1>1. TypeOK /\ FirstTimeInv => NoWorkForPublishedAnswer
  <2> SUFFICES ASSUME TypeOK, FirstTimeInv, Working PROVE job.id # answer.id
    BY DEF NoWorkForPublishedAnswer
  <2>1. job.id \in Identity /\ Older(answer.id, job.id)
    BY DEF FirstTimeInv, TypeOK, DaemonTypeOK, Job
  <2> QED BY <2>1, IdentityOrder
<1> QED BY <1>1, TypeCorrect, FirstTime, PTL

\* answer.txt only ever moves on to a newer request, under the same condition.
THEOREM AnswersMoveForward ==
    ASSUME ~FlakyReads
    PROVE  Spec => PublishedInOrder
<1>1. FirstTimeInv /\ [Next]_vars => [answer' # answer => Older(answer.id, answer'.id)]_answer
  <2> SUFFICES ASSUME FirstTimeInv, Next, answer' # answer
               PROVE  Older(answer.id, answer'.id)
    BY DEF vars, bridgeVars
  <2>1. WriteAnswer
    BY DEF Next, GameRestart, PluginNext, Render, PollLoop, PollReads, PollApplies, Send, Retry,
       SubmitQuestion, WriteRequest, RequestNotWritten, RequestThrew, CancelWaiting,
       ResetConversation, WriteCancellation, CancellationNotWritten, PollSnapshot,
       PollReadMatches, PollReadMisses, PollReadThrew, PollDelivers, PollExpires, PollDrops,
       TimePasses, DaemonNext, DaemonStart, DaemonStartsBlind, Start, TakeRequest,
       RetryPublishing, Capture, CaptureSucceeds, CaptureFails, Ask, AskSucceeds, AskFails,
       AskCanceled, AskAgainOffline, Compose, UnexpectedError, TransientError, DaemonCrash,
       bridgeVars
  <2>2. answer'.id = job.id /\ Working
    BY <2>1 DEF WriteAnswer, Publish, AnswerInternalError, Working
  <2> QED BY <2>2 DEF FirstTimeInv
<1> QED BY <1>1, FirstTime, PTL DEF Spec, PublishedInOrder

(***************************************************************************)
(* The plugin and the daemon implement the chat service.                   *)
(***************************************************************************)
\* The service's copies of the shared operators.
LEMMA SharedOperators ==
    /\ Service!None = None /\ Service!Identity = Identity /\ Service!Welcome = Welcome
    /\ \A a, b : Service!Older(a, b) <=> Older(a, b)
    /\ \A s, n : Service!KeepLast(s, n) = KeepLast(s, n)
    /\ \A s : Service!Last(s) = Last(s)
<1>1. Service!None = None
  BY DEF Service!None, None
<1> QED
  BY <1>1 DEF Service!Identity, Identity, Service!Welcome, Welcome, Reply,
     Service!Older, Older, Service!KeepLast, KeepLast, Service!Last, Last

LEMMA ServiceInit == Init => Service!Init
<1> SUFFICES ASSUME Init PROVE Service!Init
  OBVIOUS
<1>1. Current \in Identity
  BY DEF Init, PluginInit, Current, Identity
<1> QED BY <1>1, SharedOperators DEF Init, PluginInit, Service!Init

LEMMA ServicePluginNext ==
    ASSUME TypeOK, TypeOK', IInv, PluginNext
    PROVE  [Service!Next]_(Service!vars)
<1> USE DEF IInv, chatVars
<1> DEFINE outstanding == IF waiting THEN Current ELSE None
<1>1. PluginTypeOK /\ Current \in Identity /\ Current' \in Identity /\ NextId \in Identity
      /\ question.id \in Identity /\ None \in Identity
  BY RecordTypes, IdentityOrder DEF TypeOK, Question, PluginTypeOK, Current, Identity
<1>2. ~Older(Current, None) /\ Current # None
  <2>1. Older(cancel, Current) /\ cancel \in Identity
    BY DEF RenderThreadInv, TypeOK
  <2> QED BY <1>1, <2>1 DEF Older, None, Identity, Current
<1>3. ASSUME UNCHANGED <<messages, waiting, sequence, session>>
      PROVE  UNCHANGED Service!vars
  BY <1>3 DEF Service!vars, Current
<1>4. ASSUME NEW text \in Questions, SubmitQuestion(text)
      PROVE  Service!Next
  <2>1. Current' = NextId /\ Older(Current, NextId)
    BY <1>1, <1>4, IssuedLater DEF SubmitQuestion, Current, NextId, NotNewer
  <2>2. /\ outstanding = None /\ outstanding' = Current'
        /\ messages' = KeepLast(Append(messages,
                [author |-> "Player", re |-> Current', text |-> text]), MaxMessages)
    BY <1>4, <2>1 DEF SubmitQuestion, AddMessage, Trim, PlayerMessage
  <2>3. Service!Ask
    BY <1>1, <2>1, <2>2, SharedOperators DEF Service!Ask, Service!Say
  <2> QED BY <2>3 DEF Service!Next
<1>5. CASE Send
  BY <1>4, <1>5 DEF Send
<1>6. CASE Retry
  BY <1>1, <1>4, <1>6 DEF Retry, PluginTypeOK
<1>7. ASSUME AddMessage(Reply("Error", Current)), Last(messages).author # "Companion",
             ~waiting', UNCHANGED <<sequence, session>>
      PROVE  Service!Next
  <2>1. Service!Fail
    BY <1>7, SharedOperators DEF Service!Fail, Service!Say, AddMessage, Trim, Reply, Current
  <2> QED BY <2>1 DEF Service!Next
<1>8. CASE RequestNotWritten
  BY <1>7, <1>8 DEF RequestNotWritten, TranscriptInv
<1>9. CASE PollExpires
  BY <1>7, <1>9 DEF PollExpires, Expected, TranscriptInv, PlayerMessage
<1>10. CASE PollDelivers
  <2>1. poll.id = Current /\ waiting /\ poll.response.body = Current
    BY <1>1, <1>10 DEF PollDelivers, PollThreadInv, Expected, StillCurrent, PluginTypeOK,
       PollThread, Identity
  <2>2. /\ ~waiting' /\ UNCHANGED <<sequence, session>>
        /\ AddMessage(Reply(IF poll.response.error THEN "Error" ELSE "Companion", Current))
    BY <1>10, <2>1 DEF PollDelivers
  <2>3. CASE poll.response.error
    BY <1>7, <2>1, <2>2, <2>3 DEF TranscriptInv, PlayerMessage
  <2>4. CASE ~poll.response.error
    <3>1. Service!Reply
      BY <1>2, <2>1, <2>2, <2>4, SharedOperators DEF Service!Reply, Service!Say, AddMessage, Trim, Reply, Current
    <3> QED BY <3>1 DEF Service!Next
  <2> QED BY <2>3, <2>4
<1>11. CASE CancelWaiting
  <2>1. Current' = NextId /\ Older(Current, NextId)
    BY <1>1, <1>11, IssuedLater DEF CancelWaiting, Current, NextId, NotNewer
  <2>2. Service!Abandon
    BY <1>1, <1>2, <1>11, <2>1, SharedOperators DEF CancelWaiting, Service!Abandon
  <2> QED BY <2>2 DEF Service!Next
<1>12. CASE ResetConversation
  <2>1. Current' = [seq |-> NextSequence, session |-> session + 1]
    BY <1>12 DEF ResetConversation, Current
  <2>2. Older(Current, Current')
    BY <1>1, <2>1, IssuedLater DEF NotNewer
  <2>3. Service!NewChat
    BY <1>1, <1>12, <2>2, SharedOperators DEF ResetConversation, Service!NewChat
  <2> QED BY <2>3 DEF Service!Next
<1>13. CASE \/ WriteRequest \/ RequestThrew \/ WriteCancellation \/ CancellationNotWritten
            \/ PollSnapshot \/ PollReads \/ PollReadThrew \/ PollDrops \/ TimePasses
  BY <1>3, <1>13 DEF WriteRequest, RequestThrew, WriteCancellation, CancellationNotWritten,
     PollSnapshot, PollReads, PollReadMatches, PollReadMisses, PollReadThrew, PollDrops, TimePasses
<1> QED
  BY <1>5, <1>6, <1>8, <1>9, <1>10, <1>11, <1>12, <1>13
  DEF PluginNext, Render, PollLoop, PollApplies

LEMMA ServiceNext == TypeOK /\ TypeOK' /\ IInv /\ [Next]_vars => [Service!Next]_(Service!vars)
<1> SUFFICES ASSUME TypeOK, TypeOK', IInv, [Next]_vars
             PROVE  [Service!Next]_(Service!vars)
  OBVIOUS
<1>1. CASE UNCHANGED vars \/ UNCHANGED pluginVars
  BY <1>1 DEF vars, pluginVars, chatVars, Service!vars, Current
<1>2. CASE GameRestart
  <2>1. Current' = [seq |-> 1, session |-> session + 1] /\ Current' \in Identity
    BY <1>2 DEF GameRestart, Current, TypeOK, PluginTypeOK, Identity
  <2>2. Older(Current, Current')
    BY <2>1, IssuedLater, RecordTypes DEF NotNewer, TypeOK
  <2>3. Service!NewChat
    BY <1>2, <2>1, <2>2, SharedOperators DEF GameRestart, Service!NewChat
  <2> QED BY <2>3 DEF Service!Next
<1> QED BY <1>1, <1>2, ServicePluginNext DEF Next

\* Every behaviour of plugin and daemon is a behaviour of the chat service.
THEOREM Implementation == Spec => ImplementsService
<1> QED BY TypeCorrect, Inductive, ServiceInit, ServiceNext, PTL
        DEF Spec, ImplementsService, Service!Spec

(***************************************************************************)
(* The Retry button, for a transcript that keeps at least three messages: a *)
(* question and the two errors that may follow it.                         *)
(***************************************************************************)

\* A reply is added after the question shown last: it is one further up.
LEMMA AskedBefore ==
    ASSUME PluginTypeOK, PluginTypeOK', MaxMessages > 2, NEW m \in Message, AddMessage(m),
           m.author # "Player", UNCHANGED lastQuestion, NEW k \in 0 .. 1, Asked(k)
    PROVE  Asked(k + 1)'
<1> DEFINE d == Len(messages) + 1 - Len(messages')
<1>1. /\ NewestOf(messages', messages, m) /\ Len(messages') \in {MaxMessages, Len(messages) + 1}
      /\ Len(messages) \in Nat /\ Len(messages') \in Nat /\ MaxMessages \in Nat
  BY AddMessageProperties, PluginAssumption DEF PluginTypeOK
<1>2. k + 1 < Len(messages') /\ k < Len(messages)
  BY <1>1 DEF Asked
<1>3. /\ d \in Int /\ messages'[Len(messages')] = m
      /\ \A i \in 1 .. Len(messages') - 1 : messages'[i] = messages[i + d]
  BY <1>1 DEF NewestOf
<1>4. Len(messages') - (k + 1) \in 1 .. Len(messages') - 1
      /\ Len(messages') - (k + 1) + d = Len(messages) - k
  BY <1>1, <1>2
<1>5. messages'[Len(messages') - (k + 1)] = messages[Len(messages) - k]
  BY <1>3, <1>4
<1>6. ASSUME NEW j \in Len(messages') - (k + 1) + 1 .. Len(messages')
      PROVE  messages'[j].author # "Player"
  <2>1. CASE j = Len(messages')
    BY <1>3, <2>1
  <2>2. CASE j # Len(messages')
    <3>1. j \in 1 .. Len(messages') - 1 /\ j + d \in Len(messages) - k + 1 .. Len(messages)
      BY <1>1, <1>2, <2>2
    <3> HIDE DEF d
    <3>2. messages'[j] = messages[j + d]
      BY <1>3, <3>1
    <3> QED BY <3>1, <3>2 DEF Asked
  <2> QED BY <2>1, <2>2
<1> QED BY <1>2, <1>5, <1>6 DEF Asked

\* A question that is sent is the last message.
LEMMA AskedNow ==
    ASSUME PluginTypeOK, PluginTypeOK', NEW m \in Message, AddMessage(m),
           m.author = "Player", m.text = lastQuestion'
    PROVE  Asked(0)'
<1>1. messages'[Len(messages')] = m /\ Len(messages') \in Nat \ {0}
  BY AddMessageProperties DEF NewestOf, PluginTypeOK
<1> QED BY <1>1 DEF Asked

\* What an added message is.
LEMMA AddedIsLast ==
    ASSUME PluginTypeOK, NEW m \in Message, AddMessage(m) PROVE Last(messages') = m
BY AddMessageProperties DEF NewestOf, Last

\* A step that leaves the transcript and its flags alone.
LEMMA RetryUndisturbed ==
    ASSUME RetryInv, UNCHANGED <<messages, waiting, canRetry, lastQuestion>>,
           ui'.pc = "request" => ui.pc = "request"
    PROVE  RetryInv'
BY DEF RetryInv, Asked

\* Every step of the plugin keeps the invariant of the Retry button.
LEMMA RetryPluginNext ==
    ASSUME TypeOK, TypeOK', IInv, RetryInv, MaxMessages > 2, PluginNext
    PROVE  RetryInv'
<1>1. PluginTypeOK /\ PluginTypeOK'
  BY DEF TypeOK
<1>2. ASSUME NEW text \in Questions \cup {NoQuestion}, SubmitQuestion(text) PROVE RetryInv'
  <2> DEFINE m == PlayerMessage(NextId, text)
  <2>1. m \in Message /\ AddMessage(m) /\ m.author = "Player" /\ m.text = lastQuestion'
    BY <1>1, <1>2, RecordTypes DEF SubmitQuestion, PlayerMessage
  <2>2. Asked(0)'
    <3> HIDE DEF m
    <3> QED BY <1>1, <2>1, AskedNow
  <2> QED BY <1>2, <2>2 DEF SubmitQuestion, RetryInv
<1>3. CASE Send
  BY <1>2, <1>3 DEF Send
<1>4. CASE Retry
  BY <1>1, <1>2, <1>4 DEF Retry, PluginTypeOK
<1>5. CASE RequestNotWritten
  <2>1. Reply("Error", Current) \in Message /\ Reply("Error", Current).author = "Error"
    BY <1>1, RecordTypes DEF Reply
  <2>2. Asked(1)' \/ Asked(2)'
    <3>1. Asked(0) \/ Asked(1)
      BY <1>5 DEF RequestNotWritten, RetryInv
    <3>2. ASSUME NEW k \in 0 .. 1, Asked(k) PROVE Asked(k + 1)'
      BY <1>1, <1>5, <2>1, <3>2, AskedBefore DEF RequestNotWritten
    <3>3. Asked(0) => Asked(1)'
      BY <3>2
    <3>4. Asked(1) => Asked(2)'
      BY <3>2
    <3> QED BY <3>1, <3>3, <3>4
  <2> QED BY <1>5, <2>2 DEF RequestNotWritten, RetryInv, Idle
<1>6. CASE CancelWaiting
  BY <1>6 DEF CancelWaiting, RetryInv, Asked
<1>7. CASE ResetConversation
  BY <1>7 DEF ResetConversation, RetryInv, Welcome, Reply, Last, Idle
<1>8. CASE PollDelivers \/ PollExpires
  <2>1. PICK m \in Message :
            /\ AddMessage(m) /\ m.author # "Player"
            /\ m.author # "Companion" => canRetry'
    <3>1. poll.response.body \in Identity /\ Current \in Identity
      BY <1>1, RecordTypes DEF PluginTypeOK, PollThread, Answer
    <3>2. \A id \in Identity :
            /\ Reply("Error", id) \in Message /\ Reply("Error", id).author = "Error"
            /\ Reply("Companion", id) \in Message
            /\ Reply("Companion", id).author = "Companion"
      BY <1>1, RecordTypes DEF Reply
    <3> QED BY <1>8, <3>1, <3>2 DEF PollDelivers, PollExpires
  <2>2. Asked(0) /\ ~waiting' /\ UNCHANGED <<lastQuestion, ui>>
    BY <1>8 DEF PollDelivers, PollExpires, Expected, RetryInv
  <2>3. Asked(1)'
    <3>1. 0 \in 0 .. 1 /\ 0 + 1 = 1
      OBVIOUS
    <3> QED BY <1>1, <2>1, <2>2, <3>1, AskedBefore
  <2>4. Last(messages') = m
    BY <1>1, <2>1, AddedIsLast
  <2> QED BY <2>1, <2>2, <2>3, <2>4 DEF RetryInv
<1>9. CASE \/ WriteRequest \/ RequestThrew \/ WriteCancellation \/ CancellationNotWritten
           \/ PollSnapshot \/ PollReadMatches \/ PollReadMisses \/ PollReadThrew \/ PollDrops
           \/ TimePasses
  BY <1>9, RetryUndisturbed
  DEF WriteRequest, RequestThrew, WriteCancellation, CancellationNotWritten, PollSnapshot,
      PollReadMatches, PollReadMisses, PollReadThrew, PollDrops, TimePasses, chatVars, Idle
<1> QED BY <1>3, <1>4, <1>5, <1>6, <1>7, <1>8, <1>9
     DEF PluginNext, Render, PollLoop, PollReads, PollApplies

\* While nothing is outstanding and the last word is not an answer, the Retry
\* button is there and repeats the question shown last.
THEOREM RetryIsOffered ==
    ASSUME MaxMessages > 2 PROVE Spec => []RetryRepeatsTheLastQuestion
<1>1. Init => RetryInv
  BY DEF Init, PluginInit, RetryInv, Welcome, Reply, Last, Idle
<1>2. TypeOK /\ TypeOK' /\ IInv /\ RetryInv /\ [Next]_vars => RetryInv'
  <2> SUFFICES ASSUME TypeOK, TypeOK', IInv, RetryInv, [Next]_vars PROVE RetryInv'
    OBVIOUS
  <2>1. CASE PluginNext /\ UNCHANGED daemonVars
    BY <2>1, RetryPluginNext
  <2>2. CASE DaemonNext /\ UNCHANGED pluginVars
    BY <2>2, RetryUndisturbed DEF pluginVars, chatVars
  <2>3. CASE GameRestart
    BY <2>3 DEF GameRestart, RetryInv, Welcome, Reply, Last, Idle
  <2>4. CASE UNCHANGED vars
    BY <2>4, RetryUndisturbed DEF vars, pluginVars, chatVars
  <2> QED BY <2>1, <2>2, <2>3, <2>4 DEF Next
<1>3. TypeOK /\ RetryInv => RetryRepeatsTheLastQuestion
  <2> SUFFICES ASSUME TypeOK, RetryInv, canRetry
               PROVE  \E i \in 1 .. Len(messages) :
                        /\ messages[i].author = "Player" /\ messages[i].text = lastQuestion
                        /\ \A j \in i + 1 .. Len(messages) : messages[j].author # "Player"
    BY DEF RetryInv, RetryRepeatsTheLastQuestion
  <2>1. PICK k \in 0 .. 2 : Asked(k)
    BY DEF RetryInv
  <2>2. Len(messages) - k \in 1 .. Len(messages)
    BY <2>1 DEF Asked, TypeOK, PluginTypeOK
  <2> QED BY <2>1, <2>2 DEF Asked
<1> QED
  BY <1>1, <1>2, <1>3, TypeCorrect, Inductive, PTL DEF Spec

---------------------------------------------------------------------------
(***************************************************************************)
(* /web off, while the daemon does not crash.  First the transcript.        *)
(***************************************************************************)
\* How many messages a trimmed transcript has lost.
Lost == Len(messages) + 1 - Len(messages')

\* Adding a message moves the others up.
LEMMA MovedUp ==
    ASSUME PluginTypeOK, NEW m \in Message, AddMessage(m)
    PROVE  /\ Len(messages) \in Nat /\ Len(messages') \in Nat \ {0} /\ Lost \in Nat
           /\ messages'[Len(messages')] = m
           /\ \A k \in 1 .. Len(messages') - 1 :
                k + Lost \in 1 .. Len(messages) /\ messages'[k] = messages[k + Lost]
<1>1. /\ messages' \in Seq(Message) /\ Len(messages') \in 1 .. MaxMessages
      /\ NewestOf(messages', messages, m)
  BY AddMessageProperties
<1>2. Len(messages) \in Nat /\ MaxMessages \in Nat
  BY PluginAssumption DEF PluginTypeOK
<1>3. Len(messages') \in Nat \ {0}
  BY <1>1, <1>2
<1>4. Len(messages') <= Len(messages) + 1
  BY <1>1 DEF NewestOf
<1>5. Lost \in Nat
  BY <1>2, <1>3, <1>4 DEF Lost
<1>6. \A k \in 1 .. Len(messages') - 1 :
        k + Lost \in 1 .. Len(messages) /\ messages'[k] = messages[k + Lost]
  BY <1>1 DEF NewestOf, Lost
<1>7. messages'[Len(messages')] = m
  BY <1>1 DEF NewestOf
<1> QED BY <1>2, <1>3, <1>5, <1>6, <1>7

\* What the transcript knows of a request it knows after it has grown.
LEMMA KnownStill ==
    ASSUME PluginTypeOK, NEW m \in Message, AddMessage(m), NEW id, NEW text,
           Known(id, text), m.author = "Player" => m.re # id /\ ~Older(m.re, id)
    PROVE  Known(id, text)'
<1>1. /\ Len(messages) \in Nat /\ Len(messages') \in Nat \ {0} /\ Lost \in Nat
      /\ messages'[Len(messages')] = m
      /\ \A k \in 1 .. Len(messages') - 1 :
            k + Lost \in 1 .. Len(messages) /\ messages'[k] = messages[k + Lost]
  BY MovedUp
<1>2. Len(messages) = Len(messages') - 1 + Lost
  BY <1>1 DEF Lost
<1> SUFFICES ASSUME NEW k \in 1 .. Len(messages'), messages'[k].author = "Player"
             PROVE  /\ messages'[k].re = id => messages'[k].text = text
                    /\ Older(messages'[k].re, id) =>
                        \E j \in k + 1 .. Len(messages') :
                            messages'[j].author = "Player" /\ messages'[j].re = id
  BY DEF Known, Asks
<1>3. CASE k = Len(messages')
  BY <1>1, <1>3
<1>4. CASE k # Len(messages')
  <2>1. k \in 1 .. Len(messages') - 1 /\ k + Lost \in 1 .. Len(messages)
        /\ messages'[k] = messages[k + Lost]
    BY <1>1, <1>4
  <2>2. messages'[k].re = id => messages'[k].text = text
    BY <2>1 DEF Known
  <2>3. ASSUME Older(messages'[k].re, id)
        PROVE  \E j \in k + 1 .. Len(messages') :
                    messages'[j].author = "Player" /\ messages'[j].re = id
    <3>1. PICK i \in k + Lost + 1 .. Len(messages) :
                messages[i].author = "Player" /\ messages[i].re = id
      BY <2>1, <2>3 DEF Known, Asks
    <3>2. i - Lost \in k + 1 .. Len(messages') - 1 /\ (i - Lost) + Lost = i
      BY <1>1, <1>2, <3>1
    <3>3. i - Lost \in 1 .. Len(messages') - 1
      BY <1>1, <3>2
    <3>4. messages'[i - Lost] = messages[i]
      BY <1>1, <3>2, <3>3
    <3> QED BY <1>1, <3>1, <3>2, <3>4
  <2> QED BY <2>2, <2>3
<1> QED BY <1>3, <1>4

\* A question that is new to the transcript is known once it is added.
LEMMA KnownNow ==
    ASSUME PluginTypeOK, NEW m \in Message, AddMessage(m), m.author = "Player",
           \A k \in 1 .. Len(messages) :
                messages[k].author = "Player" => messages[k].re # m.re,
           ~Older(m.re, m.re)
    PROVE  Known(m.re, m.text)'
<1>1. /\ Len(messages') \in Nat \ {0}
      /\ messages'[Len(messages')] = m
      /\ \A k \in 1 .. Len(messages') - 1 :
            k + Lost \in 1 .. Len(messages) /\ messages'[k] = messages[k + Lost]
  BY MovedUp
<1> SUFFICES ASSUME NEW k \in 1 .. Len(messages'), messages'[k].author = "Player"
             PROVE  /\ messages'[k].re = m.re => messages'[k].text = m.text
                    /\ Older(messages'[k].re, m.re) =>
                        \E j \in k + 1 .. Len(messages') :
                            messages'[j].author = "Player" /\ messages'[j].re = m.re
  BY DEF Known, Asks
<1>2. CASE k = Len(messages')
  BY <1>1, <1>2
<1>3. CASE k # Len(messages')
  <2>1. k \in 1 .. Len(messages') - 1 /\ Len(messages') \in k + 1 .. Len(messages')
    BY <1>1, <1>3
  <2> QED BY <1>1, <2>1
<1> QED BY <1>2, <1>3

\* A /web off that stands, and its answer, stood before a message was added that
\* is no answer.
LEMMA OffBefore ==
    ASSUME PluginTypeOK, NEW m \in Message, AddMessage(m),
           NEW k \in 1 .. Len(messages') - 1, SwitchedOff(k)'
    PROVE  /\ k + Lost \in 1 .. Len(messages) /\ messages'[k] = messages[k + Lost]
           /\ SwitchedOff(k + Lost)
           /\ HasAnswer(k)' => HasAnswer(k + Lost) \/ (k = Len(messages') - 1 /\ m.author = "Companion")
<1>1. /\ Len(messages) \in Nat /\ Len(messages') \in Nat \ {0} /\ Lost \in Nat
      /\ messages'[Len(messages')] = m
      /\ \A i \in 1 .. Len(messages') - 1 :
            i + Lost \in 1 .. Len(messages) /\ messages'[i] = messages[i + Lost]
  BY MovedUp
<1>2. Len(messages) = Len(messages') - 1 + Lost
  BY <1>1 DEF Lost
<1>3. SwitchedOff(k + Lost)
  <2> SUFFICES ASSUME NEW j \in k + Lost + 1 .. Len(messages)
               PROVE  messages[j].text # "web on"
    BY <1>1 DEF SwitchedOff
  <2>1. /\ j - Lost \in 1 .. Len(messages') - 1 /\ (j - Lost) + Lost = j
        /\ j - Lost \in k + 1 .. Len(messages')
    BY <1>1, <1>2
  <2>2. messages'[j - Lost] = messages[j]
    BY <1>1, <2>1
  <2> QED BY <2>1, <2>2 DEF SwitchedOff
<1>4. ASSUME HasAnswer(k)', ~(k = Len(messages') - 1 /\ m.author = "Companion")
      PROVE  HasAnswer(k + Lost)
  <2>1. messages'[k + 1].author = "Companion"
    BY <1>4 DEF HasAnswer
  <2>2. k + 1 \in 1 .. Len(messages') - 1
    BY <1>1, <1>4, <2>1
  <2>3. k + 1 + Lost \in 1 .. Len(messages) /\ messages'[k + 1] = messages[k + 1 + Lost]
    BY <1>1, <2>2
  <2>4. k + 1 + Lost = (k + Lost) + 1 /\ k + Lost < Len(messages)
    BY <1>1, <1>2, <2>2
  <2> QED BY <2>1, <2>3, <2>4 DEF HasAnswer
<1> QED BY <1>1, <1>3, <1>4

(***************************************************************************)
(* Steps that leave the transcript alone.                                  *)
(***************************************************************************)
LEMMA KnowsUndisturbed ==
    ASSUME TypeOK, TypeOK', TranscriptKnows, UNCHANGED <<messages, session, question>>,
           sequence' >= sequence, ui'.pc = "request" => ui' = ui
    PROVE  TranscriptKnows'
<1>1. \A k \in 1 .. Len(messages) : messages[k].author = "Player" =>
            messages[k].re.seq <= sequence'
  <2> SUFFICES ASSUME NEW k \in 1 .. Len(messages), messages[k].author = "Player"
               PROVE  messages[k].re.seq <= sequence'
    OBVIOUS
  <2>1. messages[k] \in Message
    BY DEF TypeOK, PluginTypeOK
  <2>2. messages[k].re.seq \in Nat /\ sequence \in Nat /\ sequence' \in Nat
    BY <2>1 DEF Message, Identity, TypeOK, PluginTypeOK
  <2> QED BY <2>2 DEF TranscriptKnows
<1> QED BY <1>1 DEF TranscriptKnows, Known, Asks

LEMMA ModeUndisturbed ==
    ASSUME ModeInv, UNCHANGED <<messages, session, question>>,
           conversation'.session = conversation.session,
           conversation'.webEnabled = conversation.webEnabled,
           NotNewer(conversation'.pending.id, question.id),
           \A k \in 1 .. Len(messages) :
                SwitchedOff(k) /\ Taken(messages[k].re)' => Taken(messages[k].re),
           daemon' = "asking" => daemon = "asking" /\ job' = job
    PROVE  ModeInv'
BY DEF ModeInv, SwitchedOff, HasAnswer

(***************************************************************************)
(* The steps of the plugin.                                                *)
(***************************************************************************)
\* A message that is no answer keeps what is known of the mode.
LEMMA ModeAfterMessage ==
    ASSUME TypeOK, ModeInv, UNCHANGED <<daemonVars, question, answer, session>>, NEW m \in Message,
           AddMessage(m),
           \A id : Taken(id)' => Taken(id),
           m.author = "Player" => ~Taken(m.re),
           m.author = "Companion" =>
                \A k \in 1 .. Len(messages) : k = Len(messages) => Taken(messages[k].re)
    PROVE  ModeInv'
<1>1. /\ Len(messages) \in Nat /\ Len(messages') \in Nat \ {0} /\ Lost \in Nat
      /\ messages'[Len(messages')] = m
  BY MovedUp DEF TypeOK
<1>2. ASSUME NEW k \in 1 .. Len(messages'), SwitchedOff(k)',
             Taken(messages[k].re)' \/ HasAnswer(k)'
      PROVE  /\ conversation.session = session /\ ~conversation.webEnabled
             /\ NotNewer(messages'[k].re, question.id)
  <2>0. Taken(messages[k].re)' => Taken(messages'[k].re)
    <3>1. ASSUME NEW id, id = messages'[k].re, Taken(messages[k].re)' PROVE Taken(id)
      BY <3>1 DEF Taken, Working
    <3> QED BY <3>1
  <2>1. k # Len(messages')
    <3> SUFFICES ASSUME k = Len(messages') PROVE FALSE
      OBVIOUS
    <3>1. messages'[k] = m /\ ~HasAnswer(k)'
      BY <1>1 DEF HasAnswer
    <3>2. messages'[k].author = "Player"
      BY <1>2 DEF SwitchedOff
    <3> QED BY <1>2, <2>0, <3>1, <3>2
  <2>2. k \in 1 .. Len(messages') - 1
    BY <1>1, <2>1
  <2>3. /\ k + Lost \in 1 .. Len(messages) /\ messages'[k] = messages[k + Lost]
        /\ SwitchedOff(k + Lost)
        /\ HasAnswer(k)' =>
            HasAnswer(k + Lost) \/ (k = Len(messages') - 1 /\ m.author = "Companion")
    BY <1>2, <2>2, OffBefore DEF TypeOK
  <2>4. k = Len(messages') - 1 => k + Lost = Len(messages)
    BY <1>1 DEF Lost
  <2>5. Taken(messages[k + Lost].re) \/ HasAnswer(k + Lost)
    BY <1>2, <2>0, <2>3, <2>4, <1>1, <2>2
  <2> QED BY <2>3, <2>5 DEF ModeInv
<1>3. ModeInv!1' /\ ModeInv!2'
  BY DEF ModeInv, daemonVars
<1>4. conversation' = conversation /\ session' = session /\ question' = question
  BY DEF daemonVars
<1> QED BY <1>2, <1>3, <1>4 DEF ModeInv

LEMMA KnowsAfterMessage ==
    ASSUME TypeOK, TypeOK', TranscriptKnows, NEW m \in Message, AddMessage(m),
           UNCHANGED <<session, question>>, sequence' >= sequence,
           IF m.author = "Player"
           THEN /\ m.re.session = session /\ m.re.seq <= sequence'
                /\ m.re # question.id /\ ~Older(m.re, question.id)
           ELSE m.text = NoQuestion,
           (ui.pc = "request" => Known(ui.id, ui.text))'
    PROVE  TranscriptKnows'
<1>1. /\ Len(messages') \in Nat \ {0} /\ messages'[Len(messages')] = m
      /\ \A k \in 1 .. Len(messages') - 1 :
            k + Lost \in 1 .. Len(messages) /\ messages'[k] = messages[k + Lost]
  BY MovedUp DEF TypeOK
<1>2. Known(question.id, question.text)'
  <2>1. PICK id, text : id = question.id /\ text = question.text
    OBVIOUS
  <2>2. Known(id, text)
    BY <2>1 DEF TranscriptKnows, Known, Asks
  <2>3. Known(id, text)'
    BY <2>1, <2>2, KnownStill DEF TypeOK
  <2> QED BY <2>1, <2>3 DEF Known, Asks
<1>3. ASSUME NEW k \in 1 .. Len(messages')
      PROVE  IF messages'[k].author = "Player"
             THEN messages'[k].re.session = session /\ messages'[k].re.seq <= sequence'
             ELSE messages'[k].text = NoQuestion
  <2>1. CASE k = Len(messages')
    BY <1>1, <2>1
  <2>2. CASE k # Len(messages')
    <3>1. k + Lost \in 1 .. Len(messages) /\ messages'[k] = messages[k + Lost]
      BY <1>1, <2>2
    <3>2. messages[k + Lost] \in Message
      BY <3>1 DEF TypeOK, PluginTypeOK
    <3>3. messages[k + Lost].re.seq \in Nat /\ sequence \in Nat /\ sequence' \in Nat
      BY <3>2 DEF Message, Identity, TypeOK, PluginTypeOK
    <3> QED BY <3>1, <3>3 DEF TranscriptKnows
  <2> QED BY <2>1, <2>2
<1>4. session' > 0
  BY DEF TranscriptKnows
<1> QED BY <1>2, <1>3, <1>4 DEF TranscriptKnows
LEMMA WebPluginNext ==
    ASSUME TypeOK, TypeOK', IInv, WebInv, PluginNext, UNCHANGED daemonVars
    PROVE  WebInv'
<1> USE DEF WebInv, bridgeVars, chatVars
<1>1. /\ Current \in Identity /\ NextId \in Identity /\ question.id \in Identity
      /\ answer.id \in Identity /\ job.id \in Identity /\ poll.id \in Identity
      /\ conversation.pending.id \in Identity
      /\ sequence \in Nat /\ session \in Nat
  BY RecordTypes DEF TypeOK, PluginTypeOK, DaemonTypeOK, Question, Answer, Job, PollThread,
     Conversation, PendingAnswer
<1>2. NotNewer(question.id, Current) /\ Older(Current, NextId)
  BY <1>1, IssuedLater DEF IInv, RenderThreadInv, NotNewer
<1>3. NotNewer(conversation.pending.id, question.id)
  BY DEF ModeInv
\* Most steps leave the transcript, the question and what the daemon took alone.
<1>4. ASSUME UNCHANGED <<messages, session, question, answer>>, sequence' >= sequence,
             ui'.pc = "request" => ui' = ui,
             \/ poll' = poll \/ poll'.pc # "apply"
             \/ poll'.id = answer.id
      PROVE  WebInv'
  <2>1. TranscriptKnows'
    BY <1>4, KnowsUndisturbed
  <2>2. \A k \in 1 .. Len(messages) : Taken(messages[k].re)' => Taken(messages[k].re)
    BY <1>4 DEF Taken, Working, daemonVars
  <2> QED BY <1>3, <1>4, <2>1, <2>2, ModeUndisturbed DEF daemonVars
<1>5. CASE \/ RequestThrew \/ CancelWaiting \/ WriteCancellation \/ CancellationNotWritten
           \/ PollSnapshot \/ PollReadMatches \/ PollReadMisses \/ PollReadThrew \/ PollDrops
           \/ TimePasses
  <2>1. UNCHANGED <<messages, session, question, answer>>
    BY <1>5 DEF RequestThrew, CancelWaiting, WriteCancellation, CancellationNotWritten,
       PollSnapshot, PollReadMatches, PollReadMisses, PollReadThrew, PollDrops, TimePasses
  <2>2. sequence' >= sequence /\ (ui'.pc = "request" => ui' = ui)
    BY <1>1, <1>5 DEF RequestThrew, CancelWaiting, WriteCancellation, CancellationNotWritten,
       PollSnapshot, PollReadMatches, PollReadMisses, PollReadThrew, PollDrops, TimePasses,
       NextSequence, Idle
  <2>3. \/ poll' = poll \/ poll'.pc # "apply"
        \/ poll'.id = answer.id
    BY <1>5 DEF RequestThrew, CancelWaiting, WriteCancellation, CancellationNotWritten,
       PollSnapshot, PollReadMatches, PollReadMisses, PollReadThrew, PollDrops, TimePasses,
       Polling, AtTop, Matches
  <2> QED BY <1>4, <2>1, <2>2, <2>3
<1>6. ASSUME NEW text \in Questions \cup {NoQuestion}, SubmitQuestion(text) PROVE WebInv'
  <2> DEFINE m == PlayerMessage(NextId, text)
  <2>1. PICK re : re = NextId
    OBVIOUS
  <2>2. /\ m \in Message /\ AddMessage(m) /\ m.author = "Player" /\ m.re = re /\ m.text = text
        /\ re.session = session /\ re.seq = sequence' /\ sequence' = sequence + 1
    BY <1>1, <1>6, <2>1, RecordTypes DEF SubmitQuestion, PlayerMessage, NextId, NextSequence, TypeOK
  <2>3. \A id \in Identity : NotNewer(id, question.id) => id # re /\ ~Older(re, id)
    <3> SUFFICES ASSUME NEW id \in Identity, NotNewer(id, question.id)
                 PROVE  id # re /\ ~Older(re, id)
      OBVIOUS
    <3>1. Older(id, re)
      BY <1>1, <1>2, <2>1, IdentityOrder
    <3> QED BY <1>1, <2>1, <3>1, IdentityOrder DEF NotNewer
  <2>4. ~Older(re, re) /\ NotNewer(question.id, question.id)
    BY <1>1, <2>1, IdentityOrder DEF NotNewer
  <2>5. \A k \in 1 .. Len(messages) : messages[k].author = "Player" => messages[k].re # re
    BY <1>1, <2>2 DEF TranscriptKnows
  <2>6. Known(re, text)'
    <3> HIDE DEF m
    <3> QED BY <2>2, <2>4, <2>5, KnownNow DEF TypeOK
  <2>7. (ui.pc = "request" => Known(ui.id, ui.text))'
    BY <1>6, <2>1, <2>6 DEF SubmitQuestion, Known, Asks
  <2>8. TranscriptKnows'
    <3> HIDE DEF m
    <3>1. m.re.session = session /\ m.re.seq <= sequence' /\ sequence' >= sequence
      BY <1>1, <2>2
    <3>2. m.re # question.id /\ ~Older(m.re, question.id)
      BY <1>1, <2>2, <2>3, <2>4
    <3>3. UNCHANGED <<session, question>>
      BY <1>6 DEF SubmitQuestion
    <3> QED BY <2>2, <2>7, <3>1, <3>2, <3>3, KnowsAfterMessage
  <2>9. ~Taken(re)
    <3>1. Working => NotNewer(job.id, question.id)
      BY DEF IInv, JobInv
    <3>2. NotNewer(answer.id, question.id)
      BY DEF IInv, AnswerInv
    <3>3. poll.pc = "apply" => NotNewer(poll.id, question.id)
      BY DEF IInv, PollThreadInv
    <3> QED BY <1>1, <1>3, <2>3, <3>1, <3>2, <3>3 DEF Taken
  <2>10. ModeInv'
    <3>1. UNCHANGED <<question, answer, session, poll>>
      BY <1>6 DEF SubmitQuestion
    <3>2. \A id : Taken(id)' => Taken(id)
      BY <3>1 DEF Taken, Working, daemonVars
    <3> HIDE DEF m
    <3>3. ~Taken(m.re)
      BY <2>2, <2>9
    <3> QED BY <2>2, <3>1, <3>2, <3>3, ModeAfterMessage
  <2> QED BY <2>8, <2>10
<1>7. CASE Send
  BY <1>6, <1>7 DEF Send
<1>8. CASE Retry
  BY <1>6, <1>8 DEF Retry, TypeOK, PluginTypeOK
<1>9. CASE WriteRequest
  <2>1. /\ ui.pc = "request" /\ question'.id = ui.id /\ question'.text = ui.text
        /\ UNCHANGED <<messages, session, sequence, answer, poll>> /\ ui'.pc = "idle"
    BY <1>9 DEF WriteRequest, Idle
  <2>2. Older(question.id, question'.id) /\ question'.id \in Identity
    BY <1>1, <2>1 DEF IInv, RenderThreadInv
  <2>3. \A id \in Identity : NotNewer(id, question.id) => NotNewer(id, question'.id)
    BY <1>1, <2>2, IdentityOrder DEF NotNewer
  <2>4. TranscriptKnows'
    BY <2>1 DEF TranscriptKnows, Known, Asks
  <2>5. \A k \in 1 .. Len(messages) : messages[k].re \in Identity
    <3> SUFFICES ASSUME NEW k \in 1 .. Len(messages) PROVE messages[k] \in Message
      BY DEF Message
    <3> QED BY DEF TypeOK, PluginTypeOK
  <2>6. \A id : Taken(id)' <=> Taken(id)
    BY <2>1 DEF Taken, Working, daemonVars
  <2>7. ASSUME NEW k \in 1 .. Len(messages), SwitchedOff(k)',
               Taken(messages[k].re)' \/ HasAnswer(k)'
        PROVE  /\ conversation.session = session /\ ~conversation.webEnabled
               /\ NotNewer(messages[k].re, question'.id)
    <3>1. SwitchedOff(k) /\ (Taken(messages[k].re) \/ HasAnswer(k))
      BY <2>1, <2>7 DEF SwitchedOff, HasAnswer, Taken, Working, daemonVars
    <3> QED BY <2>3, <2>5, <3>1 DEF ModeInv
  <2>8. NotNewer(conversation.pending.id, question'.id)
    BY <1>1, <1>3, <2>3
  <2>9. ModeInv'
    BY <2>1, <2>7, <2>8 DEF ModeInv, daemonVars
  <2> QED BY <2>4, <2>9
\* A reply is added.
<1>10. ASSUME NEW author \in {"Error", "Companion"}, NEW id \in Identity,
              AddMessage(Reply(author, id)), ui'.pc = "request" => ui' = ui,
              UNCHANGED <<session, sequence, question, answer>>,
              poll' = poll \/ poll'.pc # "apply",
              author = "Companion" => Taken(Last(messages).re)
       PROVE  WebInv'
  <2> DEFINE m == Reply(author, id)
  <2>1. m \in Message /\ m.author = author /\ m.author # "Player" /\ m.text = NoQuestion
    BY <1>10, RecordTypes DEF Reply, TypeOK
  <2>2. AddMessage(m)
    BY <1>10
  <2> HIDE DEF m
  <2>3. \A i, text : Known(i, text) => Known(i, text)'
    BY <2>1, <2>2, KnownStill DEF TypeOK
  <2>4. (ui.pc = "request" => Known(ui.id, ui.text))'
    <3> SUFFICES ASSUME ui'.pc = "request" PROVE Known(ui.id, ui.text)'
      OBVIOUS
    <3>1. PICK i, text : i = ui.id /\ text = ui.text
      OBVIOUS
    <3>2. Known(i, text)
      BY <1>10, <3>1 DEF TranscriptKnows, Known, Asks
    <3>3. Known(i, text)'
      BY <2>3, <3>2
    <3> QED BY <1>10, <3>1, <3>3 DEF Known, Asks
  <2>5. TranscriptKnows'
    BY <1>1, <1>10, <2>1, <2>2, <2>4, KnowsAfterMessage
  <2>6. \A i : Taken(i)' => Taken(i)
    BY <1>10 DEF Taken, Working, daemonVars
  <2>7. author = "Companion" => \A k \in 1 .. Len(messages) :
            k = Len(messages) => Taken(messages[k].re)
    BY <1>10 DEF Last
  <2>8. ModeInv'
    BY <1>10, <2>1, <2>2, <2>6, <2>7, ModeAfterMessage
  <2> QED BY <2>5, <2>8
<1>11. CASE RequestNotWritten \/ PollExpires
  <2>1. "Error" \in {"Error", "Companion"} /\ "Error" # "Companion"
    OBVIOUS
  <2>2. /\ AddMessage(Reply("Error", Current)) /\ (ui'.pc = "request" => ui' = ui)
        /\ UNCHANGED <<session, sequence, question, answer>>
        /\ poll' = poll \/ poll'.pc # "apply"
    BY <1>11 DEF RequestNotWritten, PollExpires, Idle, AtTop, Polling
  <2> QED BY <1>1, <1>10, <2>1, <2>2
<1>12. CASE PollDelivers
  <2>1. poll.id = Current /\ waiting /\ poll.response.body = Current
    BY <1>1, <1>12 DEF IInv, PollDelivers, PollThreadInv, Expected, StillCurrent, Identity
  <2>2. Last(messages).re = poll.id /\ poll.pc = "apply"
    BY <1>12, <2>1 DEF IInv, TranscriptInv, PlayerMessage, PollDelivers
  <2>3. Taken(Last(messages).re)
    BY <2>2 DEF Taken
  <2>4. PICK author \in {"Error", "Companion"} : AddMessage(Reply(author, Current))
    BY <1>12, <2>1 DEF PollDelivers
  <2>5. /\ ui' = ui /\ UNCHANGED <<session, sequence, question, answer>>
        /\ poll'.pc # "apply"
    BY <1>12 DEF PollDelivers, AtTop, Polling
  <2> QED BY <1>1, <1>10, <2>3, <2>4, <2>5
<1>13. CASE ResetConversation
  <2>1. /\ messages' = <<Welcome>> /\ session' = session + 1 /\ ui'.pc # "request"
        /\ UNCHANGED <<question, answer>>
    BY <1>13 DEF ResetConversation, Idle
  <2>2. TranscriptKnows'
    BY <1>1, <2>1 DEF TranscriptKnows, Known, Welcome, Reply
  <2>3. ModeInv'
    <3>1. \A k \in 1 .. Len(messages') : ~SwitchedOff(k)'
      <4>1. \A k \in 1 .. Len(messages') : messages'[k] = Welcome
        BY <2>1
      <4>2. Welcome.author # "Player"
        BY DEF Welcome, Reply
      <4> QED BY <4>1, <4>2 DEF SwitchedOff
    <3>2. UNCHANGED daemonVars
      OBVIOUS
    <3> QED BY <2>1, <3>1, <3>2 DEF ModeInv, daemonVars
  <2> QED BY <2>2, <2>3
<1> QED BY <1>5, <1>7, <1>8, <1>9, <1>11, <1>12, <1>13
    DEF PluginNext, Render, PollLoop, PollReads, PollApplies

(***************************************************************************)
(* The steps of the daemon.                                                *)
(***************************************************************************)
\* The question that turns on the web again stands below a /web off before it.
LEMMA TakeRequestMode ==
    ASSUME TypeOK, IInv, WebInv, TakeRequest, UNCHANGED pluginVars
    PROVE  ModeInv'
<1> USE DEF WebInv, bridgeVars, pluginVars, chatVars
<1> DEFINE q == question.id
           c == SwitchSession(conversation, q.session)
<1>1. /\ q \in Identity /\ session \in Nat /\ session > 0 /\ q # None
      /\ \A k \in 1 .. Len(messages) : messages[k] \in Message
  BY DEF TypeOK, PluginTypeOK, Question, TakeRequest, Unseen, TranscriptKnows
<1>2. /\ conversation' = [c EXCEPT !.webEnabled = Prefer(WebModeDirective(question.text), @)]
      /\ job'.id = q /\ daemon' = "capture" /\ UNCHANGED <<question, answer>>
      /\ UNCHANGED <<messages, session, poll>>
  BY DEF TakeRequest
<1>3. c \in Conversation /\ c.session = q.session
      /\ (c = conversation \/ c.pending.id = None)
      /\ (conversation.session = q.session => c = conversation)
  BY <1>1 DEF SwitchSession, Fresh, TypeOK, DaemonTypeOK, Conversation, PendingAnswer,
     NoPending, None, Identity
<1>4. /\ conversation'.session = q.session /\ conversation'.pending = c.pending
      /\ conversation'.webEnabled = Prefer(WebModeDirective(question.text), c.webEnabled)
  <2> HIDE DEF c
  <2> QED BY <1>2, <1>3 DEF Conversation
<1> HIDE DEF c
<1>5. NotNewer(c.pending.id, q)
  BY <1>1, <1>3, IdentityOrder DEF ModeInv
<1>6. ASSUME NEW k \in 1 .. Len(messages), SwitchedOff(k),
             Taken(messages[k].re)' \/ HasAnswer(k)
      PROVE  /\ q.session = session /\ ~Prefer(WebModeDirective(question.text), c.webEnabled)
             /\ NotNewer(messages[k].re, q)
  <2> DEFINE re == messages[k].re
  <2>1. /\ messages[k].author = "Player" /\ messages[k].text = "web off"
        /\ re \in Identity /\ re.session = session
    BY <1>1, <1>6 DEF SwitchedOff, TranscriptKnows, Message
  <2>2. CASE re = q
    <3>1. question.text = "web off"
      BY <2>1, <2>2 DEF TranscriptKnows, Known
    <3>2. WebModeDirective(question.text) = {FALSE}
      BY <3>1 DEF WebModeDirective
    <3> QED BY <2>1, <2>2, <3>2 DEF Prefer, NotNewer
  <2>3. CASE re # q
    <3>1. re # None
      <4>1. None.session = 0
        BY DEF None
      <4>2. session # 0
        BY <1>1
      <4> QED BY <2>1, <4>1, <4>2
    <3>2. Taken(messages[k].re)' => Taken(re)
      BY <1>2, <1>3, <1>4, <2>3, <3>1 DEF Taken, Working
    <3>3. conversation.session = session /\ ~conversation.webEnabled /\ NotNewer(re, q)
      BY <1>6, <3>2 DEF ModeInv
    <3>4. Older(re, q)
      BY <2>3, <3>3 DEF NotNewer
    <3>5. q.session = session
      <4>1. NotNewer(q, Current)
        BY DEF IInv, RenderThreadInv
      <4>2. q.session \in Nat /\ Current.session = session
        BY <1>1 DEF Identity, Current
      <4>3. session <= q.session
        <5>1. session < q.session \/ session = q.session
          BY <2>1, <3>4 DEF Older
        <5>2. session \in Nat
          BY <1>1
        <5> QED BY <4>2, <5>1, <5>2
      <4>4. q.session <= session
        BY <1>1, <4>1, <4>2 DEF Older, NotNewer
      <4> QED BY <1>1, <4>2, <4>3, <4>4
    <3>6. question.text # "web on"
      <4>1. PICK j \in k + 1 .. Len(messages) : Asks(j, q)
        BY <2>1, <3>4 DEF TranscriptKnows, Known
      <4>2. j \in 1 .. Len(messages)
        BY <4>1
      <4>3. messages[j].text = question.text
        BY <4>1, <4>2 DEF TranscriptKnows, Known, Asks
      <4> QED BY <1>6, <4>1, <4>3 DEF SwitchedOff
    <3>7. c.webEnabled = FALSE
      BY <1>3, <3>3, <3>5 DEF Conversation
    <3> QED BY <3>3, <3>5, <3>6, <3>7 DEF Prefer, WebModeDirective
  <2> QED BY <2>2, <2>3
<1>7. \A k \in 1 .. Len(messages) :
        /\ SwitchedOff(k)' = SwitchedOff(k) /\ HasAnswer(k)' = HasAnswer(k)
  BY <1>2 DEF SwitchedOff, HasAnswer
<1> QED BY <1>2, <1>4, <1>5, <1>6, <1>7 DEF ModeInv

LEMMA WebDaemonNext ==
    ASSUME TypeOK, TypeOK', IInv, WebInv, MaxCrashes = 0, DaemonNext, UNCHANGED pluginVars
    PROVE  WebInv'
<1> USE DEF WebInv, bridgeVars
<1>1. UNCHANGED <<messages, session, sequence, ui, poll>>
  BY DEF pluginVars, chatVars
<1>2. sequence' >= sequence
  BY <1>1 DEF TypeOK, PluginTypeOK
<1>3. UNCHANGED question => TranscriptKnows'
  BY <1>1, <1>2, KnowsUndisturbed
<1>4. /\ conversation \in Conversation /\ job \in Job /\ crashes \in Nat
      /\ NotNewer(conversation.pending.id, question.id)
      /\ Working => NotNewer(job.id, question.id)
  BY DEF TypeOK, DaemonTypeOK, ModeInv, IInv, JobInv
\* Most steps switch no mode, and take nothing.
<1>5. ASSUME UNCHANGED question,
             conversation'.session = conversation.session,
             conversation'.webEnabled = conversation.webEnabled,
             conversation'.pending.id \in {conversation.pending.id, None} \cup
                (IF Working THEN {job.id} ELSE {}),
             answer' = answer \/ (Working /\ answer'.id = job.id),
             daemon' \in {"poll", "down"} \/ (Working /\ job'.id = job.id)
      PROVE  /\ NotNewer(conversation'.pending.id, question.id)
             /\ \A k \in 1 .. Len(messages) :
                    SwitchedOff(k) /\ Taken(messages[k].re)' => Taken(messages[k].re)
             /\ (daemon' = "asking" => daemon = "asking" /\ job' = job) => WebInv'
  <2>1. NotNewer(conversation'.pending.id, question.id)
    <3>1. NotNewer(None, question.id)
      BY IdentityOrder DEF TypeOK, Question
    <3> QED BY <1>4, <1>5, <3>1
  <2>2. \A k \in 1 .. Len(messages) :
            SwitchedOff(k) /\ Taken(messages[k].re)' => Taken(messages[k].re)
    <3>1. \A k \in 1 .. Len(messages) : SwitchedOff(k) => messages[k].re # None
      <4>1. None.session = 0
        BY DEF None
      <4>2. session # 0
        <5>1. session \in Nat /\ session > 0
          BY DEF TypeOK, PluginTypeOK, TranscriptKnows
        <5> QED BY <5>1
      <4> QED BY <4>1, <4>2 DEF SwitchedOff, TranscriptKnows
    <3> QED BY <1>1, <1>5, <3>1 DEF Taken, Working
  <2> QED BY <1>1, <1>3, <1>5, <2>1, <2>2, ModeUndisturbed
<1>6. CASE DaemonStart \/ DaemonStartsBlind
  BY <1>5, <1>6 DEF DaemonStart, DaemonStartsBlind, Start
<1>7. CASE TakeRequest
  <2>1. UNCHANGED question
    BY <1>7 DEF TakeRequest
  <2> QED BY <1>3, <1>7, <2>1, TakeRequestMode
<1>8. CASE RetryPublishing
  <2>1. question.id # None /\ UNCHANGED <<question, answer>>
        /\ daemon' = "publish" /\ job'.id = question.id
    BY <1>8 DEF RetryPublishing, Unseen
  <2>2. conversation' = conversation /\ conversation.pending.id = question.id
    BY <1>8, <2>1 DEF RetryPublishing, SwitchSession, IsPending, Fresh, NoPending
  <2>3. \A k \in 1 .. Len(messages) : Taken(messages[k].re)' => Taken(messages[k].re)
    BY <1>1, <2>1, <2>2 DEF Taken, Working
  <2>4. ModeInv'
    BY <1>1, <1>4, <2>1, <2>2, <2>3, ModeUndisturbed
  <2> QED BY <1>3, <2>1, <2>4
<1>9. CASE CaptureSucceeds
  <2>1. /\ daemon = "capture" /\ UNCHANGED <<question, answer, conversation>>
        /\ job'.id = job.id /\ job'.text = job.text
        /\ job'.web = Prefer(ExplicitWebPreference(job.text), conversation.webEnabled)
    BY <1>4, <1>9 DEF CaptureSucceeds, Job
  <2>2. \A k \in 1 .. Len(messages) : Taken(messages[k].re)' => Taken(messages[k].re)
    BY <1>1, <2>1 DEF Taken, Working
  <2>3. ExplicitWebPreference(job'.text) = {} => (job'.web => conversation'.webEnabled)
    BY <2>1 DEF Prefer
  <2>4. ModeInv'
    BY <1>1, <1>4, <2>1, <2>2, <2>3 DEF ModeInv, SwitchedOff, HasAnswer
  <2> QED BY <1>3, <2>1, <2>4
<1>10. ASSUME NEW pending, pending.id = job.id, Working, Compose(pending)
       PROVE  WebInv'
  <2>1. /\ conversation'.session = conversation.session
        /\ conversation'.webEnabled = conversation.webEnabled
        /\ conversation'.pending = pending /\ daemon' = "publish"
        /\ UNCHANGED <<question, answer, job>>
    BY <1>4, <1>10 DEF Compose, Conversation
  <2> QED BY <1>5, <1>10, <2>1
<1>11. CASE CaptureFails \/ AskFails \/ AskCanceled
  BY <1>10, <1>11 DEF CaptureFails, AskFails, AskCanceled, Failure, Working
<1>12. CASE AskSucceeds
  BY <1>10, <1>12 DEF AskSucceeds, Working
<1>13. CASE AskAgainOffline
  <2>1. /\ daemon = "asking" /\ UNCHANGED <<question, answer, conversation, daemon>>
        /\ job'.id = job.id /\ job'.web = FALSE
    BY <1>4, <1>13 DEF AskAgainOffline, Job
  <2>2. \A k \in 1 .. Len(messages) : Taken(messages[k].re)' => Taken(messages[k].re)
    BY <1>1, <2>1 DEF Taken, Working
  <2>3. ModeInv'
    BY <1>1, <1>4, <2>1, <2>2 DEF ModeInv, SwitchedOff, HasAnswer
  <2> QED BY <1>3, <2>1, <2>3
<1>14. CASE Publish
  <2>1. /\ conversation'.session = conversation.session
        /\ conversation'.webEnabled = conversation.webEnabled
        /\ conversation'.pending.id \in {conversation.pending.id, None}
        /\ answer'.id = job.id /\ Working /\ daemon' = "poll" /\ UNCHANGED question
    BY <1>4, <1>14 DEF Publish, Conversation, Working, NoPending
  <2> QED BY <1>5, <2>1
<1>15. CASE AnswerInternalError \/ TransientError \/ UnexpectedError
  <2>1. /\ UNCHANGED <<question, conversation>> /\ Working
        /\ answer' = answer \/ answer'.id = job.id
        /\ daemon' = "poll" \/ (daemon' = "internal" /\ job' = job)
    BY <1>15 DEF AnswerInternalError, TransientError, UnexpectedError, Working
  <2> QED BY <1>5, <2>1
<1>16. CASE DaemonCrash
  BY <1>4, <1>16 DEF DaemonCrash
<1> QED
  BY <1>6, <1>7, <1>8, <1>9, <1>11, <1>12, <1>13, <1>14, <1>15, <1>16
  DEF DaemonNext, Capture, Ask, WriteAnswer
(***************************************************************************)
(* The property.                                                           *)
(***************************************************************************)
LEMMA WebInit == Init => WebInv
<1> SUFFICES ASSUME Init PROVE WebInv
  OBVIOUS
<1> USE DEF Init, BridgeInit, PluginInit, DaemonInit
<1>1. \A k \in 1 .. Len(messages) : messages[k] = Welcome
  OBVIOUS
<1>2. Welcome.author = "Companion" /\ Welcome.text = NoQuestion
  BY DEF Welcome, Reply
<1>3. TranscriptKnows
  BY <1>1, <1>2 DEF TranscriptKnows, Known, Idle
<1>4. ModeInv
  BY <1>1, <1>2 DEF ModeInv, SwitchedOff, Fresh, NoPending, NotNewer
<1> QED BY <1>3, <1>4 DEF WebInv

LEMMA WebRestart ==
    ASSUME TypeOK, WebInv, GameRestart PROVE WebInv'
<1>1. /\ \A k \in 1 .. Len(messages') : messages'[k] = Welcome
      /\ session' = session + 1 /\ ui'.pc = "idle" /\ UNCHANGED question
      /\ daemon' = "down" /\ conversation'.pending.id = None
  BY DEF GameRestart, Idle, Stop, Fresh, NoPending, bridgeVars
<1>2. Welcome.author = "Companion" /\ Welcome.text = NoQuestion
  BY DEF Welcome, Reply
<1>3. session' > 0
  BY <1>1 DEF TypeOK, PluginTypeOK
<1>4. TranscriptKnows'
  BY <1>1, <1>2, <1>3 DEF TranscriptKnows, Known
<1>5. NotNewer(None, question.id)
  BY IdentityOrder DEF TypeOK, Question
<1>6. \A k \in 1 .. Len(messages') : ~SwitchedOff(k)'
  BY <1>1, <1>2 DEF SwitchedOff
<1>7. ModeInv'
  BY <1>1, <1>5, <1>6 DEF ModeInv
<1> QED BY <1>4, <1>7 DEF WebInv

\* README.md: "/web off keeps the current chat offline".  While the daemon does not
\* crash, an answered /web off holds until the next /web on.
THEOREM WebOffIsKept ==
    ASSUME MaxCrashes = 0 PROVE Spec => []WebOffKeepsChatOffline
<1>1. TypeOK /\ TypeOK' /\ IInv /\ WebInv /\ [Next]_vars => WebInv'
  <2> SUFFICES ASSUME TypeOK, TypeOK', IInv, WebInv, [Next]_vars PROVE WebInv'
    OBVIOUS
  <2>1. CASE UNCHANGED vars
    <3>1. TranscriptKnows'
      BY <2>1 DEF vars, pluginVars, chatVars, bridgeVars, WebInv, TranscriptKnows, Known, Asks
    <3>2. ModeInv'
      BY <2>1 DEF vars, pluginVars, chatVars, bridgeVars, daemonVars, WebInv, ModeInv,
         SwitchedOff, HasAnswer, Taken, Working
    <3> QED BY <3>1, <3>2 DEF WebInv
  <2> QED BY <2>1, WebPluginNext, WebDaemonNext, WebRestart DEF Next
<1>2. TypeOK => \A i \in 1 .. Len(messages) - 1 : i \in 1 .. Len(messages) /\ i < Len(messages)
  BY DEF TypeOK, PluginTypeOK
<1>3. TypeOK /\ WebInv => WebOffKeepsChatOffline
  <2> SUFFICES ASSUME TypeOK, WebInv, NEW i \in 1 .. Len(messages) - 1,
                      messages[i].text = "web off", messages[i + 1].author = "Companion",
                      \A j \in i + 1 .. Len(messages) : messages[j].text # "web on",
                      daemon = "asking", ExplicitWebPreference(job.text) = {}
               PROVE  ~job.web
    BY DEF WebOffKeepsChatOffline
  <2>1. i \in 1 .. Len(messages) /\ i < Len(messages)
    BY <1>2
  <2>2. messages[i].author = "Player"
    BY <2>1, QuestionsAssumption DEF WebInv, TranscriptKnows
  <2>3. SwitchedOff(i) /\ HasAnswer(i)
    BY <2>1, <2>2 DEF SwitchedOff, HasAnswer
  <2> QED BY <2>1, <2>3 DEF WebInv, ModeInv
<1> QED
  BY <1>1, <1>3, WebInit, TypeCorrect, Inductive, PTL DEF Spec
=============================================================================
