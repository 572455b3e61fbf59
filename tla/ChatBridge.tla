----------------------------- MODULE ChatBridge -----------------------------
(***************************************************************************)
(* The plugin and the daemon joined by the bridge directory.  They share    *)
(* nothing but the three files, either may be restarted at any moment, and *)
(* the files outlive both.                                                 *)
(***************************************************************************)
EXTENDS PluginChat, CompanionDaemon, SequencesExt

vars == <<bridgeVars, pluginVars, daemonVars>>

Init == BridgeInit /\ PluginInit /\ DaemonInit

\* The game ends, at any point of either thread, and is launched again.  The
\* launcher stops the daemon with it; PluginInit opens a new chat.
GameRestart ==
    /\ session < MaxSessions
    /\ session' = session + 1 /\ sequence' = 1
    /\ messages' = <<Welcome>>
    /\ waiting' = FALSE /\ canRetry' = FALSE
    /\ lastQuestion' = NoQuestion
    /\ overdue' = 0
    /\ ui' = Idle
    /\ poll' = AtTop
    /\ Stop
    /\ UNCHANGED <<crashes, bridgeVars>>

Next ==
    \/ PluginNext /\ UNCHANGED daemonVars
    \/ DaemonNext /\ UNCHANGED pluginVars
    \/ GameRestart

Spec == Init /\ [][Next]_vars

(***************************************************************************)
(* Fairness.  The threads keep running and time passes (WF).  A read of     *)
(* answer.txt that throws, and an OSError in the daemon, may happen any    *)
(* number of times but not forever: the step that succeeds, being possible *)
(* again and again, is taken (SF).  The render thread is the player's.      *)
(***************************************************************************)
PluginFairness ==
    /\ WF_vars(TimePasses /\ UNCHANGED daemonVars)
    /\ WF_vars((PollSnapshot \/ PollApplies) /\ UNCHANGED daemonVars)
    /\ SF_vars(PollReads /\ UNCHANGED daemonVars)

DaemonFairness ==
    /\ WF_vars((DaemonStart \/ TakeRequest \/ RetryPublishing) /\ UNCHANGED pluginVars)
    /\ SF_vars(Capture /\ UNCHANGED pluginVars)
    /\ SF_vars(Ask /\ UNCHANGED pluginVars)
    /\ SF_vars(WriteAnswer /\ UNCHANGED pluginVars)

FairSpec == Spec /\ PluginFairness /\ DaemonFairness

---------------------------------------------------------------------------
TypeOK ==
    /\ question \in Question /\ answer \in Answer /\ cancel \in Identity
    /\ PluginTypeOK
    /\ DaemonTypeOK

\* A reply comes right after the question it is to, or after an error about
\* that same question; nothing follows an answer but the next question.  So no
\* late, canceled or foreign answer is ever shown under another question, and
\* no question gets a second answer.  (The second check of PollLoop under the
\* mutex, the identity in answer.txt, and handle's pending answer.)
AnswersFollowTheirQuestion ==
    \A i \in 2 .. Len(messages) :
        messages[i].author # "Player" =>
            /\ messages[i].re = messages[i - 1].re
            /\ messages[i - 1].author # "Companion"

\* While nothing is outstanding and the last word is not an answer, the Retry
\* button is there, and it repeats the question shown last.  (The flags set by
\* SubmitQuestion, CancelWaiting and both branches of PollLoop.)
RetryRepeatsTheLastQuestion ==
    /\ ~waiting /\ Last(messages).author # "Companion" => canRetry
    /\ canRetry =>
        \E i \in 1 .. Len(messages) :
            /\ messages[i].author = "Player" /\ messages[i].text = lastQuestion
            /\ \A j \in i + 1 .. Len(messages) : messages[j].author # "Player"

\* A cancellation on disk never names the request the player waits for: the
\* daemon cannot take an earlier Cancel for one of a retried question.
CancelSparesTheLiveRequest == waiting => ~CancellationRequested(Current)

\* The text published under an identity was composed for that identity, also
\* when the write was retried after the player had moved on.
AnswerBelongsToItsRequest == answer.body = answer.id

\* While the daemon works on a request, the history it sends to Claude holds
\* only earlier turns of the same chat, each once and in order, and each of
\* them was published (switch_session, handle).
NoCrossChatContext ==
    Working =>
        /\ conversation.session = job.id.session
        /\ \A i \in 1 .. Len(conversation.history) :
            /\ conversation.history[i].session = job.id.session
            /\ Older(conversation.history[i], job.id)
            /\ NotNewer(conversation.history[i], answer.id)
            /\ i > 1 => Older(conversation.history[i - 1], conversation.history[i])

\* The daemon takes a request for handled only if its answer is on disk.
SeenIsOnDisk == seen # None => seen = answer.id

\* No request whose answer is on disk is worked on again, not even after the
\* daemon or the game was restarted (provided the reads at start-up succeed).
NoWorkForPublishedAnswer == Working => job.id # answer.id

\* answer.txt only ever moves on to a newer request.
PublishedInOrder == [][answer' # answer => Older(answer.id, answer'.id)]_answer

\* README.md: "/web off keeps the current chat offline".  Once the chat has an
\* answer to a /web off question and no /web on question since, Claude is given
\* web tools only for a question that asks for them itself.
WebOffKeepsChatOffline ==
    \A i \in 1 .. Len(messages) - 1 :
        /\ messages[i].text = "web off"
        /\ messages[i + 1].author = "Companion"
        /\ \A j \in i + 1 .. Len(messages) : messages[j].text # "web on"
        /\ daemon = "asking" /\ job.id.session = session
        /\ ExplicitWebPreference(job.text) = {}
        => ~job.web

---------------------------------------------------------------------------
\* A question does not stay outstanding forever, whatever fails: it is
\* answered, canceled or expires (PollLoop's timeout).
WaitingEnds == waiting ~> ~waiting

\* A question on disk is answered unless the player replaces it, despite
\* transient errors and restarts of the daemon.  (The first question is number 2.)
QuestionIsAnswered ==
    \A id \in [seq : 2 .. MaxSequence, session : 1 .. MaxSessions] :
        question.id = id ~> answer.id = id \/ question.id # id

---------------------------------------------------------------------------
(***************************************************************************)
(* The inductive invariant.  Identities only move forward along the path    *)
(* of a request (Current, question.txt, the daemon's job, answer.txt, seen, *)
(* the history), which is what makes a comparison of identities enough.    *)
(***************************************************************************)
RenderThreadInv ==
    /\ Older(cancel, Current)
    /\ ui.pc = "cancel" => Older(ui.id, Current)
    /\ ui.pc = "request" => ui.id = Current /\ Older(question.id, Current)
    /\ NotNewer(question.id, Current)

TranscriptInv ==
    /\ waiting => Last(messages) = PlayerMessage(Current, Last(messages).text)
    /\ ui.pc = "request" =>
        Last(messages).re = Current /\ Last(messages).author # "Companion"
    /\ AnswersFollowTheirQuestion

PollThreadInv ==
    /\ poll.pc # "top" => poll.id = Current \/ poll.id.seq < sequence
    /\ poll.pc = "apply" =>
        /\ poll.response.body = poll.id
        /\ NotNewer(poll.id, question.id)

AnswerInv ==
    /\ AnswerBelongsToItsRequest
    /\ NotNewer(answer.id, question.id)
    /\ SeenIsOnDisk

JobInv ==
    /\ daemon = "down" => seen = None
    /\ Working =>
        /\ conversation.session = job.id.session
        /\ Older(seen, job.id)
        /\ NotNewer(answer.id, job.id)
        /\ NotNewer(job.id, question.id)
    /\ daemon = "publish" => conversation.pending.id = job.id

HistoryInv ==
    \A i \in 1 .. Len(conversation.history) :
        /\ conversation.history[i].session = conversation.session
        /\ NotNewer(conversation.history[i], seen)
        /\ i > 1 => Older(conversation.history[i - 1], conversation.history[i])

IInv ==
    /\ RenderThreadInv /\ TranscriptInv /\ PollThreadInv
    /\ AnswerInv /\ JobInv /\ HistoryInv

\* When the reads at start-up succeed, a daemon that has seen nothing has no
\* answer to the question on disk.
FirstTimeInv ==
    ~FlakyReads =>
        /\ daemon # "down" /\ seen = None =>
            answer.id = None \/ Older(answer.id, question.id)
        /\ Working => Older(answer.id, job.id)

\* The question shown last is the last message but k.
Asked(k) ==
    /\ k < Len(messages)
    /\ messages[Len(messages) - k].author = "Player"
    /\ messages[Len(messages) - k].text = lastQuestion
    /\ \A j \in Len(messages) - k + 1 .. Len(messages) : messages[j].author # "Player"

\* Two errors at most follow a question: its wait expired, and its file could not
\* be written, in either order.
RetryInv ==
    /\ ~waiting /\ Last(messages).author # "Companion" => canRetry
    /\ waiting => Asked(0)
    /\ ui.pc = "request" => Asked(0) \/ Asked(1)
    /\ canRetry => Asked(0) \/ Asked(1) \/ Asked(2)

(***************************************************************************)
(* The invariant of /web off, for MaxCrashes = 0.  The transcript knows the *)
(* text of the question on disk, so whatever the daemon takes after /web    *)
(* off, a /web on among it stands below the /web off.                      *)
(***************************************************************************)
Asks(k, id) == messages[k].author = "Player" /\ messages[k].re = id

Known(id, text) ==
    \A k \in 1 .. Len(messages) : messages[k].author = "Player" =>
        /\ messages[k].re = id => messages[k].text = text
        /\ Older(messages[k].re, id) => \E j \in k + 1 .. Len(messages) : Asks(j, id)

SwitchedOff(k) ==
    /\ messages[k].author = "Player" /\ messages[k].text = "web off"
    /\ \A j \in k + 1 .. Len(messages) : messages[j].text # "web on"

\* The daemon has taken this request: it or its answer is on its way.
Taken(id) ==
    \/ Working /\ job.id = id
    \/ conversation.pending.id = id
    \/ answer.id = id
    \/ poll.pc = "apply" /\ poll.id = id
HasAnswer(k) == k < Len(messages) /\ messages[k + 1].author = "Companion"

TranscriptKnows ==
    /\ session > 0
    /\ \A k \in 1 .. Len(messages) :
        IF messages[k].author = "Player"
        THEN messages[k].re.session = session /\ messages[k].re.seq <= sequence
        ELSE messages[k].text = NoQuestion
    /\ Known(question.id, question.text)
    /\ ui.pc = "request" => Known(ui.id, ui.text)

ModeInv ==
    /\ NotNewer(conversation.pending.id, question.id)
    /\ daemon = "asking" /\ ExplicitWebPreference(job.text) = {} =>
        (job.web => conversation.webEnabled)
    /\ \A k \in 1 .. Len(messages) :
        SwitchedOff(k) /\ (Taken(messages[k].re) \/ HasAnswer(k)) =>
            /\ conversation.session = session /\ ~conversation.webEnabled
            /\ NotNewer(messages[k].re, question.id)

WebInv == TranscriptKnows /\ ModeInv

---------------------------------------------------------------------------
Service == INSTANCE ChatService WITH
    transcript <- messages,
    outstanding <- IF waiting THEN Current ELSE None,
    issued <- Current

\* The two processes implement the service.
ImplementsService == Service!Spec
=============================================================================
