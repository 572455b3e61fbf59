-------------------------- MODULE CompanionDaemon --------------------------
(***************************************************************************)
(* The companion daemon (daemon.py with ai_backend.py and screenshot.py).  *)
(* One thread polls question.txt; for a request it has not answered it     *)
(* takes a screenshot, asks Claude, publishes answer.txt and only then     *)
(* remembers the request as seen.  A failed write is retried at the next   *)
(* poll with the answer that was already composed.                         *)
(***************************************************************************)
EXTENDS BridgeFiles

CONSTANTS
    HistoryTurns,   \* MAX_HISTORY_TURNS (6)
    FlakyReads,     \* the two reads at start-up may fail
    MaxCrashes      \* bound: daemon crashes

ASSUME DaemonAssumption ==
    HistoryTurns \in Nat \ {0} /\ FlakyReads \in BOOLEAN /\ MaxCrashes \in Nat

VARIABLES
    daemon,         \* where the daemon is in its loop
    seen,           \* seen_request
    conversation,   \* the Conversation object
    job,            \* the request that process_request works on
    crashes

daemonVars == <<daemon, seen, conversation, job, crashes>>

Working == daemon \in {"capture", "asking", "publish", "internal"}

(***************************************************************************)
(* The questions told apart are those that change the use of web tools:    *)
(*   "web on", "web off"   start with the directive /web on or /web off    *)
(*   "search", "no web"    hold a phrase that opts in or out once          *)
(***************************************************************************)
\* Mutant of WebModeDirective: the mode cannot be switched off.
DirectiveOnlyOn(text) == IF text = "web on" THEN {TRUE} ELSE {}

WebModeDirective(text) ==
    CASE text = "web on"  -> {TRUE}
      [] text = "web off" -> {FALSE}
      [] OTHER -> {}

ExplicitWebPreference(text) ==
    CASE text = "search" -> {TRUE}
      [] text = "no web" -> {FALSE}
      [] OTHER -> WebModeDirective(text)

\* The value a question asks for, or the default when it asks for none.
Prefer(preference, default) ==
    (preference = {} /\ default) \/ TRUE \in preference

(***************************************************************************)
(* The conversation.                                                       *)
(***************************************************************************)
PendingAnswer == [id : Identity, error : BOOLEAN, remember : BOOLEAN]
NoPending == [id |-> None, error |-> FALSE, remember |-> FALSE]

Conversation == [session : Nat, history : Seq(Identity), webEnabled : BOOLEAN,
                 pending : PendingAnswer]

Failure(id) == [id |-> id, error |-> TRUE, remember |-> FALSE]

Fresh(s) ==
    [session |-> s, history |-> <<>>, webEnabled |-> TRUE, pending |-> NoPending]

\* Session ids are never empty, so no session has number 0.
NoSession == 0

\* Mutant of SwitchSession: the history is not cleared.
SwitchKeepsHistory(c, s) == [c EXCEPT !.session = s]

SwitchSession(c, s) == IF c.session = s THEN c ELSE Fresh(s)

\* A turn is named after its request.
AddTurn(history, id) == KeepLast(Append(history, id), HistoryTurns)

Remember(c, pending) ==
    IF pending.remember THEN AddTurn(c.history, pending.id) ELSE c.history

Job == [id : Identity, text : Questions \cup {NoQuestion}, web : BOOLEAN]
NoJob == [id |-> None, text |-> NoQuestion, web |-> FALSE]

DaemonInit ==
    /\ daemon = "down"
    /\ seen = None
    /\ conversation = Fresh(NoSession)
    /\ job = NoJob
    /\ crashes = 0

---------------------------------------------------------------------------
NothingSeenAtStart == None              \* mutant of SeenAtStart: no comparison
SeenUnanswered == question.id           \* mutant of SeenAtStart: answer not read
\* A request whose answer is on disk was handled by an earlier process.
SeenAtStart == IF question.id = answer.id THEN question.id ELSE None

Start(s) ==
    /\ daemon = "down"
    /\ daemon' = "poll"
    /\ seen' = s
    /\ UNCHANGED <<conversation, job, crashes, bridgeVars>>

DaemonStart == Start(SeenAtStart)

\* question.txt or answer.txt could not be read, which counts as absent.
DaemonStartsBlind == FlakyReads /\ Start(None)

HasPending(c, id) == c.pending.id # None    \* mutant of IsPending: not compared
\* The identity of the pending answer decides whether it can be reused.
IsPending(c, id) == c.pending.id = id

Unseen(id) == id # None /\ id # seen

\* The loop of main finds a request it has not seen; process_request switches
\* to its session, and handle decides whether an answer is already at hand.
TakeRequest ==
    /\ daemon = "poll"
    /\ Unseen(question.id)
    /\ LET c == SwitchSession(conversation, question.id.session) IN
        /\ ~IsPending(c, question.id)
        /\ conversation' =
            [c EXCEPT !.webEnabled = Prefer(WebModeDirective(question.text), @)]
    /\ job' = [id |-> question.id, text |-> question.text, web |-> FALSE]
    /\ daemon' = "capture"
    /\ UNCHANGED <<seen, crashes, bridgeVars>>

RetryPublishing ==
    /\ daemon = "poll"
    /\ Unseen(question.id)
    /\ LET c == SwitchSession(conversation, question.id.session) IN
        /\ IsPending(c, question.id)
        /\ conversation' = c
    /\ job' = [id |-> question.id, text |-> question.text, web |-> FALSE]
    /\ daemon' = "publish"
    /\ UNCHANGED <<seen, crashes, bridgeVars>>

\* The screenshot is there; ask chooses the tools of the first attempt.
CaptureSucceeds ==
    /\ daemon = "capture"
    /\ job' = [job EXCEPT !.web =
                Prefer(ExplicitWebPreference(job.text), conversation.webEnabled)]
    /\ daemon' = "asking"
    /\ UNCHANGED <<seen, conversation, crashes, bridgeVars>>

Compose(pending) ==
    /\ conversation' = [conversation EXCEPT !.pending = pending]
    /\ daemon' = "publish"
    /\ UNCHANGED <<seen, job, crashes, bridgeVars>>

\* ScreenshotError
CaptureFails == daemon = "capture" /\ Compose(Failure(job.id))

\* An answer from Claude.  Web material never enters the history.
AskSucceeds ==
    /\ daemon = "asking"
    /\ \E usedWeb \in {FALSE, job.web} :
        Compose([id |-> job.id, error |-> FALSE, remember |-> ~usedWeb])

\* AIError: a timeout, a failing CLI, or output that does not validate.
AskFails == daemon = "asking" /\ Compose(Failure(job.id))

CancellationRequested(id) == cancel = id

\* RequestCanceled, raised by the loop that watches the Claude process.
AskCanceled ==
    /\ daemon = "asking"
    /\ CancellationRequested(job.id)
    /\ Compose(Failure(job.id))

\* Output that does not validate is asked for once more, without web tools,
\* unless the question itself said which tools it wants.
AskAgainOffline ==
    /\ daemon = "asking"
    /\ job.web
    /\ ExplicitWebPreference(job.text) = {}
    /\ job' = [job EXCEPT !.web = FALSE]
    /\ UNCHANGED <<daemon, seen, conversation, crashes, bridgeVars>>

\* write_answer, then the rest of handle, then seen_request in main.
Publish ==
    /\ daemon = "publish"
    /\ answer' = [id |-> job.id, error |-> conversation.pending.error,
                  body |-> conversation.pending.id]
    /\ conversation' =
        [conversation EXCEPT !.history = Remember(conversation, conversation.pending),
                             !.pending = NoPending]
    /\ seen' = job.id
    /\ job' = NoJob
    /\ daemon' = "poll"
    /\ UNCHANGED <<crashes, question, cancel>>

\* OSError anywhere in process_request: False, so the request stays unseen.
TransientError ==
    /\ Working
    /\ job' = NoJob
    /\ daemon' = "poll"
    /\ UNCHANGED <<seen, conversation, crashes, bridgeVars>>

\* Any other exception; write_answer itself may raise one (UnicodeEncodeError).
UnexpectedError ==
    /\ daemon \in {"capture", "asking", "publish"}
    /\ daemon' = "internal"
    /\ UNCHANGED <<seen, conversation, job, crashes, bridgeVars>>

\* "Internal daemon error. Please retry."  The pending answer is left alone.
AnswerInternalError ==
    /\ daemon = "internal"
    /\ answer' = [id |-> job.id, error |-> TRUE, body |-> job.id]
    /\ seen' = job.id
    /\ job' = NoJob
    /\ daemon' = "poll"
    /\ UNCHANGED <<conversation, crashes, question, cancel>>

\* The process ends; everything but the files is lost.
Stop ==
    /\ daemon' = "down"
    /\ seen' = None
    /\ conversation' = Fresh(NoSession)
    /\ job' = NoJob

\* The launcher starts the daemon again while the game runs.
DaemonCrash ==
    /\ daemon # "down"
    /\ crashes < MaxCrashes
    /\ crashes' = crashes + 1
    /\ Stop
    /\ UNCHANGED bridgeVars

---------------------------------------------------------------------------
Capture == CaptureSucceeds \/ CaptureFails
Ask == AskSucceeds \/ AskFails \/ AskCanceled
WriteAnswer == Publish \/ AnswerInternalError

DaemonNext ==
    \/ DaemonStart \/ DaemonStartsBlind
    \/ TakeRequest \/ RetryPublishing
    \/ Capture \/ Ask \/ AskAgainOffline
    \/ WriteAnswer
    \/ TransientError \/ UnexpectedError
    \/ DaemonCrash

DaemonTypeOK ==
    /\ daemon \in {"down", "poll", "capture", "asking", "publish", "internal"}
    /\ seen \in Identity
    /\ conversation \in Conversation
    /\ Len(conversation.history) <= HistoryTurns
    /\ job \in Job
    /\ crashes \in Nat
=============================================================================
