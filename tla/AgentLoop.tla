------------------------------ MODULE AgentLoop ------------------------------
(***************************************************************************)
(* The send loop of the onscreen agent                                     *)
(* (app/L0/_all/mod/_core/onscreen_agent/store.js): the composer and its   *)
(* queue, the series of turns a submission starts, stop, history           *)
(* compaction, clearing the chat and the rerun of an execution block.      *)
(*                                                                         *)
(* Everything runs in one browser thread; each step below is what runs     *)
(* between two awaits.  The flag isSending is all that keeps two jobs      *)
(* apart, and some jobs look at it before an await and set it after.       *)
(***************************************************************************)
EXTENDS Integers, Sequences, SequencesExt

CONSTANTS
  Tasks,          \* calls of submitMessage that may be under way
  None,
  MaxTexts,       \* bound on the texts the user types
  MaxRetries,     \* MAX_PROTOCOL_RETRY_COUNT
  MaxExecutions   \* bound on the replies whose code is executed

ASSUME AgentAssumption ==
  /\ None \notin Tasks
  /\ MaxTexts \in Nat /\ MaxRetries \in Nat /\ MaxExecutions \in Nat

VARIABLES
  draft,          \* the text in the composer, 0 when it is empty
  typed,          \* texts typed so far
  queue,          \* queuedSubmissions
  history,        \* the chat
  series,         \* what each call of submitMessage is doing
  isSending, isCompacting, stopRequested,
  controller,     \* whose activeRequestController is set
  compactor,      \* the compaction the user asked for
  rerun,          \* an execution block is being rerun
  executions,     \* replies executed so far
  settled,        \* history: texts sent to the model, given up with an error,
                  \* or stopped or cleared by the user
  overlapped      \* history: a job began while isSending was set

composer == <<draft, typed, queue>>
flags == <<isSending, isCompacting, stopRequested>>
others == <<compactor, rerun>>
ghosts == <<settled, overlapped>>
vars == <<composer, history, series, flags, controller, others, executions, ghosts>>

Texts == 1 .. MaxTexts
Messages ==
  [kind : {"user"}, n : Texts, by : Tasks \cup {None}]
    \cup [kind : {"none", "output", "retry", "compact"}, n : Nat, by : {None}]

\* createMessage: a user's text, and the messages the loop makes itself.  The
\* replies in the chat are left out: nothing here looks at them.
User(d, t) == [kind |-> "user", n |-> d, by |-> t]
Made(kind, n) == [kind |-> kind, n |-> n, by |-> None]

Phases == {"idle", "checking", "processing", "preparing", "compacting",
           "repreparing", "loading", "streaming", "settling", "executing",
           "recorded"}
\* The phases in which a series holds isSending.
Working == Phases \ {"idle", "checking", "processing"}

Series ==
  [phase : Phases, next : Messages, request : Seq(Messages),
   retries : 0 .. MaxRetries, local : BOOLEAN, empty : BOOLEAN,
   previous : BOOLEAN, pending : BOOLEAN, aborted : BOOLEAN]

Idle == [phase |-> "idle", next |-> Made("none", 0), request |-> <<>>,
         retries |-> 0, local |-> FALSE, empty |-> FALSE, previous |-> FALSE,
         pending |-> FALSE, aborted |-> FALSE]

\* What compactHistory keeps in local variables when the user asked for it.
Compactors ==
  [phase : {"idle", "waiting", "running"}, previous : BOOLEAN, local : BOOLEAN]

NoCompaction == [phase |-> "idle", previous |-> FALSE, local |-> FALSE]

Init ==
  /\ draft = 0 /\ typed = 0 /\ queue = <<>>
  /\ history = <<>>
  /\ series = [t \in Tasks |-> Idle]
  /\ isSending = FALSE /\ isCompacting = FALSE /\ stopRequested = FALSE
  /\ controller = None
  /\ compactor = NoCompaction
  /\ rerun = FALSE
  /\ executions = 0
  /\ settled = {} /\ overlapped = FALSE

-----------------------------------------------------------------------------
(* Turns of a series (runConversationLoop, runSubmissionSeries). *)

\* requestMessages: the history with the next message at its end.
RequestFor(hist, m) ==
  IF hist # <<>> /\ Last(hist) = m THEN hist ELSE Append(hist, m)

Turn(m, hist, retries) ==
  [Idle EXCEPT !.phase = "preparing", !.next = m,
               !.request = RequestFor(hist, m), !.retries = retries]

\* A mutant of Boundary that leaves stop requests to the abort of the stream.
BoundaryQueued == IF queue # <<>> THEN "queued" ELSE ""

\* getBoundaryAction
Boundary ==
  IF queue # <<>> THEN "queued" ELSE IF stopRequested THEN "stopped" ELSE ""

TextsOf(ms) == {m.n : m \in {x \in Range(ms) : x.kind = "user"}}

\* consumeNextQueuedSubmissionMessage: the series goes on with a queued text.
GoOn(t, outcome, hist) ==
  /\ outcome \in {"queued", "complete"} /\ queue # <<>>
  /\ queue' = Tail(queue)
  /\ series' = [series EXCEPT ![t] = Turn(User(Head(queue), None), hist, 0)]
  /\ stopRequested' = (stopRequested /\ outcome # "queued")
  /\ UNCHANGED <<isSending, controller, settled>>

\* The end of runSubmissionSeries.
Finish(t, outcome) ==
  /\ outcome \notin {"queued", "complete"} \/ queue = <<>>
  /\ series' = [series EXCEPT ![t] = Idle]
  /\ controller' = None /\ isSending' = FALSE /\ stopRequested' = FALSE
  /\ settled' = IF outcome = "complete"
                THEN settled ELSE settled \cup TextsOf(<<series[t].next>>)
  /\ UNCHANGED queue

\* A turn ends with an outcome and leaves the history hist.
EndTurn(t, outcome, hist) ==
  /\ history' = hist
  /\ GoOn(t, outcome, hist) \/ Finish(t, outcome)
  /\ UNCHANGED <<draft, typed, others, overlapped>>

-----------------------------------------------------------------------------
(* The user. *)

TypeDraft ==
  /\ draft = 0 /\ typed < MaxTexts
  /\ typed' = typed + 1 /\ draft' = typed'
  /\ UNCHANGED <<queue, history, series, flags, controller, others, executions, ghosts>>

\* submitMessage up to its first await.  Which idle call it is does not matter.
Submit(t) ==
  /\ ~isSending
  /\ series[t].phase = "idle"
  /\ t = CHOOSE u \in Tasks : series[u].phase = "idle"
  /\ series' = [series EXCEPT ![t].phase = "checking"]
  /\ UNCHANGED <<composer, history, flags, controller, others, executions, ghosts>>

\* After init(): nothing to send or the default prompt is loading, or a
\* snapshot of the draft, which stays in the composer, goes to the hooks.
TakeDraft(t) ==
  /\ series[t].phase = "checking"
  /\ \/ series' = [series EXCEPT ![t] = Idle]
     \/ /\ draft # 0
        /\ series' = [series EXCEPT ![t].phase = "processing",
                                    ![t].next = User(draft, t)]
  /\ UNCHANGED <<composer, history, flags, controller, others, executions, ghosts>>

\* The hooks have made the message (or thrown): the composer is emptied and
\* the series begins.
StartSeries(t) ==
  /\ series[t].phase = "processing"
  /\ \/ /\ series' = [series EXCEPT ![t] = Idle]
        /\ UNCHANGED <<draft, isSending, stopRequested, overlapped>>
     \/ /\ draft' = 0
        /\ overlapped' = (overlapped \/ isSending)
        /\ isSending' = TRUE /\ stopRequested' = FALSE
        /\ series' = [series EXCEPT ![t] = Turn(series[t].next, history, 0)]
  /\ UNCHANGED <<typed, queue, history, isCompacting, controller, others,
                 executions, settled>>

\* A mutant of QueueDraft that does not look whether there is a draft.
QueueDraftUnchecked ==
  /\ isSending /\ Len(queue) < MaxTexts
  /\ queue' = Append(queue, draft)
  /\ draft' = 0
  /\ UNCHANGED <<typed, history, series, flags, controller, others, executions,
                 ghosts>>

\* queueDraftSubmission
QueueDraft ==
  /\ isSending /\ draft # 0
  /\ queue' = Append(queue, draft)
  /\ draft' = 0
  /\ UNCHANGED <<typed, history, series, flags, controller, others, executions,
                 ghosts>>

\* activeRequestController?.abort()
AbortStream ==
  [t \in Tasks |-> [series[t] EXCEPT !.aborted = @ \/ controller = t]]

\* handleComposerPrimaryAction with nothing to queue: requestStop.
RequestStop ==
  /\ isSending /\ draft = 0 /\ queue = <<>> /\ ~stopRequested
  /\ stopRequested' = TRUE
  /\ series' = AbortStream
  /\ UNCHANGED <<composer, history, isSending, isCompacting, controller, others,
                 executions, ghosts>>

\* handleClearClick.  The fields it sets after its first await are set before any
\* other task can run: replaceHistory does not refresh the prompt here.  What is
\* awaited later, the prompt and the saved chat, is no part of this model.
Clear ==
  /\ ~isSending /\ ~isCompacting /\ history # <<>>
  /\ draft' = 0 /\ queue' = <<>> /\ history' = <<>>
  /\ settled' = settled \cup Range(queue) \cup ({draft} \ {0})
  /\ stopRequested' = FALSE
  /\ series' = AbortStream /\ controller' = None
  /\ UNCHANGED <<typed, isSending, isCompacting, others, executions, overlapped>>

\* handleCompactClick up to its first await.
AskCompact ==
  /\ ~isSending /\ compactor.phase = "idle"
  /\ compactor' = [compactor EXCEPT !.phase = "waiting"]
  /\ UNCHANGED <<composer, history, series, flags, controller, rerun, executions, ghosts>>

\* compactHistory up to its first await, unless there is nothing to compact or
\* the history could not be measured.
BeginCompact ==
  /\ compactor.phase = "waiting"
  /\ \/ /\ compactor' = [compactor EXCEPT !.phase = "idle"]
        /\ UNCHANGED <<isSending, isCompacting, overlapped>>
     \/ /\ history # <<>>
        /\ \E local \in BOOLEAN :
             compactor' = [phase |-> "running", previous |-> isSending, local |-> local]
        /\ overlapped' = (overlapped \/ isSending)
        /\ isSending' = TRUE /\ isCompacting' = TRUE
  /\ UNCHANGED <<composer, history, series, stopRequested, controller, rerun,
                 executions, settled>>

\* A mutant of RestoreSending that leaves the flag as it is.
RestoreNothing(previous) == isSending' = isSending

\* The finally of compactHistory.
RestoreSending(previous) == isSending' = previous

\* The model has answered, or the request failed, and the compaction replaces
\* the history or leaves it.  The request carries no signal and no time limit.
EndCompact ==
  /\ compactor.phase = "running"
  /\ history' \in {history, <<Made("compact", 0)>>}
  /\ compactor' = [compactor EXCEPT !.phase = "idle", !.local = FALSE]
  /\ RestoreSending(compactor.previous)
  /\ isCompacting' = FALSE
  /\ UNCHANGED <<composer, series, stopRequested, controller, rerun, executions, ghosts>>

\* handleThreadClick: rerun an execution block.
Rerun ==
  /\ ~isSending /\ ~rerun /\ history # <<>>
  /\ isSending' = TRUE /\ rerun' = TRUE
  /\ UNCHANGED <<composer, history, series, isCompacting, stopRequested, controller,
                 compactor, executions, ghosts>>

EndRerun ==
  /\ rerun
  /\ isSending' = FALSE /\ rerun' = FALSE
  /\ UNCHANGED <<composer, history, series, isCompacting, stopRequested, controller,
                 compactor, executions, ghosts>>

-----------------------------------------------------------------------------
(* The steps of a series. *)

\* preparePromptRequest throws.
PrepareFails(t) ==
  /\ series[t].phase \in {"preparing", "repreparing"}
  /\ EndTurn(t, "failed", history)
  /\ UNCHANGED <<isCompacting, executions>>

\* The request has too many tokens: the history is compacted, if there is one,
\* whether a stop was requested or not.
OverBudget(t) ==
  /\ series[t].phase = "preparing"
  /\ \/ /\ history = <<>>
        /\ EndTurn(t, "failed", history)
        /\ UNCHANGED isCompacting
     \/ /\ history # <<>>
        /\ \E local \in BOOLEAN :
             series' = [series EXCEPT ![t].phase = "compacting",
                                      ![t].local = local,
                                      ![t].previous = isSending,
                                      ![t].pending = Last(history) = series[t].next]
        /\ isSending' = TRUE /\ isCompacting' = TRUE
        /\ UNCHANGED <<composer, history, stopRequested, controller, others, ghosts>>
  /\ UNCHANGED executions

\* The model has answered that compaction, or it failed: the pending message is part of the compacted history
\* or follows it.
CompactedInLoop(t) ==
  LET compact == Made("compact", 0)
      next == IF series[t].pending THEN compact ELSE series[t].next
  IN
  /\ series[t].phase = "compacting"
  /\ isCompacting' = FALSE
  /\ \/ /\ EndTurn(t, "failed", history)
     \/ /\ history' = <<compact>>
        /\ series' = [series EXCEPT ![t] =
             [Turn(next, history', series[t].retries) EXCEPT !.phase = "repreparing"]]
        /\ RestoreSending(series[t].previous)
        /\ UNCHANGED <<composer, stopRequested, controller, others, ghosts>>
  /\ UNCHANGED executions

\* boundaryActionBeforeStream: a queued text or a stop request ends the turn.
StopBeforeStream(t) ==
  /\ series[t].phase \in {"preparing", "repreparing"}
  /\ Boundary # ""
  /\ EndTurn(t, Boundary, history)
  /\ UNCHANGED <<isCompacting, executions>>

\* The request goes out, at once or when the local model is loaded.
BeginStream(t) ==
  /\ series[t].phase \in {"preparing", "repreparing"}
  /\ Boundary = ""
  /\ history' = series[t].request
  /\ settled' = settled \cup TextsOf(series[t].request)
  /\ \/ /\ series' = [series EXCEPT ![t].phase = "loading", ![t].local = TRUE]
        /\ UNCHANGED controller
     \/ /\ series' = [series EXCEPT ![t].phase = "streaming", ![t].local = FALSE]
        /\ controller' = t
  /\ UNCHANGED <<composer, flags, others, executions, overlapped>>

ModelLoaded(t) ==
  /\ series[t].phase = "loading"
  /\ series' = [series EXCEPT ![t].phase = "streaming"]
  /\ controller' = t
  /\ UNCHANGED <<composer, history, flags, others, executions, ghosts>>

\* The reply is complete, with or without content.
Streamed(t) ==
  /\ series[t].phase = "streaming"
  /\ \E empty \in BOOLEAN :
       series' = [series EXCEPT ![t].phase = "settling", ![t].empty = empty,
                                ![t].local = FALSE, ![t].aborted = FALSE]
  /\ controller' = IF controller = t THEN None ELSE controller
  /\ UNCHANGED <<composer, history, flags, others, executions, ghosts>>

\* The stream was aborted by a stop: what came of the reply is kept.
StreamStopped(t) ==
  /\ series[t].phase = "streaming" /\ series[t].aborted /\ stopRequested
  /\ \E hist \in {history, series[t].request} :
       EndTurn(t, IF Boundary = "" THEN "stopped" ELSE Boundary, hist)
  /\ UNCHANGED <<isCompacting, executions>>

\* The model could not be loaded, the request failed, was aborted otherwise,
\* or a hook threw.
StreamFails(t) ==
  /\ series[t].phase \in {"loading", "streaming", "settling"}
  /\ \E hist \in {history, series[t].request} : EndTurn(t, "error", hist)
  /\ UNCHANGED <<isCompacting, executions>>

\* A mutant of Retry that drops the message the reply was for.
RetryWithout(t) ==
  LET s == series[t] IN
  /\ s.retries < MaxRetries
  /\ history' = Front(s.request)
  /\ series' = [series EXCEPT ![t] =
       Turn(IF s.retries = 0 THEN s.next ELSE Made("retry", 0), Front(s.request),
            s.retries + 1)]

\* An empty reply: the request is sent again, then with a protocol message.
Retry(t) ==
  LET s == series[t] IN
  /\ s.retries < MaxRetries
  /\ history' = s.request
  /\ series' = [series EXCEPT ![t] =
       Turn(IF s.retries = 0 THEN s.next ELSE Made("retry", 0), s.request,
            s.retries + 1)]

\* The reply has been processed and saved.
Settled(t) ==
  /\ series[t].phase = "settling"
  /\ \/ /\ Boundary # "" /\ EndTurn(t, Boundary, history)
     \/ /\ Boundary = "" /\ series[t].empty /\ Retry(t)
        /\ UNCHANGED <<composer, isSending, stopRequested, controller, others, ghosts>>
     \/ /\ Boundary = "" /\ series[t].empty /\ series[t].retries >= MaxRetries
        /\ EndTurn(t, "complete", history)
     \/ /\ Boundary = "" /\ ~series[t].empty
        /\ series' = [series EXCEPT ![t] =
             [Idle EXCEPT !.phase = "executing", !.next = series[t].next]]
        /\ UNCHANGED <<composer, history, isSending, stopRequested, controller, others,
                       ghosts>>
  /\ UNCHANGED <<isCompacting, executions>>

\* executeAssistantBlocks finds no code, throws, or its output becomes the next
\* message.
Executed(t) ==
  /\ series[t].phase = "executing"
  /\ \/ /\ \E outcome \in {"complete", "error"} : EndTurn(t, outcome, history)
        /\ UNCHANGED executions
     \/ /\ executions < MaxExecutions
        /\ executions' = executions + 1
        /\ history' = Append(history, Made("output", executions'))
        /\ series' = [series EXCEPT ![t].phase = "recorded",
                                    ![t].next = Made("output", executions')]
        /\ UNCHANGED <<composer, isSending, stopRequested, controller, others, ghosts>>
  /\ UNCHANGED isCompacting

\* The output has been saved.
Recorded(t) ==
  /\ series[t].phase = "recorded"
  /\ \/ /\ Boundary # "" /\ EndTurn(t, Boundary, history)
     \/ /\ Boundary = ""
        /\ series' = [series EXCEPT ![t] = Turn(series[t].next, history, 0)]
        /\ UNCHANGED <<composer, history, isSending, stopRequested, controller, others,
                       ghosts>>
  /\ UNCHANGED <<isCompacting, executions>>

\* Steps that code in the browser takes by itself.
Advance(t) ==
  \/ TakeDraft(t) \/ StartSeries(t)
  \/ PrepareFails(t) \/ OverBudget(t)
  \/ StopBeforeStream(t) \/ BeginStream(t) \/ ModelLoaded(t)
  \/ StreamStopped(t) \/ Settled(t) \/ Recorded(t)

\* Steps that wait for an answer of the model.
Answered(t) == Streamed(t) \/ CompactedInLoop(t)

Next ==
  \/ TypeDraft \/ QueueDraft \/ RequestStop \/ Clear
  \/ AskCompact \/ BeginCompact \/ EndCompact \/ Rerun \/ EndRerun
  \/ \E t \in Tasks :
       Submit(t) \/ Advance(t) \/ Answered(t) \/ Executed(t) \/ StreamFails(t)

Spec == Init /\ [][Next]_vars

\* Awaits on the browser and its server come back, and a local model stops at its
\* limit of tokens.  A remote model may never answer, neither a turn nor a
\* compaction, and the code a reply holds may never return.
Fairness ==
  /\ WF_vars(BeginCompact) /\ WF_vars(compactor.local /\ EndCompact)
  /\ \A t \in Tasks :
       WF_vars(Advance(t)) /\ WF_vars(series[t].local /\ Answered(t))

FairSpec == Spec /\ Fairness

-----------------------------------------------------------------------------
(* Properties. *)

\* Every variable holds what store.js can put there.
LoopTypeOK ==
  /\ draft \in 0 .. MaxTexts /\ typed \in 0 .. MaxTexts
  /\ queue \in Seq(Texts)
  /\ history \in Seq(Messages)
  /\ series \in [Tasks -> Series]
  /\ isSending \in BOOLEAN /\ isCompacting \in BOOLEAN /\ stopRequested \in BOOLEAN
  /\ controller \in Tasks \cup {None}
  /\ compactor \in Compactors
  /\ rerun \in BOOLEAN
  /\ executions \in 0 .. MaxExecutions
  /\ settled \subseteq Texts
  /\ overlapped \in BOOLEAN

SeriesWorking == {t \in Tasks : series[t].phase \in Working}
JobRuns == SeriesWorking # {} \/ compactor.phase = "running" \/ rerun

\* A bound on the state space of the runs that ask about jobs that do not
\* overlap: nothing is explored behind an overlap.
NoOverlap == ~overlapped

\* isSending is a lock as long as no job began while it was set: it is set
\* exactly while one job runs, through every outcome of a turn, the compaction
\* inside one and the restored flag (runSubmissionSeries, compactHistory,
\* handleThreadClick).
BusyIsALock ==
  ~overlapped =>
    /\ isSending = JobRuns
    /\ \A t, u \in SeriesWorking : t = u
    /\ ~(compactor.phase = "running" /\ rerun)
    /\ SeriesWorking # {} => compactor.phase # "running" /\ ~rerun

\* What the user said stays in the chat until it is cleared or compacted: the
\* requests, retries, failures and stops that set the history from a list taken
\* before an await lose none of it (runConversationLoop).
HistoryKeepsTexts ==
  [][~overlapped' =>
       \/ TextsOf(history) \subseteq TextsOf(history')
       \/ history' \in {<<>>, <<Made("compact", 0)>>}]_vars

\* What a stop request can neither abort nor pass by: a compaction that waits for
\* a remote model, and code that runs.
AwaitsOutside ==
  \/ compactor.phase = "running" /\ ~compactor.local
  \/ rerun
  \/ \E t \in Tasks :
       \/ series[t].phase = "compacting" /\ ~series[t].local
       \/ series[t].phase = "executing"

\* A stop request is honoured: the work ends or goes on with a text queued since.
\* A turn's request to a model that never answers is aborted, but the request of a
\* compaction has no signal and code cannot be interrupted: the stop waits as long
\* as they do, and no longer (requestStop, getBoundaryAction, compactHistory).
StopIsHonoured ==
  stopRequested ~>
    (~stopRequested \/ ~isSending \/ overlapped \/ []AwaitsOutside)

Carried == {series[t].next.n :
              t \in {u \in SeriesWorking : series[u].next.kind = "user"}}

\* Strict "send now or refuse" (docs/agent/onscreen-agent-runtime.md): a text that
\* was taken is in a request, waits for one, or was given up with an error or by
\* the user (runConversationLoop, boundaryActionBeforeStream).
SendOrRefuse ==
  1 .. typed \subseteq ({draft} \cup settled \cup Range(queue) \cup Carried)

=============================================================================
