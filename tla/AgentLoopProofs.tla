--------------------------- MODULE AgentLoopProofs ---------------------------
(***************************************************************************)
(* Proofs about AgentLoop, for any number of calls, texts, retries and     *)
(* executions: the types, the flag isSending as a lock, and the texts of   *)
(* the chat.  IInv adds to the lock                                        *)
(*   FlagsRestored  the flag a compaction will restore is the one that is  *)
(*                  right when it ends,                                    *)
(*   RequestCovers  the list a turn will set the history from has every    *)
(*                  text the history has.                                  *)
(***************************************************************************)
EXTENDS AgentLoop, SequenceTheorems, TLAPS

\* A compaction the user asked for began when nothing ran, one of a turn when
\* its series did.
FlagsRestored ==
  ~overlapped =>
    /\ compactor.phase = "running" => compactor.previous = FALSE
    /\ \A t \in Tasks : series[t].phase = "compacting" => series[t].previous = TRUE

\* The phases from whose request the history may be set.
Requesting == {"preparing", "repreparing", "loading", "streaming", "settling"}

RequestCovers ==
  ~overlapped =>
    \A t \in Tasks :
      series[t].phase \in Requesting => TextsOf(history) \subseteq TextsOf(series[t].request)

IInv == LoopTypeOK /\ BusyIsALock /\ FlagsRestored /\ RequestCovers

-----------------------------------------------------------------------------
(* Messages and requests. *)

LEMMA MessageTypes ==
  /\ \A d \in Texts, t \in Tasks \cup {None} : User(d, t) \in Messages
  /\ \A k \in {"none", "output", "retry", "compact"}, n \in Nat : Made(k, n) \in Messages
BY DEF User, Made, Messages

LEMMA TextsOfTexts ==
  ASSUME NEW ms \in Seq(Messages)
  PROVE  TextsOf(ms) \subseteq Texts
BY DEF TextsOf, Range, Messages

LEMMA AppendFacts ==
  ASSUME NEW hist \in Seq(Messages), NEW m \in Messages
  PROVE  /\ Append(hist, m) \in Seq(Messages)
         /\ TextsOf(hist) \subseteq TextsOf(Append(hist, m))
<1>1. /\ Append(hist, m) \in Seq(Messages)
      /\ Len(Append(hist, m)) = Len(hist) + 1
      /\ \A i \in 1 .. Len(hist) : Append(hist, m)[i] = hist[i]
  OBVIOUS
<1>2. Range(hist) \subseteq Range(Append(hist, m))
  BY <1>1 DEF Range
<1> QED
  BY <1>1, <1>2 DEF TextsOf

\* A request has the texts of the history it was made from.
LEMMA RequestForFacts ==
  ASSUME NEW hist \in Seq(Messages), NEW m \in Messages
  PROVE  /\ RequestFor(hist, m) \in Seq(Messages)
         /\ TextsOf(hist) \subseteq TextsOf(RequestFor(hist, m))
BY AppendFacts DEF RequestFor

LEMMA TurnFacts ==
  ASSUME NEW hist \in Seq(Messages), NEW m \in Messages, NEW k \in 0 .. MaxRetries
  PROVE  /\ Turn(m, hist, k) \in Series
         /\ Turn(m, hist, k).phase = "preparing"
         /\ Turn(m, hist, k).request = RequestFor(hist, m)
         /\ [Turn(m, hist, k) EXCEPT !.phase = "repreparing"] \in Series
BY RequestForFacts, MessageTypes DEF Turn, Idle, Series, Phases

LEMMA IdleFacts == Idle \in Series /\ Idle.phase = "idle"
BY MessageTypes, AgentAssumption DEF Idle, Series, Phases

LEMMA QueueFacts ==
  ASSUME queue \in Seq(Texts), queue # <<>>
  PROVE  Head(queue) \in Texts /\ Tail(queue) \in Seq(Texts)
OBVIOUS

-----------------------------------------------------------------------------
(* What a step does to the lock. *)

\* Nobody begins or ends, and a compaction keeps what it will restore.
LEMMA LockKept ==
  ASSUME IInv, UNCHANGED <<rerun, overlapped>>,
         ~overlapped => isSending' = isSending,
         compactor'.phase = "running" <=> compactor.phase = "running",
         compactor'.phase = "running" => compactor' = compactor,
         \A t \in Tasks : series'[t].phase \in Working <=> series[t].phase \in Working,
         \A t \in Tasks : ~overlapped /\ series'[t].phase = "compacting" =>
                             series'[t].previous = TRUE
  PROVE  BusyIsALock' /\ FlagsRestored'
<1>1. SeriesWorking' = SeriesWorking
  BY DEF SeriesWorking
<1>2. JobRuns' <=> JobRuns
  BY <1>1 DEF JobRuns
<1>3. BusyIsALock'
  BY <1>1, <1>2 DEF IInv, BusyIsALock
<1>4. FlagsRestored'
  BY DEF IInv, FlagsRestored
<1> QED
  BY <1>3, <1>4

\* The work of a series ends.
LEMMA LockReleased ==
  ASSUME IInv, UNCHANGED <<rerun, overlapped, compactor>>, isSending' = FALSE,
         NEW t \in Tasks, series[t].phase \in Working,
         series' = [series EXCEPT ![t] = Idle]
  PROVE  BusyIsALock' /\ FlagsRestored'
<1>1. series \in [Tasks -> Series]
  BY DEF IInv, LoopTypeOK
<1>2. /\ \A u \in Tasks : u # t => series'[u] = series[u]
      /\ series'[t].phase = "idle"
  BY <1>1 DEF Idle
<1>3. t \in SeriesWorking
  BY DEF SeriesWorking
<1>4. ~overlapped => SeriesWorking' = {} /\ compactor.phase # "running" /\ ~rerun
  BY <1>2, <1>3 DEF IInv, BusyIsALock, SeriesWorking, Working
<1>5. ~overlapped => ~JobRuns'
  BY <1>4 DEF JobRuns
<1>6. ~overlapped => isSending' = JobRuns'
  <2>1. (~JobRuns') => FALSE = JobRuns'
    <3> HIDE DEF JobRuns
    <3> QED
      OBVIOUS
  <2> QED
    BY <1>5, <2>1
<1>7. BusyIsALock'
  BY <1>4, <1>6 DEF BusyIsALock
<1>8. FlagsRestored'
  BY <1>2 DEF IInv, FlagsRestored
<1> QED
  BY <1>7, <1>8

\* While a series works on the lock nobody else does.
LEMMA OnlyWorker ==
  ASSUME IInv, ~overlapped, NEW t \in Tasks, series[t].phase \in Working
  PROVE  /\ \A u \in Tasks : u # t => series[u].phase \notin Requesting
         /\ \A u \in Tasks : u # t => series[u].phase \notin Working
         /\ isSending = TRUE
<1>1. t \in SeriesWorking
  BY DEF SeriesWorking
<1>2. JobRuns
  BY <1>1 DEF JobRuns
<1>3. isSending
  BY <1>2 DEF IInv, BusyIsALock
<1>4. \A u \in Tasks : u # t => series[u].phase \notin Working
  BY <1>1 DEF IInv, BusyIsALock, SeriesWorking
<1> QED
  BY <1>3, <1>4 DEF IInv, LoopTypeOK, Requesting, Working, Phases

-----------------------------------------------------------------------------
(* What a step does to the history and the requests. *)

\* HistoryKeepsTexts, of one step.
KeepsTexts ==
  ~overlapped' =>
    \/ TextsOf(history) \subseteq TextsOf(history')
    \/ history' \in {<<>>, <<Made("compact", 0)>>}

Goal == IInv' /\ KeepsTexts

LEMMA CoversKept ==
  ASSUME IInv, overlapped' = overlapped, history' = history,
         \A t \in Tasks : series'[t].phase \in Requesting =>
           series[t].phase \in Requesting /\ series'[t].request = series[t].request
  PROVE  RequestCovers' /\ KeepsTexts
BY DEF IInv, RequestCovers, KeepsTexts

\* A series that works may change the history: no other has a request.
LEMMA CoversOwn ==
  ASSUME IInv, overlapped' = overlapped, NEW t \in Tasks, series[t].phase \in Working,
         NEW r, series' = [series EXCEPT ![t] = r],
         ~overlapped /\ r.phase \in Requesting => TextsOf(history') \subseteq TextsOf(r.request)
  PROVE  RequestCovers'
<1> SUFFICES ASSUME ~overlapped, NEW u \in Tasks, series'[u].phase \in Requesting
             PROVE  TextsOf(history') \subseteq TextsOf(series'[u].request)
  BY DEF RequestCovers
<1>1. series \in [Tasks -> Series]
  BY DEF IInv, LoopTypeOK
<1>2. u = t
  BY <1>1, OnlyWorker
<1> QED
  BY <1>1, <1>2

\* However a turn ends, the lock is kept by the series that goes on or given
\* back, and the history it leaves has the texts it had.
LEMMA EndTurnGoal ==
  ASSUME IInv, NEW t \in Tasks, series[t].phase \in Working, NEW outcome,
         NEW hist \in Seq(Messages), EndTurn(t, outcome, hist),
         isCompacting' \in BOOLEAN, executions' = executions,
         ~overlapped => TextsOf(history) \subseteq TextsOf(hist)
  PROVE  Goal
<1>1. /\ LoopTypeOK /\ series \in [Tasks -> Series]
      /\ history' = hist /\ overlapped' = overlapped
      /\ UNCHANGED <<draft, typed, compactor, rerun>>
  BY DEF IInv, LoopTypeOK, EndTurn, others
<1>2. KeepsTexts
  BY <1>1 DEF KeepsTexts
<1>3. CASE GoOn(t, outcome, hist)
  <2> DEFINE r == Turn(User(Head(queue), None), hist, 0)
  <2>1. /\ r \in Series /\ r.phase = "preparing"
        /\ TextsOf(hist) \subseteq TextsOf(r.request)
        /\ queue' \in Seq(Texts)
    <3>1. Head(queue) \in Texts /\ Tail(queue) \in Seq(Texts)
      BY <1>1, <1>3, QueueFacts DEF GoOn, LoopTypeOK
    <3>2. User(Head(queue), None) \in Messages /\ 0 \in 0 .. MaxRetries
      BY <3>1, MessageTypes, AgentAssumption
    <3> QED
      BY <1>3, <3>1, <3>2, TurnFacts, RequestForFacts DEF GoOn
  <2>2. /\ series' = [series EXCEPT ![t] = r]
        /\ UNCHANGED <<isSending, controller, settled>>
        /\ stopRequested' \in BOOLEAN
    BY <1>3 DEF GoOn
  <2> HIDE DEF r
  <2>3. LoopTypeOK'
    BY <1>1, <2>1, <2>2 DEF LoopTypeOK
  <2>4. BusyIsALock' /\ FlagsRestored'
    <3>1. \A u \in Tasks : series'[u] = IF u = t THEN r ELSE series[u]
      BY <1>1, <2>2
    <3>2. \A u \in Tasks : series'[u].phase \in Working <=> series[u].phase \in Working
      BY <2>1, <3>1 DEF Working, Phases
    <3>3. \A u \in Tasks : ~overlapped /\ series'[u].phase = "compacting" =>
                               series'[u].previous = TRUE
      BY <2>1, <3>1 DEF IInv, FlagsRestored
    <3> QED
      BY <1>1, <2>2, <3>2, <3>3, LockKept
  <2>5. RequestCovers'
    BY <1>1, <2>1, <2>2, CoversOwn
  <2> QED
    BY <1>2, <2>3, <2>4, <2>5 DEF Goal, IInv
<1>4. CASE Finish(t, outcome)
  <2>1. /\ series' = [series EXCEPT ![t] = Idle]
        /\ controller' = None /\ isSending' = FALSE /\ stopRequested' = FALSE
        /\ queue' = queue
    BY <1>4 DEF Finish
  <2>2. Idle \in Series /\ Idle.phase = "idle"
    BY MessageTypes, AgentAssumption DEF Idle, Series, Phases
  <2>3. settled' \subseteq Texts
    <3>1. <<series[t].next>> \in Seq(Messages)
      BY <1>1 DEF Series
    <3> QED
      BY <1>1, <1>4, <3>1, TextsOfTexts DEF Finish, LoopTypeOK
  <2>4. LoopTypeOK'
    BY <1>1, <2>1, <2>2, <2>3 DEF LoopTypeOK
  <2>5. BusyIsALock' /\ FlagsRestored'
    BY <1>1, <2>1, LockReleased
  <2>6. RequestCovers'
    BY <1>1, <2>1, <2>2, CoversOwn DEF Requesting
  <2> QED
    BY <1>2, <2>4, <2>5, <2>6 DEF Goal, IInv
<1> QED
  BY <1>3, <1>4 DEF EndTurn

\* A working series goes on with r.
LEMMA OwnStepGoal ==
  ASSUME IInv, NEW t \in Tasks, series[t].phase \in Working,
         NEW r \in Series, r.phase \in Working, series' = [series EXCEPT ![t] = r],
         ~overlapped /\ r.phase = "compacting" => r.previous = TRUE,
         UNCHANGED <<rerun, overlapped, compactor>>,
         ~overlapped => isSending' = isSending,
         LoopTypeOK', KeepsTexts,
         ~overlapped /\ r.phase \in Requesting => TextsOf(history') \subseteq TextsOf(r.request)
  PROVE  Goal
<1>1. \A u \in Tasks : series'[u] = IF u = t THEN r ELSE series[u]
  BY DEF IInv, LoopTypeOK
<1>2. BusyIsALock' /\ FlagsRestored'
  <2>1. \A u \in Tasks : series'[u].phase \in Working <=> series[u].phase \in Working
    BY <1>1
  <2>2. \A u \in Tasks : ~overlapped /\ series'[u].phase = "compacting" =>
                             series'[u].previous = TRUE
    BY <1>1 DEF IInv, FlagsRestored
  <2> QED
    BY <2>1, <2>2, LockKept
<1>3. RequestCovers'
  BY CoversOwn
<1> QED
  BY <1>2, <1>3 DEF Goal, IInv

\* No series begins or ends and the history stays.
LEMMA QuietStepGoal ==
  ASSUME IInv, LoopTypeOK', UNCHANGED <<rerun, overlapped, isSending, history>>,
         compactor'.phase = "running" <=> compactor.phase = "running",
         compactor'.phase = "running" => compactor' = compactor,
         \A t \in Tasks :
           series'[t].phase \in Working \/ series[t].phase \in Working =>
             /\ series'[t].phase = series[t].phase
             /\ series'[t].request = series[t].request
             /\ series'[t].previous = series[t].previous
  PROVE  Goal
<1>1. /\ \A t \in Tasks : series'[t].phase \in Working <=> series[t].phase \in Working
      /\ \A t \in Tasks : ~overlapped /\ series'[t].phase = "compacting" =>
                             series'[t].previous = TRUE
  BY DEF IInv, FlagsRestored, Working, Phases
<1>2. BusyIsALock' /\ FlagsRestored'
  BY <1>1, LockKept
<1>3. \A t \in Tasks : series'[t].phase \in Requesting =>
         series[t].phase \in Requesting /\ series'[t].request = series[t].request
  BY DEF Requesting, Working, Phases
<1> QED
  BY <1>2, <1>3, CoversKept DEF Goal, IInv

\* When the flag is not set nothing runs.
LEMMA NothingRuns ==
  ASSUME IInv, ~overlapped, ~isSending
  PROVE  /\ \A t \in Tasks : series[t].phase \notin Working
         /\ compactor.phase # "running" /\ ~rerun
<1>1. ~JobRuns
  BY DEF IInv, BusyIsALock
<1> QED
  BY <1>1 DEF JobRuns, SeriesWorking

-----------------------------------------------------------------------------
(* The user. *)

LEMMA TypeDraftGoal == ASSUME IInv, TypeDraft PROVE Goal
<1>1. LoopTypeOK'
  BY AgentAssumption DEF IInv, LoopTypeOK, TypeDraft, flags, others, ghosts
<1> QED
  BY <1>1, QuietStepGoal DEF TypeDraft, flags, others, ghosts

LEMMA QueueDraftGoal == ASSUME IInv, QueueDraft PROVE Goal
<1>1. draft \in Texts
  BY AgentAssumption DEF IInv, LoopTypeOK, QueueDraft, Texts
<1>2. LoopTypeOK'
  BY <1>1, AgentAssumption DEF IInv, LoopTypeOK, QueueDraft, flags, others, ghosts
<1> QED
  BY <1>2, QuietStepGoal DEF QueueDraft, flags, others, ghosts

LEMMA SubmitGoal == ASSUME IInv, NEW t \in Tasks, Submit(t) PROVE Goal
<1>1. /\ series \in [Tasks -> Series]
      /\ series[t].phase = "idle" /\ series' = [series EXCEPT ![t].phase = "checking"]
      /\ UNCHANGED <<composer, history, flags, controller, others, executions, ghosts>>
  BY DEF IInv, LoopTypeOK, Submit
<1>2. LoopTypeOK'
  <2>1. series' \in [Tasks -> Series]
    <3>1. \A r \in Series : [r EXCEPT !.phase = "checking"] \in Series
      BY DEF Series, Phases
    <3>2. series' = [series EXCEPT ![t] = [series[t] EXCEPT !.phase = "checking"]]
      BY <1>1
    <3> QED
      BY <1>1, <3>1, <3>2
  <2>2. /\ UNCHANGED <<draft, typed, queue, history>>
        /\ UNCHANGED <<isSending, isCompacting, stopRequested, controller>>
        /\ UNCHANGED <<compactor, rerun, executions, settled, overlapped>>
    BY <1>1 DEF composer, flags, others, ghosts
  <2> QED
    BY <2>1, <2>2 DEF IInv, LoopTypeOK
<1>3. \A u \in Tasks : /\ u # t => series'[u] = series[u]
                       /\ series'[t].phase = "checking"
  BY <1>1 DEF Series
<1> QED
  BY <1>1, <1>2, <1>3, QuietStepGoal DEF Working, flags, others, ghosts

LEMMA TakeDraftGoal == ASSUME IInv, NEW t \in Tasks, TakeDraft(t) PROVE Goal
<1>1. /\ series \in [Tasks -> Series] /\ series[t].phase = "checking"
      /\ UNCHANGED <<composer, history, flags, controller, others, executions, ghosts>>
  BY DEF IInv, LoopTypeOK, TakeDraft
<1>2. \E r \in Series : /\ r.phase \in {"idle", "processing"}
                        /\ series' = [series EXCEPT ![t] = r]
  <2>1. CASE series' = [series EXCEPT ![t] = Idle]
    <3>1. Idle \in Series /\ Idle.phase = "idle"
      BY MessageTypes, AgentAssumption DEF Idle, Series, Phases
    <3> QED
      BY <2>1, <3>1
  <2>2. CASE /\ draft # 0
             /\ series' = [series EXCEPT ![t].phase = "processing", ![t].next = User(draft, t)]
    <3>1. draft \in Texts
      BY <2>2, AgentAssumption DEF IInv, LoopTypeOK, Texts
    <3>2. User(draft, t) \in Messages
      BY <3>1, MessageTypes
    <3> DEFINE r == [series[t] EXCEPT !.phase = "processing", !.next = User(draft, t)]
    <3>3. r \in Series /\ r.phase = "processing"
      BY <1>1, <3>2 DEF Series, Phases
    <3>4. series' = [series EXCEPT ![t] = r]
      BY <1>1, <2>2 DEF Series
    <3> QED
      BY <3>3, <3>4
  <2> QED
    BY <2>1, <2>2 DEF TakeDraft
<1>3. LoopTypeOK'
  BY <1>1, <1>2 DEF IInv, LoopTypeOK, composer, flags, others, ghosts
<1>4. \A u \in Tasks : /\ u # t => series'[u] = series[u]
                       /\ series'[t].phase \in {"idle", "processing"}
  BY <1>1, <1>2
<1> QED
  BY <1>1, <1>3, <1>4, QuietStepGoal DEF Working, flags, others, ghosts

LEMMA AbortFacts ==
  ASSUME LoopTypeOK
  PROVE  /\ AbortStream \in [Tasks -> Series]
         /\ \A t \in Tasks : /\ AbortStream[t].phase = series[t].phase
                             /\ AbortStream[t].request = series[t].request
                             /\ AbortStream[t].previous = series[t].previous
<1> SUFFICES ASSUME NEW t \in Tasks
             PROVE  /\ AbortStream[t] \in Series
                    /\ AbortStream[t].phase = series[t].phase
                    /\ AbortStream[t].request = series[t].request
                    /\ AbortStream[t].previous = series[t].previous
  BY DEF AbortStream
<1>1. series[t] \in Series
  BY DEF LoopTypeOK
<1>2. (series[t].aborted \/ controller = t) \in BOOLEAN
  BY <1>1 DEF Series
<1>3. AbortStream[t] = [series[t] EXCEPT !.aborted = @ \/ controller = t]
  BY DEF AbortStream
<1> QED
  BY <1>1, <1>2, <1>3 DEF Series

LEMMA RequestStopGoal == ASSUME IInv, RequestStop PROVE Goal
<1>1. LoopTypeOK'
  BY AbortFacts DEF IInv, LoopTypeOK, RequestStop, composer, others, ghosts
<1> QED
  BY <1>1, AbortFacts, QuietStepGoal DEF IInv, RequestStop, others, ghosts

LEMMA ClearGoal == ASSUME IInv, Clear PROVE Goal
<1>1. LoopTypeOK'
  <2>1. settled' \subseteq Texts
    <3>1. Range(queue) \subseteq Texts /\ {draft} \ {0} \subseteq Texts
      BY AgentAssumption DEF IInv, LoopTypeOK, Range, Texts
    <3> QED
      BY <3>1 DEF IInv, LoopTypeOK, Clear
  <2>2. series' \in [Tasks -> Series]
    BY AbortFacts DEF IInv, Clear
  <2>3. /\ draft' = 0 /\ queue' = <<>> /\ history' = <<>>
        /\ stopRequested' = FALSE /\ controller' = None
        /\ UNCHANGED <<typed, isSending, isCompacting, compactor, rerun, executions, overlapped>>
    BY DEF Clear, others
  <2>4. <<>> \in Seq(Texts) /\ <<>> \in Seq(Messages) /\ 0 \in 0 .. MaxTexts
    BY AgentAssumption
  <2> QED
    BY <2>1, <2>2, <2>3, <2>4 DEF IInv, LoopTypeOK
<1>2. /\ \A t \in Tasks : /\ series'[t].phase = series[t].phase
                          /\ series'[t].previous = series[t].previous
      /\ UNCHANGED <<isSending, overlapped, compactor, rerun>> /\ ~isSending /\ history' = <<>>
  BY AbortFacts DEF IInv, Clear, others
<1>3. BusyIsALock' /\ FlagsRestored'
  BY <1>2, LockKept DEF IInv, FlagsRestored
<1>4. RequestCovers'
  BY <1>2, NothingRuns DEF RequestCovers, Requesting, Working, Phases
<1>5. KeepsTexts
  BY <1>2 DEF KeepsTexts
<1> QED
  BY <1>1, <1>3, <1>4, <1>5 DEF Goal, IInv

LEMMA AskCompactGoal == ASSUME IInv, AskCompact PROVE Goal
<1>1. /\ compactor \in Compactors
      /\ compactor' = [compactor EXCEPT !.phase = "waiting"]
  BY DEF IInv, LoopTypeOK, AskCompact
<1>2. compactor' \in Compactors /\ compactor'.phase = "waiting"
  BY <1>1 DEF Compactors
<1>3. LoopTypeOK'
  BY <1>2 DEF IInv, LoopTypeOK, AskCompact, composer, flags, ghosts
<1> QED
  BY <1>2, <1>3, QuietStepGoal DEF AskCompact, flags, ghosts

-----------------------------------------------------------------------------
(* Jobs begin and end. *)

LEMMA StartSeriesGoal == ASSUME IInv, NEW t \in Tasks, StartSeries(t) PROVE Goal
<1>1. /\ LoopTypeOK /\ series \in [Tasks -> Series] /\ series[t].phase = "processing"
      /\ UNCHANGED <<typed, queue, history, isCompacting, controller, compactor, rerun,
                     executions, settled>>
  BY DEF IInv, LoopTypeOK, StartSeries, others
<1>2. CASE /\ series' = [series EXCEPT ![t] = Idle]
           /\ UNCHANGED <<draft, isSending, stopRequested, overlapped>>
  <2>1. Idle \in Series /\ Idle.phase = "idle"
    BY MessageTypes, AgentAssumption DEF Idle, Series, Phases
  <2>2. LoopTypeOK'
    BY <1>1, <1>2, <2>1 DEF LoopTypeOK
  <2>3. \A u \in Tasks : u # t => series'[u] = series[u]
    BY <1>1, <1>2
  <2>4. series'[t].phase = "idle"
    BY <1>1, <1>2, <2>1
  <2> QED
    BY <1>1, <1>2, <2>2, <2>3, <2>4, QuietStepGoal DEF Working
<1>3. CASE /\ draft' = 0
           /\ overlapped' = (overlapped \/ isSending)
           /\ isSending' = TRUE /\ stopRequested' = FALSE
           /\ series' = [series EXCEPT ![t] = Turn(series[t].next, history, 0)]
  <2> DEFINE r == Turn(series[t].next, history, 0)
  <2>1. /\ r \in Series /\ r.phase = "preparing"
        /\ TextsOf(history) \subseteq TextsOf(r.request)
    <3>1. /\ history \in Seq(Messages) /\ series[t].next \in Messages
          /\ 0 \in 0 .. MaxRetries
      BY <1>1, AgentAssumption DEF LoopTypeOK, Series
    <3> QED
      BY <3>1, TurnFacts, RequestForFacts
  <2>2. series' = [series EXCEPT ![t] = r]
    BY <1>3
  <2> HIDE DEF r
  <2>3. LoopTypeOK'
    <3>1. series' \in [Tasks -> Series]
      BY <1>1, <2>1, <2>2
    <3>2. 0 \in 0 .. MaxTexts /\ overlapped' \in BOOLEAN
      BY <1>1, <1>3, AgentAssumption DEF LoopTypeOK
    <3> QED
      BY <1>1, <1>3, <3>1, <3>2 DEF LoopTypeOK
  <2>4. \A u \in Tasks : series'[u] = IF u = t THEN r ELSE series[u]
    BY <1>1, <2>2
  <2>5. ~overlapped' => /\ \A u \in Tasks : series[u].phase \notin Working
                        /\ compactor.phase # "running" /\ ~rerun
    BY <1>3, NothingRuns
  <2>6. ~overlapped' => SeriesWorking' = {t}
    BY <2>1, <2>4, <2>5 DEF SeriesWorking, Working, Phases
  <2>7. BusyIsALock' /\ FlagsRestored'
    <3>1. ~overlapped' => JobRuns'
      BY <2>6 DEF JobRuns
    <3>2. ~overlapped' => isSending' = JobRuns'
      <4>1. JobRuns' => TRUE = JobRuns'
        <5> HIDE DEF JobRuns
        <5> QED
          OBVIOUS
      <4> QED
        BY <1>3, <3>1, <4>1
    <3>3. BusyIsALock'
      BY <1>1, <2>5, <2>6, <3>2 DEF BusyIsALock
    <3>4. FlagsRestored'
      BY <1>1, <2>1, <2>4, <2>5 DEF FlagsRestored, Working, Phases
    <3> QED
      BY <3>3, <3>4
  <2>8. RequestCovers'
    BY <1>1, <2>1, <2>4, <2>5 DEF RequestCovers, Requesting, Working, Phases
  <2>9. KeepsTexts
    BY <1>1 DEF KeepsTexts
  <2> QED
    BY <2>3, <2>7, <2>8, <2>9 DEF Goal, IInv
<1> QED
  BY <1>2, <1>3 DEF StartSeries

LEMMA BeginCompactGoal == ASSUME IInv, BeginCompact PROVE Goal
<1>1. /\ LoopTypeOK /\ compactor.phase = "waiting"
      /\ compactor \in Compactors
      /\ UNCHANGED <<draft, typed, queue, history, series, stopRequested, controller, rerun,
                     executions, settled>>
  BY DEF IInv, LoopTypeOK, BeginCompact, composer
<1>2. CASE /\ compactor' = [compactor EXCEPT !.phase = "idle"]
           /\ UNCHANGED <<isSending, isCompacting, overlapped>>
  <2>1. /\ compactor' \in Compactors
        /\ compactor'.phase = "idle"
    BY <1>1, <1>2 DEF Compactors
  <2>2. LoopTypeOK'
    BY <1>1, <1>2, <2>1 DEF LoopTypeOK
  <2> QED
    BY <1>1, <1>2, <2>1, <2>2, QuietStepGoal
<1>3. CASE /\ history # <<>>
           /\ \E local \in BOOLEAN :
                compactor' = [phase |-> "running", previous |-> isSending, local |-> local]
           /\ overlapped' = (overlapped \/ isSending)
           /\ isSending' = TRUE /\ isCompacting' = TRUE
  <2>1. LoopTypeOK'
    <3>1. overlapped' \in BOOLEAN /\ compactor' \in Compactors
      BY <1>1, <1>3 DEF LoopTypeOK, Compactors
    <3> QED
      BY <1>1, <1>3, <3>1 DEF LoopTypeOK
  <2>2. ~overlapped' => /\ \A u \in Tasks : series[u].phase \notin Working
                        /\ ~rerun /\ isSending = FALSE
    BY <1>1, <1>3, NothingRuns DEF LoopTypeOK
  <2>3. ~overlapped' => SeriesWorking' = {}
    BY <1>1, <2>2 DEF SeriesWorking
  <2>4. isSending' = JobRuns'
    <3>1. JobRuns' => TRUE = JobRuns'
      <4> HIDE DEF JobRuns
      <4> QED
        OBVIOUS
    <3>2. JobRuns'
      BY <1>3 DEF JobRuns
    <3> QED
      BY <1>3, <3>1, <3>2
  <2>5. BusyIsALock' /\ FlagsRestored'
    BY <1>1, <1>3, <2>2, <2>3, <2>4 DEF BusyIsALock, FlagsRestored, Working, Phases
  <2>6. RequestCovers' /\ KeepsTexts
    BY <1>1, <1>3 DEF IInv, RequestCovers, KeepsTexts
  <2> QED
    BY <2>1, <2>5, <2>6 DEF Goal, IInv
<1> QED
  BY <1>2, <1>3 DEF BeginCompact

LEMMA EndCompactGoal == ASSUME IInv, EndCompact PROVE Goal
<1>1. /\ LoopTypeOK /\ compactor.phase = "running"
      /\ compactor \in Compactors
      /\ history' \in {history, <<Made("compact", 0)>>}
      /\ compactor' = [compactor EXCEPT !.phase = "idle", !.local = FALSE]
      /\ isSending' = compactor.previous /\ isCompacting' = FALSE
      /\ UNCHANGED <<draft, typed, queue, series, stopRequested, controller, rerun,
                     executions, settled, overlapped>>
  BY DEF IInv, LoopTypeOK, EndCompact, RestoreSending, composer, ghosts
<1>2. /\ compactor' \in Compactors
      /\ compactor'.phase = "idle" /\ compactor.previous \in BOOLEAN
  BY <1>1 DEF Compactors
<1>3. LoopTypeOK'
  <2>1. Made("compact", 0) \in Messages
    BY MessageTypes
  <2>2. <<Made("compact", 0)>> \in Seq(Messages)
    BY <2>1
  <2>3. history' \in Seq(Messages)
    BY <1>1, <2>2 DEF LoopTypeOK
  <2> QED
    BY <1>1, <1>2, <2>3 DEF LoopTypeOK
<1>4. ~overlapped => /\ SeriesWorking' = {} /\ ~rerun' /\ isSending' = FALSE
                     /\ compactor'.phase # "running"
  BY <1>1, <1>2 DEF IInv, BusyIsALock, FlagsRestored, SeriesWorking
<1>5. ~overlapped => isSending' = JobRuns'
  <2>1. ~JobRuns' => FALSE = JobRuns'
    <3> HIDE DEF JobRuns
    <3> QED
      OBVIOUS
  <2>2. ~overlapped => ~JobRuns'
    BY <1>4 DEF JobRuns
  <2> QED
    BY <1>4, <2>1, <2>2
<1>6. BusyIsALock' /\ FlagsRestored'
  BY <1>1, <1>4, <1>5 DEF IInv, BusyIsALock, FlagsRestored
<1>7. RequestCovers'
  BY <1>1, <1>4 DEF RequestCovers, SeriesWorking, Requesting, Working, Phases
<1>8. KeepsTexts
  BY <1>1 DEF KeepsTexts
<1> QED
  BY <1>3, <1>6, <1>7, <1>8 DEF Goal, IInv

LEMMA RerunGoal == ASSUME IInv, Rerun PROVE Goal
<1>1. /\ LoopTypeOK /\ ~isSending /\ isSending' = TRUE /\ rerun' = TRUE
      /\ UNCHANGED <<draft, typed, queue, history, series, isCompacting, stopRequested,
                     controller, compactor, executions, settled, overlapped>>
  BY DEF IInv, Rerun, composer, ghosts
<1>2. LoopTypeOK'
  BY <1>1 DEF LoopTypeOK
<1>3. ~overlapped => SeriesWorking' = {} /\ compactor'.phase # "running"
  BY <1>1, NothingRuns DEF SeriesWorking
<1>4. isSending' = JobRuns'
  <2>1. JobRuns' => TRUE = JobRuns'
    <3> HIDE DEF JobRuns
    <3> QED
      OBVIOUS
  <2>2. JobRuns'
    BY <1>1 DEF JobRuns
  <2> QED
    BY <1>1, <2>1, <2>2
<1>5. BusyIsALock' /\ FlagsRestored'
  BY <1>1, <1>3, <1>4 DEF IInv, BusyIsALock, FlagsRestored
<1>6. RequestCovers' /\ KeepsTexts
  BY <1>1, CoversKept
<1> QED
  BY <1>2, <1>5, <1>6 DEF Goal, IInv

LEMMA EndRerunGoal == ASSUME IInv, EndRerun PROVE Goal
<1>1. /\ LoopTypeOK /\ rerun /\ isSending' = FALSE /\ rerun' = FALSE
      /\ UNCHANGED <<draft, typed, queue, history, series, isCompacting, stopRequested,
                     controller, compactor, executions, settled, overlapped>>
  BY DEF IInv, EndRerun, composer, ghosts
<1>2. LoopTypeOK'
  BY <1>1 DEF LoopTypeOK
<1>3. ~overlapped => SeriesWorking' = {} /\ compactor'.phase # "running"
  BY <1>1 DEF IInv, BusyIsALock, SeriesWorking
<1>4. ~overlapped => isSending' = JobRuns'
  <2>1. ~JobRuns' => FALSE = JobRuns'
    <3> HIDE DEF JobRuns
    <3> QED
      OBVIOUS
  <2>2. ~overlapped => ~JobRuns'
    BY <1>1, <1>3 DEF JobRuns
  <2> QED
    BY <1>1, <2>1, <2>2
<1>5. BusyIsALock' /\ FlagsRestored'
  BY <1>1, <1>3, <1>4 DEF IInv, BusyIsALock, FlagsRestored
<1>6. RequestCovers' /\ KeepsTexts
  BY <1>1, CoversKept
<1> QED
  BY <1>2, <1>5, <1>6 DEF Goal, IInv

-----------------------------------------------------------------------------
(* The steps of a series. *)

\* What every step of a series starts from.
LEMMA SeriesFacts ==
  ASSUME IInv, NEW t \in Tasks
  PROVE  /\ LoopTypeOK /\ series \in [Tasks -> Series] /\ series[t] \in Series
         /\ history \in Seq(Messages) /\ series[t].request \in Seq(Messages)
         /\ series[t].next \in Messages /\ series[t].retries \in 0 .. MaxRetries
         /\ isCompacting \in BOOLEAN /\ isSending \in BOOLEAN
         /\ ~overlapped /\ series[t].phase \in Requesting =>
              TextsOf(history) \subseteq TextsOf(series[t].request)
BY DEF IInv, LoopTypeOK, Series, RequestCovers

LEMMA PrepareFailsGoal == ASSUME IInv, NEW t \in Tasks, PrepareFails(t) PROVE Goal
BY SeriesFacts, EndTurnGoal DEF PrepareFails, Working, Phases

LEMMA OverBudgetGoal == ASSUME IInv, NEW t \in Tasks, OverBudget(t) PROVE Goal
<1>1. series[t].phase \in Working /\ executions' = executions
  BY DEF OverBudget, Working, Phases
<1>2. CASE EndTurn(t, "failed", history) /\ UNCHANGED isCompacting
  BY <1>1, <1>2, SeriesFacts, EndTurnGoal
<1>3. CASE /\ history # <<>>
           /\ \E local \in BOOLEAN :
                series' = [series EXCEPT ![t].phase = "compacting",
                                         ![t].local = local,
                                         ![t].previous = isSending,
                                         ![t].pending = Last(history) = series[t].next]
           /\ isSending' = TRUE /\ isCompacting' = TRUE
           /\ UNCHANGED <<composer, history, stopRequested, controller, others, ghosts>>
  <2>0. PICK local \in BOOLEAN :
             series' = [series EXCEPT ![t].phase = "compacting",
                                      ![t].local = local,
                                      ![t].previous = isSending,
                                      ![t].pending = Last(history) = series[t].next]
    BY <1>3
  <2> DEFINE r == [series[t] EXCEPT !.phase = "compacting", !.local = local,
                                    !.previous = isSending,
                                    !.pending = Last(history) = series[t].next]
  <2>1. series' = [series EXCEPT ![t] = r]
    BY <2>0, SeriesFacts DEF Series
  <2>2. (Last(history) = series[t].next) \in BOOLEAN
    OBVIOUS
  <2>3. r \in Series /\ r.phase = "compacting" /\ r.previous = isSending
    BY <2>2, SeriesFacts DEF Series, Phases
  <2> HIDE DEF r
  <2>4. LoopTypeOK'
    <3>1. series' \in [Tasks -> Series]
      BY <2>1, <2>3, SeriesFacts
    <3> QED
      BY <1>1, <1>3, <3>1, SeriesFacts DEF LoopTypeOK, composer, others, ghosts
  <2>5. ~overlapped => isSending = TRUE
    BY <1>1, OnlyWorker
  <2>6. KeepsTexts
    BY <1>3 DEF KeepsTexts
  <2>7. r.phase \in Working /\ r.phase \notin Requesting
    BY <2>3 DEF Working, Phases, Requesting
  <2> QED
    BY <1>1, <1>3, <2>1, <2>3, <2>4, <2>5, <2>6, <2>7, OwnStepGoal DEF others, ghosts
<1> QED
  BY <1>2, <1>3 DEF OverBudget

LEMMA CompactedInLoopGoal ==
  ASSUME IInv, NEW t \in Tasks, CompactedInLoop(t) PROVE Goal
<1> DEFINE compact == Made("compact", 0)
           next == IF series[t].pending THEN compact ELSE series[t].next
           r == [Turn(next, history', series[t].retries) EXCEPT !.phase = "repreparing"]
<1>1. /\ series[t].phase = "compacting" /\ series[t].phase \in Working
      /\ executions' = executions /\ isCompacting' = FALSE
  BY DEF CompactedInLoop, Working, Phases
<1>2. CASE EndTurn(t, "failed", history)
  BY <1>1, <1>2, SeriesFacts, EndTurnGoal
<1>3. CASE /\ history' = <<compact>>
           /\ series' = [series EXCEPT ![t] = r]
           /\ RestoreSending(series[t].previous)
           /\ UNCHANGED <<composer, stopRequested, controller, others, ghosts>>
  <2>1. /\ compact \in Messages /\ next \in Messages
    BY SeriesFacts, MessageTypes
  <2>2. history' \in Seq(Messages)
    BY <1>3, <2>1
  <2> HIDE DEF next, compact
  <2>3. /\ r \in Series /\ r.phase = "repreparing"
        /\ TextsOf(history') \subseteq TextsOf(r.request)
    <3> DEFINE q == Turn(next, history', series[t].retries)
    <3>1. /\ q \in Series /\ q.request = RequestFor(history', next)
          /\ [q EXCEPT !.phase = "repreparing"] \in Series
      BY <2>1, <2>2, SeriesFacts, TurnFacts
    <3>2. r = [q EXCEPT !.phase = "repreparing"]
      OBVIOUS
    <3> HIDE DEF q, r
    <3>3. r \in Series /\ r.phase = "repreparing" /\ r.request = q.request
      BY <3>1, <3>2 DEF Series
    <3> QED
      BY <2>1, <2>2, <3>1, <3>3, RequestForFacts
  <2> HIDE DEF r
  <2>4. LoopTypeOK'
    <3>1. series' \in [Tasks -> Series] /\ series[t].previous \in BOOLEAN
      BY <1>3, <2>3, SeriesFacts DEF Series
    <3> QED
      BY <1>1, <1>3, <2>2, <3>1, SeriesFacts
         DEF LoopTypeOK, RestoreSending, composer, others, ghosts
  <2>5. ~overlapped => isSending' = isSending
    BY <1>1, <1>3, OnlyWorker DEF IInv, FlagsRestored, RestoreSending
  <2>6. KeepsTexts
    BY <1>3 DEF KeepsTexts, compact
  <2>7. r.phase \in Working /\ r.phase # "compacting"
    BY <2>3 DEF Working, Phases
  <2> QED
    BY <1>1, <1>3, <2>3, <2>4, <2>5, <2>6, <2>7, OwnStepGoal DEF others, ghosts
<1> QED
  BY <1>2, <1>3 DEF CompactedInLoop

LEMMA StopBeforeStreamGoal ==
  ASSUME IInv, NEW t \in Tasks, StopBeforeStream(t) PROVE Goal
BY SeriesFacts, EndTurnGoal DEF StopBeforeStream, Working, Phases

LEMMA StreamStoppedGoal == ASSUME IInv, NEW t \in Tasks, StreamStopped(t) PROVE Goal
<1>1. PICK hist \in {history, series[t].request} :
        EndTurn(t, IF Boundary = "" THEN "stopped" ELSE Boundary, hist)
  BY DEF StreamStopped
<1>2. series[t].phase = "streaming" /\ UNCHANGED <<isCompacting, executions>>
  BY DEF StreamStopped
<1> QED
  BY <1>1, <1>2, SeriesFacts, EndTurnGoal DEF Working, Phases, Requesting

LEMMA StreamFailsGoal == ASSUME IInv, NEW t \in Tasks, StreamFails(t) PROVE Goal
<1>1. PICK hist \in {history, series[t].request} : EndTurn(t, "error", hist)
  BY DEF StreamFails
<1>2. /\ series[t].phase \in {"loading", "streaming", "settling"}
      /\ UNCHANGED <<isCompacting, executions>>
  BY DEF StreamFails
<1> QED
  BY <1>1, <1>2, SeriesFacts, EndTurnGoal DEF Working, Phases, Requesting

LEMMA BeginStreamGoal == ASSUME IInv, NEW t \in Tasks, BeginStream(t) PROVE Goal
<1>1. /\ series[t].phase \in Working /\ series[t].phase \in Requesting
      /\ history' = series[t].request
      /\ settled' = settled \cup TextsOf(series[t].request)
      /\ UNCHANGED <<composer, flags, others, executions, overlapped>>
  BY DEF BeginStream, Working, Phases, Requesting
<1>2. PICK r \in Series :
        /\ r.phase \in {"loading", "streaming"} /\ r.request = series[t].request
        /\ series' = [series EXCEPT ![t] = r]
        /\ controller' \in {controller, t}
  <2>1. CASE /\ series' = [series EXCEPT ![t].phase = "loading", ![t].local = TRUE]
             /\ UNCHANGED controller
    <3> DEFINE r == [series[t] EXCEPT !.phase = "loading", !.local = TRUE]
    <3>1. r \in Series /\ r.phase = "loading" /\ r.request = series[t].request
      BY SeriesFacts DEF Series, Phases
    <3>2. series' = [series EXCEPT ![t] = r]
      BY <2>1, SeriesFacts DEF Series
    <3> QED
      BY <2>1, <3>1, <3>2
  <2>2. CASE /\ series' = [series EXCEPT ![t].phase = "streaming", ![t].local = FALSE]
             /\ controller' = t
    <3> DEFINE r == [series[t] EXCEPT !.phase = "streaming", !.local = FALSE]
    <3>1. r \in Series /\ r.phase = "streaming" /\ r.request = series[t].request
      BY SeriesFacts DEF Series, Phases
    <3>2. series' = [series EXCEPT ![t] = r]
      BY <2>2, SeriesFacts DEF Series
    <3> QED
      BY <2>2, <3>1, <3>2
  <2> QED
    BY <2>1, <2>2 DEF BeginStream
<1>3. LoopTypeOK'
  <2>1. settled' \subseteq Texts
    BY <1>1, SeriesFacts, TextsOfTexts DEF LoopTypeOK
  <2>2. series' \in [Tasks -> Series] /\ controller' \in Tasks \cup {None}
    BY <1>2, SeriesFacts DEF LoopTypeOK
  <2> QED
    BY <1>1, <2>1, <2>2, SeriesFacts DEF LoopTypeOK, composer, flags, others
<1>4. KeepsTexts
  BY <1>1, SeriesFacts DEF KeepsTexts
<1>5. r.phase \in Working /\ r.phase # "compacting"
  BY <1>2 DEF Working, Phases
<1> QED
  BY <1>1, <1>2, <1>3, <1>4, <1>5, OwnStepGoal DEF flags, others

LEMMA ModelLoadedGoal == ASSUME IInv, NEW t \in Tasks, ModelLoaded(t) PROVE Goal
<1> DEFINE r == [series[t] EXCEPT !.phase = "streaming"]
<1>1. /\ series[t].phase = "loading" /\ controller' = t
      /\ series' = [series EXCEPT ![t] = r]
      /\ UNCHANGED <<composer, history, flags, others, executions, ghosts>>
  BY SeriesFacts DEF ModelLoaded, Series
<1>2. r \in Series /\ r.phase = "streaming" /\ r.request = series[t].request
  BY SeriesFacts DEF Series, Phases
<1> HIDE DEF r
<1>3. LoopTypeOK'
  <2>1. series' \in [Tasks -> Series]
    BY <1>1, <1>2, SeriesFacts
  <2> QED
    BY <1>1, <2>1, SeriesFacts DEF LoopTypeOK, composer, flags, others, ghosts
<1>4. KeepsTexts
  BY <1>1 DEF KeepsTexts
<1>5. /\ r.phase \in Working /\ r.phase # "compacting"
      /\ series[t].phase \in Working /\ series[t].phase \in Requesting
  BY <1>1, <1>2 DEF Working, Phases, Requesting
<1>6. ~overlapped => TextsOf(history') \subseteq TextsOf(r.request)
  BY <1>1, <1>2, <1>5, SeriesFacts
<1> QED
  BY <1>1, <1>2, <1>3, <1>4, <1>5, <1>6, OwnStepGoal DEF flags, others, ghosts

LEMMA StreamedGoal == ASSUME IInv, NEW t \in Tasks, Streamed(t) PROVE Goal
<1>1. PICK empty \in BOOLEAN :
        series' = [series EXCEPT ![t].phase = "settling", ![t].empty = empty,
                                 ![t].local = FALSE, ![t].aborted = FALSE]
  BY DEF Streamed
<1> DEFINE r == [series[t] EXCEPT !.phase = "settling", !.empty = empty,
                                  !.local = FALSE, !.aborted = FALSE]
<1>2. /\ series[t].phase = "streaming" /\ controller' \in {None, controller}
      /\ series' = [series EXCEPT ![t] = r]
      /\ UNCHANGED <<composer, history, flags, others, executions, ghosts>>
  BY <1>1, SeriesFacts DEF Streamed, Series
<1>3. r \in Series /\ r.phase = "settling" /\ r.request = series[t].request
  BY SeriesFacts DEF Series, Phases
<1> HIDE DEF r
<1>4. LoopTypeOK'
  <2>1. series' \in [Tasks -> Series] /\ controller' \in Tasks \cup {None}
    BY <1>2, <1>3, SeriesFacts DEF LoopTypeOK
  <2> QED
    BY <1>2, <2>1, SeriesFacts DEF LoopTypeOK, composer, flags, others, ghosts
<1>5. KeepsTexts
  BY <1>2 DEF KeepsTexts
<1>6. /\ r.phase \in Working /\ r.phase # "compacting"
      /\ series[t].phase \in Working /\ series[t].phase \in Requesting
  BY <1>2, <1>3 DEF Working, Phases, Requesting
<1>7. ~overlapped => TextsOf(history') \subseteq TextsOf(r.request)
  BY <1>2, <1>3, <1>6, SeriesFacts
<1> QED
  BY <1>2, <1>3, <1>4, <1>5, <1>6, <1>7, OwnStepGoal DEF flags, others, ghosts

LEMMA SettledGoal == ASSUME IInv, NEW t \in Tasks, Settled(t) PROVE Goal
<1>1. /\ series[t].phase = "settling" /\ UNCHANGED <<isCompacting, executions>>
      /\ series[t].phase \in Working /\ series[t].phase \in Requesting
  BY DEF Settled, Working, Phases, Requesting
<1>2. ASSUME NEW outcome, EndTurn(t, outcome, history)
      PROVE  Goal
  BY <1>1, <1>2, SeriesFacts, EndTurnGoal
<1>3. CASE /\ Retry(t)
           /\ UNCHANGED <<composer, isSending, stopRequested, controller, others, ghosts>>
  <2> DEFINE m == IF series[t].retries = 0 THEN series[t].next ELSE Made("retry", 0)
             r == Turn(m, series[t].request, series[t].retries + 1)
  <2>1. /\ history' = series[t].request /\ series' = [series EXCEPT ![t] = r]
        /\ series[t].retries + 1 \in 0 .. MaxRetries
    BY <1>3, SeriesFacts, AgentAssumption DEF Retry
  <2>2. m \in Messages
    BY SeriesFacts, MessageTypes
  <2> HIDE DEF m
  <2>3. /\ r \in Series /\ r.phase = "preparing"
        /\ TextsOf(history') \subseteq TextsOf(r.request)
    BY <2>1, <2>2, SeriesFacts, TurnFacts, RequestForFacts
  <2> HIDE DEF r
  <2>4. LoopTypeOK'
    <3>1. series' \in [Tasks -> Series]
      BY <2>1, <2>3, SeriesFacts
    <3> QED
      BY <1>1, <1>3, <2>1, <3>1, SeriesFacts DEF LoopTypeOK, composer, others, ghosts
  <2>5. KeepsTexts
    BY <1>1, <1>3, <2>1, SeriesFacts DEF KeepsTexts, ghosts
  <2>6. r.phase \in Working /\ r.phase # "compacting"
    BY <2>3 DEF Working, Phases
  <2> QED
    BY <1>1, <1>3, <2>1, <2>3, <2>4, <2>5, <2>6, OwnStepGoal DEF others, ghosts
<1>4. CASE /\ series' = [series EXCEPT ![t] =
                [Idle EXCEPT !.phase = "executing", !.next = series[t].next]]
           /\ UNCHANGED <<composer, history, isSending, stopRequested, controller, others,
                          ghosts>>
  <2> DEFINE r == [Idle EXCEPT !.phase = "executing", !.next = series[t].next]
  <2>1. r \in Series /\ r.phase = "executing"
    <3>1. series[t].next \in Messages /\ "executing" \in Phases
      BY SeriesFacts DEF Phases
    <3> QED
      BY <3>1, IdleFacts DEF Series
  <2>2. series' = [series EXCEPT ![t] = r]
    BY <1>4
  <2> HIDE DEF r
  <2>3. LoopTypeOK'
    <3>1. series' \in [Tasks -> Series]
      BY <2>1, <2>2, SeriesFacts
    <3> QED
      BY <1>1, <1>4, <3>1, SeriesFacts DEF LoopTypeOK, composer, others, ghosts
  <2>4. KeepsTexts
    BY <1>4 DEF KeepsTexts
  <2>5. r.phase \in Working /\ r.phase # "compacting" /\ r.phase \notin Requesting
    BY <2>1 DEF Working, Phases, Requesting
  <2> QED
    BY <1>1, <1>4, <2>1, <2>2, <2>3, <2>4, <2>5, OwnStepGoal DEF others, ghosts
<1> QED
  BY <1>2, <1>3, <1>4 DEF Settled

LEMMA ExecutedGoal == ASSUME IInv, NEW t \in Tasks, Executed(t) PROVE Goal
<1>1. /\ series[t].phase = "executing" /\ isCompacting' = isCompacting
      /\ series[t].phase \in Working
  BY DEF Executed, Working, Phases
<1>2. CASE /\ \E outcome \in {"complete", "error"} : EndTurn(t, outcome, history)
           /\ UNCHANGED executions
  BY <1>1, <1>2, SeriesFacts, EndTurnGoal
<1>3. CASE /\ executions < MaxExecutions
           /\ executions' = executions + 1
           /\ history' = Append(history, Made("output", executions'))
           /\ series' = [series EXCEPT ![t].phase = "recorded",
                                       ![t].next = Made("output", executions')]
           /\ UNCHANGED <<composer, isSending, stopRequested, controller, others, ghosts>>
  <2> DEFINE m == Made("output", executions')
             r == [series[t] EXCEPT !.phase = "recorded", !.next = m]
  <2>1. executions' \in 0 .. MaxExecutions /\ executions' \in Nat
    BY <1>3, SeriesFacts, AgentAssumption DEF LoopTypeOK
  <2>2. m \in Messages /\ history' = Append(history, m)
    BY <1>3, <2>1, MessageTypes
  <2>3. series' = [series EXCEPT ![t] = r]
    BY <1>3, SeriesFacts DEF Series
  <2> HIDE DEF m
  <2>4. r \in Series /\ r.phase = "recorded"
    BY <2>2, SeriesFacts DEF Series, Phases
  <2> HIDE DEF r
  <2>5. LoopTypeOK'
    <3>1. series' \in [Tasks -> Series] /\ history' \in Seq(Messages)
      BY <2>2, <2>3, <2>4, SeriesFacts, AppendFacts
    <3> QED
      BY <1>1, <1>3, <2>1, <3>1, SeriesFacts DEF LoopTypeOK, composer, others, ghosts
  <2>6. KeepsTexts
    BY <2>2, SeriesFacts, AppendFacts DEF KeepsTexts
  <2>7. r.phase \in Working /\ r.phase # "compacting" /\ r.phase \notin Requesting
    BY <2>4 DEF Working, Phases, Requesting
  <2> QED
    BY <1>1, <1>3, <2>3, <2>4, <2>5, <2>6, <2>7, OwnStepGoal DEF others, ghosts
<1> QED
  BY <1>2, <1>3 DEF Executed

LEMMA RecordedGoal == ASSUME IInv, NEW t \in Tasks, Recorded(t) PROVE Goal
<1>1. /\ series[t].phase = "recorded" /\ UNCHANGED <<isCompacting, executions>>
      /\ series[t].phase \in Working
  BY DEF Recorded, Working, Phases
<1>2. CASE EndTurn(t, Boundary, history)
  BY <1>1, <1>2, SeriesFacts, EndTurnGoal
<1>3. CASE /\ series' = [series EXCEPT ![t] = Turn(series[t].next, history, 0)]
           /\ UNCHANGED <<composer, history, isSending, stopRequested, controller, others,
                          ghosts>>
  <2> DEFINE r == Turn(series[t].next, history, 0)
  <2>1. /\ r \in Series /\ r.phase = "preparing"
        /\ TextsOf(history) \subseteq TextsOf(r.request)
    <3>1. 0 \in 0 .. MaxRetries
      BY AgentAssumption
    <3> QED
      BY <3>1, SeriesFacts, TurnFacts, RequestForFacts
  <2>2. series' = [series EXCEPT ![t] = r]
    BY <1>3
  <2> HIDE DEF r
  <2>3. LoopTypeOK'
    <3>1. series' \in [Tasks -> Series]
      BY <2>1, <2>2, SeriesFacts
    <3> QED
      BY <1>1, <1>3, <3>1, SeriesFacts DEF LoopTypeOK, composer, others, ghosts
  <2>4. KeepsTexts
    BY <1>3 DEF KeepsTexts
  <2>5. r.phase \in Working /\ r.phase # "compacting"
    BY <2>1 DEF Working, Phases
  <2> QED
    BY <1>1, <1>3, <2>1, <2>2, <2>3, <2>4, <2>5, OwnStepGoal DEF others, ghosts
<1> QED
  BY <1>2, <1>3 DEF Recorded

-----------------------------------------------------------------------------
(* The invariant is inductive. *)

LEMMA InitInv == ASSUME AgentAssumption, Init PROVE IInv
<1>1. Idle \in Series /\ Idle.phase = "idle"
  BY IdleFacts
<1>2. \A t \in Tasks : series[t] = Idle
  BY DEF Init
<1>3. LoopTypeOK
  <2>1. series \in [Tasks -> Series]
    BY <1>1 DEF Init
  <2>2. <<>> \in Seq(Texts) /\ <<>> \in Seq(Messages)
    OBVIOUS
  <2>3. 0 \in 0 .. MaxTexts /\ 0 \in 0 .. MaxExecutions
    BY AgentAssumption
  <2> QED
    BY <2>1, <2>2, <2>3 DEF Init, LoopTypeOK, Compactors, NoCompaction
<1>4. SeriesWorking = {} /\ isSending = FALSE /\ compactor.phase = "idle" /\ ~rerun
  BY <1>1, <1>2 DEF Init, SeriesWorking, Working, NoCompaction
<1>5. isSending = JobRuns
  <2>1. ~JobRuns => FALSE = JobRuns
    <3> HIDE DEF JobRuns
    <3> QED
      OBVIOUS
  <2>2. ~JobRuns
    BY <1>4 DEF JobRuns
  <2> QED
    BY <1>4, <2>1, <2>2
<1>6. BusyIsALock
  BY <1>4, <1>5 DEF BusyIsALock
<1>7. FlagsRestored /\ RequestCovers
  BY <1>1, <1>2, <1>4 DEF FlagsRestored, RequestCovers, Requesting
<1> QED
  BY <1>3, <1>6, <1>7 DEF IInv

LEMMA StutterGoal == ASSUME IInv, UNCHANGED vars PROVE Goal
<1>1. LoopTypeOK'
  BY DEF IInv, LoopTypeOK, vars, composer, flags, others, ghosts
<1> QED
  BY <1>1, QuietStepGoal DEF vars, composer, flags, others, ghosts

LEMMA StepGoal == ASSUME IInv, [Next]_vars PROVE Goal
<1>1. ASSUME NEW t \in Tasks, Advance(t)
      PROVE  Goal
  BY <1>1, TakeDraftGoal, StartSeriesGoal, PrepareFailsGoal, OverBudgetGoal,
     StopBeforeStreamGoal, BeginStreamGoal, ModelLoadedGoal, StreamStoppedGoal,
     SettledGoal, RecordedGoal DEF Advance
<1>2. ASSUME NEW t \in Tasks,
             Submit(t) \/ Answered(t) \/ Executed(t) \/ StreamFails(t)
      PROVE  Goal
  BY <1>2, SubmitGoal, StreamedGoal, CompactedInLoopGoal, ExecutedGoal, StreamFailsGoal
     DEF Answered
<1>3. CASE TypeDraft \/ QueueDraft \/ RequestStop \/ Clear \/ AskCompact
  BY <1>3, TypeDraftGoal, QueueDraftGoal, RequestStopGoal, ClearGoal, AskCompactGoal
<1>4. CASE BeginCompact \/ EndCompact \/ Rerun \/ EndRerun
  BY <1>4, BeginCompactGoal, EndCompactGoal, RerunGoal, EndRerunGoal
<1> QED
  BY <1>1, <1>2, <1>3, <1>4, StutterGoal DEF Next

LEMMA AlwaysInv == ASSUME AgentAssumption PROVE Spec => []IInv
<1>1. Init => IInv
  BY InitInv
<1>2. IInv /\ [Next]_vars => IInv'
  BY StepGoal DEF Goal
<1> QED
  BY <1>1, <1>2, PTL DEF Spec

\* Every variable of the agent's store keeps its type, for any number of calls,
\* texts, retries and executions.
THEOREM LoopTypeCorrect == ASSUME AgentAssumption PROVE Spec => []LoopTypeOK
<1>1. IInv => LoopTypeOK
  BY DEF IInv
<1> QED
  BY <1>1, AlwaysInv, PTL

\* isSending is set exactly while one job runs, as long as none began while it was
\* set: through every end of a turn, a compaction inside a turn and one the user
\* asked for (runSubmissionSeries, compactHistory, handleThreadClick).
THEOREM BusyFlagLocks == ASSUME AgentAssumption PROVE Spec => []BusyIsALock
<1>1. IInv => BusyIsALock
  BY DEF IInv
<1> QED
  BY <1>1, AlwaysInv, PTL

\* No turn, retry, failure or stop takes a text out of the chat, although each
\* sets the history from a list taken before its awaits (runConversationLoop).
THEOREM TextsStay == ASSUME AgentAssumption PROVE Spec => HistoryKeepsTexts
<1>1. IInv /\ [Next]_vars => [KeepsTexts]_vars
  BY StepGoal DEF Goal
<1>2. [KeepsTexts]_vars =>
        [~overlapped' =>
           \/ TextsOf(history) \subseteq TextsOf(history')
           \/ history' \in {<<>>, <<Made("compact", 0)>>}]_vars
  BY DEF KeepsTexts
<1> QED
  BY <1>1, <1>2, AlwaysInv, PTL DEF Spec, HistoryKeepsTexts

=============================================================================
