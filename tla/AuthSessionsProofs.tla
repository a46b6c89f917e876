------------------------- MODULE AuthSessionsProofs -------------------------
(***************************************************************************)
(* Type correctness of AuthSessions, that a challenge is given to one      *)
(* login, and that the file holds the sessions whenever the processes took *)
(* turns, for any workers, requests and challenges.                        *)
(***************************************************************************)
EXTENDS AuthSessions, TLAPS

\* What an action makes of one request is a request again.
LEMMA RequestMade ==
  ASSUME NEW q \in RequestType, NEW p \in Phases, NEW S \in SUBSET Logins
  PROVE  /\ [q EXCEPT !.phase = p] \in RequestType
         /\ [q EXCEPT !.phase = p, !.copy = S] \in RequestType
BY DEF RequestType

LEMMA ArrivedIsRequest ==
  ASSUME NEW p \in Phases, NEW k \in Kinds, NEW w \in Workers,
         NEW t \in Challenges \cup Logins \cup {None}
  PROVE  [Idle EXCEPT !.phase = p, !.kind = k, !.worker = w, !.target = t]
           \in RequestType
BY DEF RequestType, Idle, Phases, Kinds

\* Only logins have the kind "login" once they have arrived.
KindsFit ==
  \A r \in Requests :
    request[r].phase # "idle" /\ request[r].kind = "login" => r \in Logins

\* What a request of the right kind writes are sessions.
LEMMA UpdatedAreLogins ==
  ASSUME NEW r, request[r].kind = "login" => r \in Logins,
         NEW S \in SUBSET Logins
  PROVE  Updated(r, S) \in SUBSET Logins
BY DEF Updated

LEMMA FileLoginsAreLogins == AuthTypeOK => FileLogins \in SUBSET Logins
BY DEF AuthTypeOK, FileLogins

\* The part of the type invariant that needs its own induction.
TInv == AuthTypeOK /\ KindsFit

LEMMA TInvInit == ASSUME AuthAssumption PROVE Init => TInv
BY DEF Init, TInv, AuthTypeOK, KindsFit, Idle, RequestType, Phases, Kinds,
       Changing, AuthAssumption

LEMMA TInvArrive ==
  ASSUME TInv, NEW r \in Requests, NEW k \in Kinds, NEW w \in Workers,
         NEW t \in Challenges \cup Logins \cup {None},
         NEW p \in {"taking", "ready"}, k = "login" => r \in Logins,
         Arrive(r, k, w, t, p)
  PROVE  TInv'
<1> DEFINE q == [Idle EXCEPT !.phase = p, !.kind = k, !.worker = w, !.target = t]
<1>1. q \in RequestType
  BY ArrivedIsRequest DEF Phases
<1>2. q.kind = k
  BY DEF Idle
<1>3. request' = [request EXCEPT ![r] = q]
  BY DEF Arrive
<1> HIDE DEF q
<1>4. AuthTypeOK'
  BY <1>1, <1>3 DEF TInv, AuthTypeOK, Arrive, store, views, history
<1>5. KindsFit'
  BY <1>2, <1>3 DEF TInv, AuthTypeOK, KindsFit
<1>6. QED
  BY <1>4, <1>5 DEF TInv

\* A step that gives one request another phase.
LEMMA TInvPhase ==
  ASSUME TInv, NEW r \in Requests, NEW p \in Phases,
         request' = [request EXCEPT ![r].phase = p],
         request[r].phase # "idle"
  PROVE  request' \in [Requests -> RequestType] /\ KindsFit'
<1>1. request[r] \in RequestType
  BY DEF TInv, AuthTypeOK
<1>2. [request[r] EXCEPT !.phase = p] \in RequestType
  BY <1>1, RequestMade
<1>3. [request[r] EXCEPT !.phase = p].kind = request[r].kind
  BY <1>1 DEF RequestType
<1>4. request' = [request EXCEPT ![r] = [request[r] EXCEPT !.phase = p]]
  BY <1>1 DEF TInv, AuthTypeOK
<1>5. QED
  BY <1>2, <1>3, <1>4 DEF TInv, AuthTypeOK, KindsFit

\* A step that gives it other logins as well.
LEMMA TInvCopy ==
  ASSUME TInv, NEW r \in Requests, NEW p \in Phases, NEW S \in SUBSET Logins,
         request' = [request EXCEPT ![r].phase = p, ![r].copy = S],
         request[r].phase # "idle"
  PROVE  request' \in [Requests -> RequestType] /\ KindsFit'
<1>1. request[r] \in RequestType
  BY DEF TInv, AuthTypeOK
<1>2. [request[r] EXCEPT !.phase = p, !.copy = S] \in RequestType
  BY <1>1, RequestMade
<1>3. [request[r] EXCEPT !.phase = p, !.copy = S].kind = request[r].kind
  BY <1>1 DEF RequestType
<1>4. request' = [request EXCEPT ![r] = [request[r] EXCEPT !.phase = p, !.copy = S]]
  BY <1>1 DEF TInv, AuthTypeOK
<1>5. QED
  BY <1>2, <1>3, <1>4 DEF TInv, AuthTypeOK, KindsFit

LEMMA TInvNext == ASSUME AuthAssumption PROVE TInv /\ [Next]_vars => TInv'
<1> SUFFICES ASSUME TInv, [Next]_vars PROVE TInv'
  OBVIOUS
<1> USE DEF store, views, history
<1>1. CASE \E c \in Challenges : IssueChallenge(c) \/ ExpireChallenge(c)
  BY <1>1 DEF IssueChallenge, ExpireChallenge, TInv, AuthTypeOK, KindsFit
<1>2. CASE \E s \in Logins : ExpireSession(s)
  BY <1>2 DEF ExpireSession, TInv, AuthTypeOK, KindsFit
<1>3. CASE \E r \in Logins, w \in Workers, c \in Challenges : LoginArrives(r, w, c)
  <2>1. PICK r \in Logins, w \in Workers, c \in Challenges :
          Arrive(r, "login", w, c, "taking")
    BY <1>3 DEF LoginArrives
  <2>2. r \in Requests /\ "login" \in Kinds
    BY DEF Requests, Kinds
  <2>3. QED
    BY <2>1, <2>2, TInvArrive
<1>4. CASE \E r \in Others, s \in Logins, w \in Workers :
             LogoutArrives(r, w, s) \/ PasswordArrives(r, w, s)
  <2>1. PICK r \in Others, s \in Logins, w \in Workers :
          Arrive(r, "logout", w, s, "ready") \/ Arrive(r, "password", w, None, "ready")
    BY <1>4 DEF LogoutArrives, PasswordArrives
  <2>2. r \in Requests /\ "logout" \in Kinds /\ "password" \in Kinds
    BY DEF Requests, Kinds
  <2>3. CASE Arrive(r, "logout", w, s, "ready")
    BY <2>2, <2>3, TInvArrive
  <2>4. CASE Arrive(r, "password", w, None, "ready")
    BY <2>2, <2>4, TInvArrive
  <2>5. QED
    BY <2>1, <2>3, <2>4
<1>5. CASE \E r \in Requests : Work(r)
  <2>1. PICK r \in Requests : Work(r)
    BY <1>5
  <2>2. FileLogins \in SUBSET Logins /\ request[r] \in RequestType
    BY FileLoginsAreLogins DEF TInv, AuthTypeOK
  <2>3. CASE TakeChallenge(r)
    <3>1. PICK p \in {"ready", "refused"} : request' = [request EXCEPT ![r].phase = p]
      BY <2>3 DEF TakeChallenge
    <3>3. request' \in [Requests -> RequestType] /\ KindsFit'
      BY <2>3, <3>1, TInvPhase DEF TakeChallenge, Phases
    <3>4. challenge' \in [Challenges -> {"unissued", "live", "gone"}]
      BY <2>3 DEF TakeChallenge, ChallengeAfterTake, TInv, AuthTypeOK
    <3>5. QED
      BY <2>3, <3>3, <3>4 DEF TakeChallenge, TInv, AuthTypeOK
  <2>4. CASE Refuse(r)
    <3>1. request' \in [Requests -> RequestType] /\ KindsFit'
      BY <2>4, TInvPhase DEF Refuse, Phases, Changing
    <3>2. QED
      BY <2>4, <3>1 DEF Refuse, TInv, AuthTypeOK
  <2>5. CASE NothingToRevoke(r)
    <3>1. request' \in [Requests -> RequestType] /\ KindsFit'
      BY <2>5, TInvPhase DEF NothingToRevoke, Phases, Changing
    <3>2. QED
      BY <2>5, <3>1 DEF NothingToRevoke, TInv, AuthTypeOK
  <2>6. CASE ReadLogins(r)
    <3>1. request[r].kind = "login" => r \in Logins
      BY <2>6 DEF ReadLogins, TInv, KindsFit
    <3>2. Updated(r, LoginsRead(r)) \in SUBSET Logins
      BY <2>2, <3>1, UpdatedAreLogins DEF LoginsRead, Sanitized
    <3>3. request' \in [Requests -> RequestType] /\ KindsFit'
      BY <2>6, <3>1, <3>2, TInvCopy DEF ReadLogins, Phases
    <3>4. undisturbed' \in BOOLEAN
      BY <2>6 DEF ReadLogins
    <3>5. QED
      BY <2>6, <3>3, <3>4 DEF ReadLogins, TInv, AuthTypeOK
  <2>7. CASE TruncateFile(r)
    <3>1. request' \in [Requests -> RequestType] /\ KindsFit'
      BY <2>7, TInvPhase DEF TruncateFile, TInv, KindsFit, Phases, Changing
    <3>2. QED
      BY <2>7, <3>1 DEF TruncateFile, TInv, AuthTypeOK
  <2>8. CASE WriteFile(r)
    <3>1. request[r].kind = "login" => r \in Logins
      BY <2>8 DEF WriteFile, TInv, KindsFit, Changing
    <3>2. request' \in [Requests -> RequestType] /\ KindsFit'
      BY <2>8, <3>1, TInvCopy DEF WriteFile, Phases
    <3>3. Updated(r, sessions) \in SUBSET Logins
      BY <3>1, UpdatedAreLogins DEF TInv, AuthTypeOK
    <3>4. request[r].copy \in SUBSET Logins
      BY <2>2 DEF RequestType
    <3>5. file' \in [logins : SUBSET Logins, parses : BOOLEAN]
      <4>1. PICK S \in {request[r].copy, {}}, b \in BOOLEAN :
              file' = [logins |-> S, parses |-> b]
        BY <2>8 DEF WriteFile
      <4>2. S \in SUBSET Logins
        BY <3>4
      <4>3. QED
        BY <4>1, <4>2
    <3>6. QED
      BY <2>8, <3>2, <3>3, <3>5 DEF WriteFile, TInv, AuthTypeOK
  <2>9. CASE AnswerRequest(r)
    <3>1. request' \in [Requests -> RequestType] /\ KindsFit'
      BY <2>9, TInvPhase DEF AnswerRequest, Phases, Changing
    <3>2. QED
      BY <2>2, <2>9, <3>1 DEF AnswerRequest, Reindexed, TInv, AuthTypeOK
  <2>10. QED
    BY <2>1, <2>3, <2>4, <2>5, <2>6, <2>7, <2>8, <2>9 DEF Work
<1>6. CASE Reindex
  BY <1>6, FileLoginsAreLogins DEF Reindex, Reindexed, TInv, AuthTypeOK, KindsFit
<1>7. CASE \E w \in Workers : Replicate(w)
  BY <1>7 DEF Replicate, TInv, AuthTypeOK, KindsFit
<1>8. CASE \E w \in Workers : WorkerExits(w)
  <2>1. PICK w \in Workers : WorkerExits(w)
    BY <1>8
  <2>2. \A r \in Requests : [request[r] EXCEPT !.phase = "lost", !.copy = {}] \in RequestType
    <3>1. \A q \in RequestType : [q EXCEPT !.phase = "lost", !.copy = {}] \in RequestType
      BY RequestMade DEF Phases
    <3>2. QED
      BY <3>1 DEF TInv, AuthTypeOK
  <2>3. request' \in [Requests -> RequestType]
    BY <2>1, <2>2 DEF WorkerExits, TInv, AuthTypeOK
  <2>4. KindsFit'
    <3>1. \A q \in RequestType : [q EXCEPT !.phase = "lost", !.copy = {}].kind = q.kind
      BY DEF RequestType
    <3>2. \A r \in Requests :
            \/ request'[r] = request[r]
            \/ /\ request'[r].kind = request[r].kind
               /\ request[r].phase # "idle"
      <4> SUFFICES ASSUME NEW r \in Requests
                   PROVE  \/ request'[r] = request[r]
                          \/ /\ request'[r].kind = request[r].kind
                             /\ request[r].phase # "idle"
        OBVIOUS
      <4>1. request[r] \in RequestType
        BY DEF TInv, AuthTypeOK
      <4>2. \/ request'[r] = request[r]
            \/ /\ request'[r] = [request[r] EXCEPT !.phase = "lost", !.copy = {}]
               /\ request[r].phase # "idle"
        <5> DEFINE here == {q \in Requests : /\ request[q].worker = w
                                             /\ request[q].phase \notin Ended \cup {"idle"}}
        <5>1. request'[r] = IF r \in here THEN [request[r] EXCEPT !.phase = "lost", !.copy = {}]
                            ELSE request[r]
          BY <2>1, Zenon DEF WorkerExits
        <5>2. r \in here => request[r].phase # "idle"
          OBVIOUS
        <5> HIDE DEF here
        <5>3. QED
          BY <5>1, <5>2, Zenon
      <4>3. QED
        BY <3>1, <4>1, <4>2
    <3>3. QED
      BY <3>2 DEF KindsFit, TInv
  <2>5. exits' \in 0 .. MaxExits
    <3>1. exits < MaxExits /\ exits' = exits + 1 /\ exits \in 0 .. MaxExits
      BY <2>1 DEF WorkerExits, TInv, AuthTypeOK
    <3>2. QED
      BY <3>1 DEF AuthAssumption
  <2>6. undisturbed' \in BOOLEAN
    BY <2>1 DEF WorkerExits
  <2>7. QED
    BY <2>1, <2>3, <2>4, <2>5, <2>6 DEF WorkerExits, TInv, AuthTypeOK
<1>9. CASE UNCHANGED vars
  BY <1>9 DEF vars, TInv, AuthTypeOK, KindsFit
<1>10. QED
  BY <1>1, <1>2, <1>3, <1>4, <1>5, <1>6, <1>7, <1>8, <1>9 DEF Next

\* The variables of the sessions keep their types (service.js, user_index.js).
THEOREM AuthTypeCorrect == ASSUME AuthAssumption PROVE Spec => []AuthTypeOK
<1>1. TInv => AuthTypeOK
  BY DEF TInv
<1>2. QED
  BY <1>1, TInvInit, TInvNext, PTL DEF Spec

-----------------------------------------------------------------------------
(* A challenge is given to one login: once it is, the challenge is gone.   *)

OnceInv ==
  /\ ChallengeUsedOnce
  /\ \A c \in Challenges : Given(c) # {} => challenge[c] = "gone"

\* A step that gives nothing and brings no challenge back.
LEMMA NothingGiven ==
  ASSUME OnceInv,
         \A c \in Challenges : Given(c)' \subseteq Given(c),
         \A c \in Challenges : challenge[c] = "gone" => challenge'[c] = "gone"
  PROVE  OnceInv'
BY DEF OnceInv, ChallengeUsedOnce

\* A step that changes no login but in its phase, and none into a given one.
LEMMA SameGiven ==
  ASSUME OnceInv, UNCHANGED challenge,
         \A r \in Logins :
           \/ request'[r] = request[r]
           \/ /\ request'[r].target = request[r].target
              /\ request[r].phase \in {"ready", "read", "truncated", "written"}
           \/ request'[r].phase \in {"idle", "taking", "refused", "lost"}
  PROVE  OnceInv'
<1>1. \A c \in Challenges : Given(c)' \subseteq Given(c)
  BY DEF Given
<1>2. QED
  BY <1>1, NothingGiven

LEMMA OnceInit == Init => OnceInv
BY DEF Init, OnceInv, ChallengeUsedOnce, Given, Idle, Requests

LEMMA OnceNext == ASSUME AuthAssumption PROVE TInv /\ OnceInv /\ [Next]_vars => OnceInv'
<1> SUFFICES ASSUME TInv, OnceInv, [Next]_vars PROVE OnceInv'
  OBVIOUS
<1> USE DEF store, views, history
<1>0. request \in [Requests -> RequestType] /\ Logins \subseteq Requests
  BY DEF TInv, AuthTypeOK, Requests
<1>1. CASE \E c \in Challenges : IssueChallenge(c) \/ ExpireChallenge(c)
  <2>1. request' = request
    BY <1>1 DEF IssueChallenge, ExpireChallenge
  <2>2. \A d \in Challenges : challenge[d] = "gone" => challenge'[d] = "gone"
    BY <1>1 DEF IssueChallenge, ExpireChallenge, TInv, AuthTypeOK
  <2>3. QED
    BY <2>1, <2>2, NothingGiven DEF Given
<1>2. CASE UNCHANGED <<request, challenge>>
  BY <1>2, SameGiven
<1>3. CASE \E r \in Logins, w \in Workers, c \in Challenges : LoginArrives(r, w, c)
  <2>1. PICK r \in Logins, w \in Workers, c \in Challenges :
          Arrive(r, "login", w, c, "taking")
    BY <1>3 DEF LoginArrives
  <2>2. request'[r].phase = "taking" /\ \A q \in Logins \ {r} : request'[q] = request[q]
    BY <1>0, <2>1 DEF Arrive, Idle
  <2>3. QED
    BY <2>1, <2>2, SameGiven DEF Arrive
<1>4. CASE \E r \in Others, s \in Logins, w \in Workers :
             LogoutArrives(r, w, s) \/ PasswordArrives(r, w, s)
  <2>1. \A q \in Logins : request'[q] = request[q]
    BY <1>0, <1>4 DEF LogoutArrives, PasswordArrives, Arrive, AuthAssumption
  <2>2. QED
    BY <1>4, <2>1, SameGiven DEF LogoutArrives, PasswordArrives, Arrive
<1>5. CASE \E r \in Requests : Work(r)
  <2>1. PICK r \in Requests : Work(r)
    BY <1>5
  <2>2. CASE TakeChallenge(r)
    <3>0. PICK c : c = request[r].target
      OBVIOUS
    <3>1. PICK p \in {"ready", "refused"} :
            /\ request' = [request EXCEPT ![r].phase = p]
            /\ p = "ready" => challenge[c] = "live"
      BY <2>2, <3>0 DEF TakeChallenge
    <3>2. /\ request'[r].phase = p /\ request'[r].target = c
          /\ \A q \in Requests \ {r} : request'[q] = request[q]
      BY <1>0, <3>0, <3>1 DEF RequestType
    <3>3. challenge' = [challenge EXCEPT ![c] = "gone"]
      BY <2>2, <3>0 DEF TakeChallenge, ChallengeAfterTake
    <3>4. \A d \in Challenges : challenge'[d] = challenge[d] \/ challenge'[d] = "gone"
      BY <3>3 DEF TInv, AuthTypeOK
    <3>5. \A d \in Challenges \ {c} : Given(d)' \subseteq Given(d)
      BY <1>0, <3>2 DEF Given
    <3>6. c \in Challenges => challenge'[c] = "gone"
      BY <3>3 DEF TInv, AuthTypeOK
    <3>7. CASE p = "refused"
      <4>1. Given(c)' \subseteq Given(c)
        BY <1>0, <3>2, <3>7 DEF Given
      <4>2. \A d \in Challenges : Given(d)' \subseteq Given(d)
        <5> SUFFICES ASSUME NEW d \in Challenges PROVE Given(d)' \subseteq Given(d)
          OBVIOUS
        <5>1. CASE d = c
          BY <4>1, <5>1
        <5>2. CASE d # c
          BY <3>5, <5>2
        <5>3. QED
          BY <5>1, <5>2
      <4>3. \A d \in Challenges : challenge[d] = "gone" => challenge'[d] = "gone"
        BY <3>4
      <4>4. QED
        BY <4>2, <4>3, NothingGiven
    <3>8. CASE p = "ready"
      <4>1. c \in Challenges => Given(c) = {}
        BY <3>1, <3>8 DEF OnceInv
      <4>2. Given(c)' \subseteq Given(c) \cup {r}
        BY <1>0, <3>2 DEF Given
      <4> DEFINE Once(G, ch) == (\A a, b \in G : a = b) /\ (G # {} => ch = "gone")
      <4>3. \A d \in Challenges : Once(Given(d), challenge[d])
        BY DEF OnceInv, ChallengeUsedOnce
      <4>4. ASSUME NEW d \in Challenges PROVE Once(Given(d)', challenge'[d])
        <5>1. CASE d = c
          BY <3>6, <4>1, <4>2, <5>1
        <5>2. CASE d # c
          <6>1. Given(d)' \subseteq Given(d)
            BY <3>5, <5>2
          <6>2. QED
            BY <3>4, <4>3, <6>1
        <5>3. QED
          BY <5>1, <5>2
      <4>5. QED
        BY <4>4 DEF OnceInv, ChallengeUsedOnce
    <3>9. QED
      BY <3>1, <3>7, <3>8
  <2>3. CASE UNCHANGED challenge /\ request[r].phase \notin {"idle", "taking", "answered", "refused", "lost"}
    <3>1. request' \in [Requests -> RequestType] /\ request[r] \in RequestType
      BY <1>0, <1>5, TInvNext DEF TInv, AuthTypeOK
    <3>2. request[r].phase \in {"ready", "read", "truncated", "written"}
      BY <2>3, <3>1 DEF RequestType, Phases
    <3>3. request'[r].target = request[r].target
      BY <1>0, <2>1, <2>3, <3>1 DEF Work, TakeChallenge, Refuse, NothingToRevoke, ReadLogins,
           TruncateFile, WriteFile, AnswerRequest, RequestType
    <3>4. \A q \in Requests \ {r} : request'[q] = request[q]
      BY <1>0, <2>1, <2>3 DEF Work, TakeChallenge, Refuse, NothingToRevoke, ReadLogins,
           TruncateFile, WriteFile, AnswerRequest
    <3>5. QED
      BY <1>0, <2>3, <3>2, <3>3, <3>4, SameGiven
  <2>4. QED
    BY <2>1, <2>2, <2>3 DEF Work, Refuse, NothingToRevoke, ReadLogins, TruncateFile,
         WriteFile, AnswerRequest
<1>6. CASE \E w \in Workers : WorkerExits(w)
  <2>1. PICK w \in Workers : WorkerExits(w)
    BY <1>6
  <2>2. \A r \in Requests : request'[r] = request[r] \/ request'[r].phase = "lost"
    <3> SUFFICES ASSUME NEW r \in Requests
                 PROVE  request'[r] = request[r] \/ request'[r].phase = "lost"
      OBVIOUS
    <3>1. request'[r] = request[r]
          \/ request'[r] = [request[r] EXCEPT !.phase = "lost", !.copy = {}]
      BY <2>1 DEF WorkerExits
    <3>2. [request[r] EXCEPT !.phase = "lost", !.copy = {}].phase = "lost"
      BY <1>0 DEF RequestType
    <3>3. QED
      BY <3>1, <3>2
  <2>3. QED
    BY <1>0, <2>1, <2>2, SameGiven DEF WorkerExits
<1>7. QED
  BY <1>1, <1>2, <1>3, <1>4, <1>5, <1>6
     DEF Next, vars, ExpireSession, Reindex, Replicate

\* No challenge is given to two logins (consumeLoginChallenge, takeEntry).
THEOREM ChallengeGivenOnce == ASSUME AuthAssumption PROVE Spec => []ChallengeUsedOnce
<1>1. OnceInv => ChallengeUsedOnce
  BY DEF OnceInv
<1>2. QED
  BY <1>1, TInvInit, TInvNext, OnceInit, OnceNext, PTL DEF Spec

-----------------------------------------------------------------------------
(* The file holds the sessions when the processes took turns.  Between the *)
(* read and the end of a write the promise is kept by the logins the one   *)
(* process holds.                                                          *)

Agree(S, T) == S \ expired = T \ expired

TurnsInv ==
  undisturbed =>
    /\ \A r, q \in Requests :
         request[r].phase \in Changing /\ request[q].phase \in Changing => r = q
    /\ (\A r \in Requests : request[r].phase # "truncated") =>
         file.parses /\ Agree(file.logins, sessions)
    /\ \A r \in Requests :
         request[r].phase \in Changing => Agree(request[r].copy, Updated(r, sessions))
    /\ \A r \in Requests : request[r].phase = "truncated" => ~file.parses

\* A change of logins that agree gives logins that agree.
LEMMA UpdatedAgree ==
  ASSUME NEW r, NEW S, NEW T, Agree(S, T)
  PROVE  Agree(Updated(r, S), Updated(r, T))
BY DEF Agree, Updated

\* A step away from the file: no request enters or leaves a change, but for
\* those that are lost before they truncated it.
LEMMA AwayFromTheFile ==
  ASSUME TurnsInv, UNCHANGED <<file, sessions>>,
         undisturbed' => undisturbed,
         expired \subseteq expired',
         \A r \in Requests :
           \/ /\ request'[r].phase = request[r].phase
              /\ request'[r].kind = request[r].kind
              /\ request'[r].target = request[r].target
              /\ request'[r].copy = request[r].copy
           \/ /\ request'[r].phase \notin Changing
              /\ undisturbed' => request[r].phase # "truncated"
  PROVE  TurnsInv'
<1> SUFFICES ASSUME undisturbed' PROVE TurnsInv'
  BY DEF TurnsInv
<1>1. \A r \in Requests :
        request'[r].phase \in Changing =>
          /\ request[r].phase \in Changing
          /\ request'[r].phase = request[r].phase
          /\ Updated(r, sessions)' = Updated(r, sessions)
          /\ request'[r].copy = request[r].copy
  BY DEF Updated
<1>2. \A S, T : Agree(S, T) => Agree(S, T)'
  BY DEF Agree
<1>3. \A r \in Requests : request'[r].phase = "truncated" <=> request[r].phase = "truncated"
  BY DEF Changing
<1>4. QED
  BY <1>1, <1>2, <1>3 DEF TurnsInv

LEMMA TurnsInit == Init => TurnsInv
BY DEF Init, TurnsInv, Agree, Idle, Changing

LEMMA TurnsNext == ASSUME AuthAssumption PROVE TInv /\ TurnsInv /\ [Next]_vars => TurnsInv'
<1> SUFFICES ASSUME TInv, TurnsInv, [Next]_vars PROVE TurnsInv'
  OBVIOUS
<1> USE DEF store, views, history
<1>0. request \in [Requests -> RequestType]
  BY DEF TInv, AuthTypeOK
<1>1. CASE UNCHANGED <<request, file, sessions, undisturbed>> /\ expired \subseteq expired'
  BY <1>1, AwayFromTheFile
<1>2. CASE \/ \E r \in Logins, w \in Workers, c \in Challenges : LoginArrives(r, w, c)
           \/ \E r \in Others, s \in Logins, w \in Workers :
                LogoutArrives(r, w, s) \/ PasswordArrives(r, w, s)
  <2>1. PICK r \in Requests, k \in Kinds, w \in Workers,
             t \in Challenges \cup Logins \cup {None}, p \in {"taking", "ready"} :
          Arrive(r, k, w, t, p)
    BY <1>2 DEF LoginArrives, LogoutArrives, PasswordArrives, Requests, Kinds
  <2>2. /\ request'[r].phase = p /\ request[r].phase = "idle"
        /\ \A q \in Requests \ {r} : request'[q] = request[q]
    BY <1>0, <2>1 DEF Arrive, Idle
  <2>3. UNCHANGED <<file, sessions, undisturbed, expired>>
    BY <2>1 DEF Arrive
  <2>4. QED
    BY <2>2, <2>3, AwayFromTheFile DEF Changing
<1>3. CASE \E r \in Requests : Work(r)
  <2>1. PICK r \in Requests : Work(r)
    BY <1>3
  <2>2. request[r] \in RequestType
    BY <1>0
  <2>3. CASE TakeChallenge(r) \/ Refuse(r) \/ NothingToRevoke(r) \/ AnswerRequest(r)
    <3>1. /\ request'[r].phase \in {"ready", "refused", "answered"}
          /\ request[r].phase \in {"taking", "ready", "written"}
          /\ \A q \in Requests \ {r} : request'[q] = request[q]
      BY <1>0, <2>2, <2>3 DEF TakeChallenge, Refuse, NothingToRevoke, AnswerRequest, RequestType
    <3>2. UNCHANGED <<file, sessions, undisturbed, expired>>
      BY <2>3 DEF TakeChallenge, Refuse, NothingToRevoke, AnswerRequest
    <3>3. QED
      BY <3>1, <3>2, AwayFromTheFile DEF Changing
  <2>4. CASE ReadLogins(r)
    <3> SUFFICES ASSUME undisturbed' PROVE TurnsInv'
      BY DEF TurnsInv
    <3>1. /\ undisturbed /\ UNCHANGED <<file, sessions, expired>>
          /\ request[r].phase = "ready"
          /\ \A q \in Requests \ {r} : request[q].phase \notin Changing
      BY <2>4 DEF ReadLogins, OthersChanging
    <3>2. file.parses /\ Agree(file.logins, sessions)
      BY <3>1 DEF TurnsInv, Changing
    <3>3. /\ request'[r].phase = "read"
          /\ request'[r].copy = Updated(r, Sanitized(file.logins))
          /\ request'[r].kind = request[r].kind
          /\ request'[r].target = request[r].target
          /\ \A q \in Requests \ {r} : request'[q] = request[q]
      BY <1>0, <2>2, <2>4, <3>2 DEF ReadLogins, LoginsRead, FileLogins, RequestType
    <3>4. Agree(Sanitized(file.logins), sessions)
      BY <3>2 DEF Sanitized, Agree
    <3>5. Agree(request'[r].copy, Updated(r, sessions))
      BY <3>3, <3>4, UpdatedAgree
    <3>6. /\ Updated(r, sessions)' = Updated(r, sessions)
          /\ \A S, T : Agree(S, T) => Agree(S, T)'
      BY <3>1, <3>3 DEF Updated, Agree
    <3>7. QED
      BY <3>1, <3>2, <3>3, <3>5, <3>6 DEF TurnsInv, Changing
  <2>5. CASE TruncateFile(r)
    <3> SUFFICES ASSUME undisturbed' PROVE TurnsInv'
      BY DEF TurnsInv
    <3>1. /\ undisturbed /\ UNCHANGED <<sessions, expired>>
          /\ request[r].phase = "read" /\ file'.parses = FALSE
      BY <2>5 DEF TruncateFile
    <3>2. /\ request'[r].phase = "truncated"
          /\ request'[r].copy = request[r].copy
          /\ request'[r].kind = request[r].kind
          /\ request'[r].target = request[r].target
          /\ \A q \in Requests \ {r} : request'[q] = request[q]
      BY <1>0, <2>2, <2>5 DEF TruncateFile, RequestType
    <3>3. Agree(request[r].copy, Updated(r, sessions))
          /\ \A q \in Requests \ {r} : request[q].phase \notin Changing
      BY <3>1 DEF TurnsInv, Changing
    <3>4. /\ Updated(r, sessions)' = Updated(r, sessions)
          /\ \A S, T : Agree(S, T) => Agree(S, T)'
      BY <3>1, <3>2 DEF Updated, Agree
    <3>5. QED
      BY <3>1, <3>2, <3>3, <3>4 DEF TurnsInv, Changing
  <2>6. CASE WriteFile(r)
    <3> SUFFICES ASSUME undisturbed' PROVE TurnsInv'
      BY DEF TurnsInv
    <3>1. /\ undisturbed /\ UNCHANGED expired /\ request[r].phase = "truncated"
          /\ sessions' = Updated(r, sessions)
      BY <2>6 DEF WriteFile
    <3>2. /\ ~file.parses /\ Agree(request[r].copy, Updated(r, sessions))
          /\ \A q \in Requests \ {r} : request[q].phase \notin Changing
      BY <3>1 DEF TurnsInv, Changing
    <3>3. file' = [logins |-> request[r].copy, parses |-> TRUE]
      BY <2>6, <3>2 DEF WriteFile
    <3>4. /\ request'[r].phase = "written"
          /\ \A q \in Requests \ {r} : request'[q] = request[q]
      BY <1>0, <2>2, <2>6 DEF WriteFile, RequestType
    <3>5. file'.parses /\ Agree(file.logins, sessions)'
      BY <3>1, <3>2, <3>3 DEF Agree
    <3>6. \A q \in Requests : request'[q].phase \notin Changing
      BY <3>2, <3>4 DEF Changing
    <3>7. QED
      BY <3>5, <3>6 DEF TurnsInv, Changing
  <2>7. QED
    BY <2>1, <2>3, <2>4, <2>5, <2>6 DEF Work
<1>4. CASE \E w \in Workers : WorkerExits(w)
  <2>1. PICK w \in Workers : WorkerExits(w)
    BY <1>4
  <2>2. \A r \in Requests :
          \/ request'[r] = request[r]
          \/ /\ request'[r].phase = "lost"
             /\ undisturbed' => request[r].phase # "truncated"
    <3> SUFFICES ASSUME NEW r \in Requests
                 PROVE  \/ request'[r] = request[r]
                        \/ /\ request'[r].phase = "lost"
                           /\ undisturbed' => request[r].phase # "truncated"
      OBVIOUS
    <3>1. \/ request'[r] = request[r]
          \/ /\ request'[r] = [request[r] EXCEPT !.phase = "lost", !.copy = {}]
             /\ undisturbed' => request[r].phase # "truncated"
      BY <2>1 DEF WorkerExits
    <3>2. [request[r] EXCEPT !.phase = "lost", !.copy = {}].phase = "lost"
      BY <1>0 DEF RequestType
    <3>3. QED
      BY <3>1, <3>2
  <2>3. UNCHANGED <<file, sessions, expired>> /\ (undisturbed' => undisturbed)
    BY <2>1 DEF WorkerExits
  <2>4. QED
    BY <2>2, <2>3, AwayFromTheFile DEF Changing
<1>5. QED
  BY <1>1, <1>2, <1>3, <1>4
     DEF Next, vars, IssueChallenge, ExpireChallenge, ExpireSession, Reindex, Replicate

\* When the processes took turns and none was cut off in a write, the file
\* holds the sessions written and not ended (persistSessionForUser,
\* revokeSession, setUserPassword).
THEOREM FileKeepsSessions == ASSUME AuthAssumption PROVE Spec => []FileHoldsTheSessions
<1>1. TurnsInv => FileHoldsTheSessions
  BY DEF TurnsInv, FileHoldsTheSessions, Quiet, Changing, Agree
<1>2. QED
  BY <1>1, TInvInit, TInvNext, TurnsInit, TurnsNext, PTL DEF Spec

=============================================================================
