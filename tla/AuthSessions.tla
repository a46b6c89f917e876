---------------------------- MODULE AuthSessions ----------------------------
(***************************************************************************)
(* The sessions of one user (server/lib/auth/service.js, user_files.js,    *)
(* user_index.js): the worker processes that log in, log out and change    *)
(* the password all read, change and write one file, meta/logins.json,     *)
(* and the primary reads that file into the user index its workers follow. *)
(* Login challenges live in the primary's state system and are taken there *)
(* one at a time.                                                          *)
(*                                                                         *)
(* A session is named by the login request that creates it.  What one      *)
(* process does between two awaits is not interrupted by its own requests; *)
(* other processes run at any moment, also between the truncation and the  *)
(* write of one fs.writeFileSync.                                          *)
(***************************************************************************)
EXTENDS Naturals

CONSTANTS
  Workers,     \* worker processes of the cluster
  Logins,      \* login requests of the user, each naming its session
  Others,      \* the user's logouts and password changes
  Challenges,  \* login challenges the server may issue
  None,
  MaxExits     \* bound on the exits of worker processes

ASSUME AuthAssumption ==
  /\ Logins \cap Others = {}
  /\ None \notin Logins /\ None \notin Challenges /\ None \notin Workers
  /\ MaxExits \in Nat

VARIABLES
  challenge,    \* what the primary's state system has of each challenge
  request,      \* how far each request is, where, and the logins it holds
  file,         \* logins.json: its sessions, and whether it can be parsed
  expired,      \* sessions older than SESSION_TTL_MS
  index,        \* sessions of the primary's user_index
  replica,      \* sessions of each worker's copy of the user_index
  exits,        \* worker exits so far
  sessions,     \* history: what the file would hold, one write after another
  undisturbed   \* history: no two processes overlapped, no write was cut off

store == <<challenge, expired>>
views == <<index, replica>>
history == <<sessions, undisturbed>>
vars == <<challenge, request, file, expired, index, replica, exits, sessions,
          undisturbed>>

Requests == Logins \cup Others
Kinds == {"login", "logout", "password"}
Phases == {"idle", "taking", "ready", "read", "truncated", "written",
           "answered", "refused", "lost"}

\* In these phases the request's process is between the read of the file and
\* the end of its write.
Changing == {"read", "truncated"}
Ended == {"answered", "refused", "lost"}

RequestType ==
  [phase : Phases, kind : Kinds, worker : Workers \cup {None},
   target : Challenges \cup Logins \cup {None}, copy : SUBSET Logins]

Idle == [phase |-> "idle", kind |-> "login", worker |-> None, target |-> None,
         copy |-> {}]

Init ==
  /\ challenge = [c \in Challenges |-> "unissued"]
  /\ request = [r \in Requests |-> Idle]
  /\ file = [logins |-> {}, parses |-> TRUE]
  /\ expired = {}
  /\ index = {}
  /\ replica = [w \in Workers |-> {}]
  /\ exits = 0
  /\ sessions = {}
  /\ undisturbed = TRUE

-----------------------------------------------------------------------------
(* What the file says. *)

\* readJsonObject: a file that is empty or cut short has no logins.
FileLogins == IF file.parses THEN file.logins ELSE {}

\* sanitizeStoredLogins: a session that has expired is dropped.
Sanitized(S) == S \ expired

\* resolveUserFromCookies: the session is in the worker's index and valid.
Accepts(w, s) == s \in replica[w] /\ s \notin expired

\* A mutant of LoginsRead that takes the sessions of the worker's index.
LoginsOfIndex(r) == Sanitized(replica[request[r].worker])

\* readUserLogins and sanitizeStoredLogins.
LoginsRead(r) == Sanitized(FileLogins)

\* Requests between the read and the end of the write, but for r.
OthersChanging(r) == {q \in Requests \ {r} : request[q].phase \in Changing}

\* A process runs one synchronous piece of code at a time.
MayRun(r) ==
  \A q \in OthersChanging(r) : request[q].worker # request[r].worker

-----------------------------------------------------------------------------
(* Challenges and the arrival of requests. *)

\* createLoginChallenge, storeLoginChallenge.
IssueChallenge(c) ==
  /\ challenge[c] = "unissued"
  /\ challenge' = [challenge EXCEPT ![c] = "live"]
  /\ UNCHANGED <<request, file, expired, exits, views, history>>

\* The challenge's time-to-live ends at the primary.
ExpireChallenge(c) ==
  /\ challenge[c] = "live"
  /\ challenge' = [challenge EXCEPT ![c] = "gone"]
  /\ UNCHANGED <<request, file, expired, exits, views, history>>

\* A session passes its expiry.
ExpireSession(s) ==
  /\ s \in sessions \ expired
  /\ expired' = expired \cup {s}
  /\ UNCHANGED <<challenge, request, file, exits, views, history>>

Arrive(r, kind, w, target, phase) ==
  /\ request[r].phase = "idle"
  /\ request' = [request EXCEPT ![r] =
       [Idle EXCEPT !.phase = phase, !.kind = kind, !.worker = w,
                    !.target = target]]
  /\ UNCHANGED <<store, file, exits, views, history>>

\* POST /api/login: an answer to a challenge that was issued, taken or not.
LoginArrives(r, w, c) ==
  challenge[c] # "unissued" /\ Arrive(r, "login", w, c, "taking")

\* /logout with the cookie of an answered login.
LogoutArrives(r, w, s) ==
  /\ request[s].phase = "answered" /\ Accepts(w, s)
  /\ Arrive(r, "logout", w, s, "ready")

\* A password change by the owner of such a cookie.
PasswordArrives(r, w, s) ==
  /\ request[s].phase = "answered" /\ Accepts(w, s)
  /\ Arrive(r, "password", w, None, "ready")

\* A mutant of ChallengeAfterTake that leaves the challenge where it is.
ChallengeAfterGet(c) == challenge

\* takeEntry deletes the entry it returns, and one that has expired.
ChallengeAfterTake(c) == [challenge EXCEPT ![c] = "gone"]

\* takeEntry at the primary and its answer to the waiting login.
TakeChallenge(r) ==
  LET c == request[r].target IN
  /\ request[r].phase = "taking"
  /\ challenge' = ChallengeAfterTake(c)
  /\ request' = [request EXCEPT ![r].phase =
       IF challenge[c] = "live" THEN "ready" ELSE "refused"]
  /\ UNCHANGED <<file, expired, exits, views, history>>

\* The login's proof, browser or crypto record, or the password given with a
\* change, is not accepted.
Refuse(r) ==
  /\ request[r].phase = "ready" /\ request[r].kind # "logout"
  /\ MayRun(r)
  /\ request' = [request EXCEPT ![r].phase = "refused"]
  /\ UNCHANGED <<store, file, exits, views, history>>

-----------------------------------------------------------------------------
(* The file: read, change, truncate, write. *)

\* A mutant of Updated that stores a login under its challenge.
UpdatedByChallenge(r, S) ==
  CASE request[r].kind = "login" -> S \cup {request[r].target}
    [] request[r].kind = "logout" -> S \ {request[r].target}
    [] OTHER -> {}

\* What persistSessionForUser, revokeSession and setUserPassword write.
Updated(r, S) ==
  CASE request[r].kind = "login" -> S \cup {r}
    [] request[r].kind = "logout" -> S \ {request[r].target}
    [] OTHER -> {}

\* readUserLogins and the change of the logins in memory (a password change
\* reads nothing: its logins are {}).
ReadLogins(r) ==
  LET read == LoginsRead(r) IN
  /\ request[r].phase = "ready"
  /\ MayRun(r)
  /\ request[r].kind = "logout" => request[r].target \in read
  /\ request' = [request EXCEPT ![r].phase = "read",
                                ![r].copy = Updated(r, read)]
  /\ undisturbed' = (undisturbed /\ OthersChanging(r) = {})
  /\ UNCHANGED <<store, file, exits, views, sessions>>

\* revokeSession finds the session gone: nothing is written or reported.
NothingToRevoke(r) ==
  /\ request[r].phase = "ready" /\ request[r].kind = "logout"
  /\ MayRun(r)
  /\ request[r].target \notin LoginsRead(r)
  /\ request' = [request EXCEPT ![r].phase = "answered"]
  /\ UNCHANGED <<store, file, exits, views, history>>

\* fs.writeFileSync opens the file with truncation ...
TruncateFile(r) ==
  /\ request[r].phase = "read"
  /\ request' = [request EXCEPT ![r].phase = "truncated"]
  /\ file' = [logins |-> {}, parses |-> FALSE]
  /\ UNCHANGED <<store, exits, views, history>>

\* ... and writes from its start: a longer text another process wrote since
\* the truncation keeps its end, and what results is not JSON.
WriteFile(r) ==
  LET copy == request[r].copy
      mayGarble == file.parses /\ ~(file.logins \subseteq copy)
  IN
  /\ request[r].phase = "truncated"
  /\ request' = [request EXCEPT ![r].phase = "written", ![r].copy = {}]
  /\ \/ file' = [logins |-> copy, parses |-> TRUE]
     \/ mayGarble /\ file' = [logins |-> {}, parses |-> FALSE]
  /\ sessions' = Updated(r, sessions)
  /\ UNCHANGED <<store, exits, views, undisturbed>>

-----------------------------------------------------------------------------
(* The index, the answer, and a process that exits. *)

\* A mutant of Reindexed that keeps the sessions it had.
ReindexedKeeping == index \cup FileLogins

\* buildUserIndexSnapshot reads the file as it is now.
Reindexed == FileLogins

\* runTrackedMutation reports the path; the primary reads the file, commits,
\* and its answer brings the commit to the worker before the worker answers.
AnswerRequest(r) ==
  /\ request[r].phase = "written"
  /\ index' = Reindexed
  /\ replica' = [replica EXCEPT ![request[r].worker] = index']
  /\ request' = [request EXCEPT ![r].phase = "answered"]
  /\ UNCHANGED <<store, file, exits, history>>

\* A watch event, another report or a reconcile makes the primary look.
Reindex ==
  /\ index # Reindexed
  /\ index' = Reindexed
  /\ UNCHANGED <<store, request, file, replica, exits, history>>

\* A delta of the index reaches a worker.
Replicate(w) ==
  /\ replica[w] # index
  /\ replica' = [replica EXCEPT ![w] = index]
  /\ UNCHANGED <<store, request, file, index, exits, history>>

\* A worker process exits, its requests with it; the cluster forks another,
\* which starts from a snapshot.
WorkerExits(w) ==
  LET here == {r \in Requests : /\ request[r].worker = w
                                /\ request[r].phase \notin Ended \cup {"idle"}}
  IN
  /\ exits < MaxExits
  /\ exits' = exits + 1
  /\ request' = [r \in Requests |->
       IF r \in here THEN [request[r] EXCEPT !.phase = "lost", !.copy = {}]
       ELSE request[r]]
  /\ undisturbed' =
       (undisturbed /\ \A r \in here : request[r].phase # "truncated")
  /\ replica' = [replica EXCEPT ![w] = index]
  /\ UNCHANGED <<store, file, index, sessions>>

Work(r) ==
  \/ TakeChallenge(r) \/ Refuse(r) \/ ReadLogins(r) \/ NothingToRevoke(r)
  \/ TruncateFile(r) \/ WriteFile(r) \/ AnswerRequest(r)

Next ==
  \/ \E c \in Challenges : IssueChallenge(c) \/ ExpireChallenge(c)
  \/ \E s \in Logins : ExpireSession(s)
  \/ \E r \in Logins, w \in Workers, c \in Challenges : LoginArrives(r, w, c)
  \/ \E r \in Others, s \in Logins, w \in Workers :
       LogoutArrives(r, w, s) \/ PasswordArrives(r, w, s)
  \/ \E r \in Requests : Work(r)
  \/ Reindex
  \/ \E w \in Workers : Replicate(w) \/ WorkerExits(w)

Spec == Init /\ [][Next]_vars

\* Watch events, reconciles and deltas arrive; a request is carried on by its
\* process.
Fairness ==
  /\ WF_vars(Reindex)
  /\ \A w \in Workers : WF_vars(Replicate(w))
  /\ \A r \in Requests : WF_vars(Work(r))

FairSpec == Spec /\ Fairness

-----------------------------------------------------------------------------
(* Properties. *)

\* Every variable holds what service.js can put there.
AuthTypeOK ==
  /\ challenge \in [Challenges -> {"unissued", "live", "gone"}]
  /\ request \in [Requests -> RequestType]
  /\ file \in [logins : SUBSET Logins, parses : BOOLEAN]
  /\ expired \in SUBSET Logins
  /\ index \in SUBSET Logins
  /\ replica \in [Workers -> SUBSET Logins]
  /\ exits \in 0 .. MaxExits
  /\ sessions \in SUBSET Logins
  /\ undisturbed \in BOOLEAN

\* Logins that were given the challenge they answer.
Given(c) ==
  {r \in Logins :
     /\ request[r].target = c
     /\ request[r].phase \in {"ready", "read", "truncated", "written", "answered"}}

\* Two logins that answer one challenge, on one worker or two, are not both
\* given it (consumeLoginChallenge takes the entry from the primary).
ChallengeUsedOnce == \A c \in Challenges : \A r, q \in Given(c) : r = q

Quiet == \A r \in Requests : request[r].phase \notin Changing

\* When the processes did not overlap and none stopped in a write, the file
\* holds, between the changes, the sessions of the logins written and neither
\* logged out nor cleared since (persistSessionForUser, revokeSession,
\* setUserPassword).
FileHoldsTheSessions ==
  undisturbed /\ Quiet =>
    file.parses /\ file.logins \ expired = sessions \ expired

\* The primary's index and the workers' copies come to agree with the file,
\* also after a read of a file that was being written (watch events of
\* watchdog.js, buildUserIndexSnapshot).
IndexFollowsFile ==
  <>[](index = FileLogins /\ \A w \in Workers : replica[w] = index)

=============================================================================
