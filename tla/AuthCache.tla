----------------------------- MODULE AuthCache -----------------------------
(***************************************************************************)
(* Authentication of one credential of one account: the Redis cache with   *)
(* its version counters (services/auth-cache.ts), the in-process coalescer *)
(* (services/auth-coalescer.ts) and the fast and slow paths of             *)
(* authenticate (services/auth.ts), against revocation, suspension and     *)
(* other changes of the account, each committed to PostgreSQL first and    *)
(* then announced to the cache.                                            *)
(*                                                                         *)
(* Every database query and every Redis command is a step of its own.  A   *)
(* Redis command may fail, which the cache treats as a miss or a no-op; a  *)
(* process may die between a commit and its announcement; and Redis may    *)
(* lose its data, counters included.                                       *)
(*                                                                         *)
(* The account's row is its grade, which every change raises, and whether  *)
(* it is suspended.  A web session takes the same path with its own query. *)
(* Left out: expiry, which every path compares with the clock, the         *)
(* negative cache and the OAuth tokens, which are not cached.              *)
(***************************************************************************)
EXTENDS Integers

CONSTANTS
    Requests,    \* requests that carry the credential
    Processes,   \* server processes, each with its coalescer
    None,
    MaxChanges,  \* bound: changes of the account and the key
    MaxFaults    \* bound: failed Redis commands, lost announcements, flushes

ASSUME ConstantsAssumption ==
    /\ {MaxChanges, MaxFaults} \subseteq Nat
    /\ None \notin Processes

(***************************************************************************)
(* db     api_keys.revoked_at, accounts: status and row version            *)
(* owed   announcements not made yet: of the key, of the account           *)
(* kv av  auth:keyid:<id>:v and auth:account:<id>:v                        *)
(* entry  auth:apikey:<sha>                                                *)
(* req    one request: where it is, what it read, what db was when it      *)
(*        began, whether the credential was ever bad since                 *)
(* slow   the slow path in the coalescer's map, one per process            *)
(***************************************************************************)
VARIABLES db, owed, kv, av, entry, req, slow, faults

redisVars == <<kv, av, entry>>
vars == <<db, owed, kv, av, entry, req, slow, faults>>

Database == [revoked : BOOLEAN, suspended : BOOLEAN, grade : 0 .. MaxChanges]
Versions == [kv : Nat, av : Nat]
Entry == [grade : 0 .. MaxChanges, kv : Nat, av : Nat]
Nothing == [grade |-> -1, kv |-> 0, av |-> 0]
Request == [step : {"idle", "gate", "miss", "live", "wait", "granted", "refused"},
            proc : Processes \cup {None}, entry : Entry \cup {Nothing},
            key : Database \cup {None}, account : Database \cup {None},
            joined : BOOLEAN, began : Database, excuse : BOOLEAN,
            answer : -1 .. MaxChanges]
Slow == [step : {"find", "capture", "recheck", "account", "set", "resolve"},
         versions : Versions \cup {None}, grade : -1 .. MaxChanges]

\* None stands for what was not read and is no value that can be read.
ASSUME NoneAssumption == None \notin Database \cup Versions \cup Slow

Bad(d) == d.revoked \/ d.suspended

Init ==
    /\ db = [revoked |-> FALSE, suspended |-> FALSE, grade |-> 0]
    /\ owed = [key |-> 0, account |-> 0]
    /\ kv = 0 /\ av = 0 /\ entry = Nothing
    /\ req = [r \in Requests |->
                [step |-> "idle", proc |-> None, entry |-> Nothing, key |-> None,
                 account |-> None, joined |-> FALSE, began |-> db, excuse |-> FALSE,
                 answer |-> -1]]
    /\ slow = [p \in Processes |-> None]
    /\ faults = 0

Fault == faults < MaxFaults /\ faults' = faults + 1

-----------------------------------------------------------------------------
(* Changes: commit first, then tell the cache *)

Commit(d, which) ==
    /\ db.grade < MaxChanges
    /\ db' = [d EXCEPT !.grade = @ + 1]
    /\ owed' = [owed EXCEPT ![which] = @ + 1]
    /\ req' = [r \in Requests |-> [req[r] EXCEPT !.excuse = @ \/ Bad(d)]]
    /\ UNCHANGED <<redisVars, slow, faults>>

RevokeKey == ~db.revoked /\ Commit([db EXCEPT !.revoked = TRUE], "key")

Suspend == Commit([db EXCEPT !.suspended = TRUE], "account")

\* A tier, a status, a membership or an override changes.
ChangeAccount == Commit([db EXCEPT !.suspended = FALSE], "account")

\* The counter goes up; the entry is deleted if the reverse index names it.
InvalidateKey ==
    /\ owed.key > 0
    /\ owed' = [owed EXCEPT !.key = @ - 1]
    /\ kv' = kv + 1
    /\ entry' \in {entry, Nothing}
    /\ UNCHANGED <<db, av, req, slow, faults>>

InvalidateAccount ==
    /\ owed.account > 0
    /\ owed' = [owed EXCEPT !.account = @ - 1]
    /\ av' = av + 1
    /\ UNCHANGED <<db, kv, entry, req, slow, faults>>

\* The command fails, or the process dies first.
AnnouncementIsLost ==
    /\ Fault
    /\ \E w \in {"key", "account"} :
          owed[w] > 0 /\ owed' = [owed EXCEPT ![w] = @ - 1]
    /\ UNCHANGED <<db, redisVars, req, slow>>

EntryExpires ==
    /\ entry # Nothing
    /\ entry' = Nothing
    /\ UNCHANGED <<db, owed, kv, av, req, slow, faults>>

RedisLosesData ==
    /\ Fault
    /\ kv' = 0 /\ av' = 0 /\ entry' = Nothing
    /\ UNCHANGED <<db, owed, req, slow>>

-----------------------------------------------------------------------------
(* authenticate *)

\* cache.get reads the entry; without one, or on an error, it is a miss.
Get(r, p) ==
    /\ req[r].step = "idle"
    /\ \/ /\ UNCHANGED faults
          /\ req' = [req EXCEPT ![r] = [@ EXCEPT
                       !.step = IF entry = Nothing THEN "miss" ELSE "gate",
                       !.proc = p, !.entry = entry, !.began = db, !.excuse = Bad(db)]]
       \/ /\ Fault
          /\ req' = [req EXCEPT ![r] = [@ EXCEPT
                       !.step = "miss", !.proc = p, !.began = db, !.excuse = Bad(db)]]
    /\ UNCHANGED <<db, owed, redisVars, slow>>

\* Both counters are what they were when the entry was tagged.
CurrentEntry(e) == e.kv = kv /\ e.av = av

Gate(r) ==
    /\ req[r].step = "gate"
    /\ \/ /\ UNCHANGED faults
          /\ req' = [req EXCEPT ![r].step = IF CurrentEntry(req[r].entry) THEN "live" ELSE "miss"]
       \/ Fault /\ req' = [req EXCEPT ![r].step = "miss"]
    /\ UNCHANGED <<db, owed, redisVars, slow>>

\* On a hit the key and the account are read again, in parallel.
ReadLive(r) ==
    /\ req[r].step = "live"
    /\ \/ req[r].key = None /\ req' = [req EXCEPT ![r].key = db]
       \/ req[r].account = None /\ req' = [req EXCEPT ![r].account = db]
    /\ UNCHANGED <<db, owed, redisVars, slow, faults>>

Grant(q, grade) == [q EXCEPT !.step = "granted", !.answer = grade]
Refuse(q) == [q EXCEPT !.step = "refused"]

\* Mutant: a hit is granted on the cached row.
LiveAnswerFromCache(q) ==
    IF q.account.suspended THEN Refuse(q) ELSE Grant(q, q.entry.grade)

LiveAnswer(q) ==
    IF q.key.revoked \/ q.account.suspended THEN Refuse(q) ELSE Grant(q, q.account.grade)

AnswerHit(r) ==
    /\ req[r].step = "live"
    /\ None \notin {req[r].key, req[r].account}
    /\ req' = [req EXCEPT ![r] = LiveAnswer(@)]
    /\ UNCHANGED <<db, owed, redisVars, slow, faults>>

\* coalesce: join the slow path that is under way or start one.
Coalesce(r) ==
    /\ req[r].step = "miss"
    /\ LET p == req[r].proc
       IN /\ req' = [req EXCEPT ![r].step = "wait", ![r].joined = slow[p] # None]
          /\ slow' = [slow EXCEPT ![p] =
                        IF @ # None THEN @
                        ELSE [step |-> "find", versions |-> None, grade |-> -1]]
    /\ UNCHANGED <<db, owed, redisVars, faults>>

-----------------------------------------------------------------------------
(* The slow path *)

\* Mutant: the promise answers the request that started it and no other.
Starter(p) == {r \in Requests : req[r].step = "wait" /\ req[r].proc = p /\ ~req[r].joined}

Waiting(p) == {r \in Requests : req[r].step = "wait" /\ req[r].proc = p}

\* Mutant: a rejected promise stays in the map.
RejectLeavesItBehind(p) ==
    /\ slow' = [slow EXCEPT ![p].step = "reject"]
    /\ req' = [r \in Requests |-> IF r \in Waiting(p) THEN Refuse(req[r]) ELSE req[r]]

\* The promise settles for everybody who waits and leaves the map.
Reject(p) ==
    /\ slow' = [slow EXCEPT ![p] = None]
    /\ req' = [r \in Requests |-> IF r \in Waiting(p) THEN Refuse(req[r]) ELSE req[r]]

Advance(p, s) == slow' = [slow EXCEPT ![p].step = s] /\ UNCHANGED req

SlowStep(p, s) == slow[p] # None /\ slow[p].step = s

FindApiKey(p) ==
    /\ SlowStep(p, "find")
    /\ IF db.revoked THEN Reject(p) ELSE Advance(p, "capture")
    /\ UNCHANGED <<db, owed, redisVars, faults>>

\* Mutant: a failed read of the counters fails the request.
CaptureOrReject(p) ==
    /\ SlowStep(p, "capture")
    /\ \/ /\ slow' = [slow EXCEPT ![p] = [@ EXCEPT !.step = "recheck",
                                           !.versions = [kv |-> kv, av |-> av]]]
          /\ UNCHANGED <<req, faults>>
       \/ Fault /\ Reject(p)
    /\ UNCHANGED <<db, owed, redisVars>>

\* After scrypt: both counters, or nothing when Redis fails.
CaptureVersions(p) ==
    /\ SlowStep(p, "capture")
    /\ \/ /\ slow' = [slow EXCEPT ![p] = [@ EXCEPT !.step = "recheck",
                                           !.versions = [kv |-> kv, av |-> av]]]
          /\ UNCHANGED faults
       \/ Fault /\ slow' = [slow EXCEPT ![p].step = "account"]
    /\ UNCHANGED <<db, owed, redisVars, req>>

Recheck(p) ==
    /\ SlowStep(p, "recheck")
    /\ IF db.revoked THEN Reject(p) ELSE Advance(p, "account")
    /\ UNCHANGED <<db, owed, redisVars, faults>>

GetAccount(p) ==
    /\ SlowStep(p, "account")
    /\ IF db.suspended
         THEN Reject(p)
         ELSE /\ slow' = [slow EXCEPT ![p] = [@ EXCEPT !.step = "set", !.grade = db.grade]]
              /\ UNCHANGED req
    /\ UNCHANGED <<db, owed, redisVars, faults>>

\* Mutant: the entry is tagged with the counters at the time it is written.
TagAtWrite(p) == [grade |-> slow[p].grade, kv |-> kv, av |-> av]

Tagged(p) == [grade |-> slow[p].grade, kv |-> slow[p].versions.kv, av |-> slow[p].versions.av]

Set(p) ==
    /\ SlowStep(p, "set")
    /\ \/ slow[p].versions # None /\ entry' = Tagged(p) /\ UNCHANGED faults
       \/ slow[p].versions = None /\ UNCHANGED <<entry, faults>>
       \/ slow[p].versions # None /\ Fault /\ UNCHANGED entry
    /\ Advance(p, "resolve")
    /\ UNCHANGED <<db, owed, kv, av>>

Resolve(p) ==
    /\ SlowStep(p, "resolve")
    /\ slow' = [slow EXCEPT ![p] = None]
    /\ req' = [r \in Requests |->
                 IF r \in Waiting(p) THEN Grant(req[r], slow[p].grade) ELSE req[r]]
    /\ UNCHANGED <<db, owed, redisVars, faults>>

-----------------------------------------------------------------------------
SlowPath(p) ==
    FindApiKey(p) \/ CaptureVersions(p) \/ Recheck(p) \/ GetAccount(p) \/ Set(p) \/ Resolve(p)

Proceed(r) == Gate(r) \/ ReadLive(r) \/ AnswerHit(r) \/ Coalesce(r)

Next ==
    \/ RevokeKey \/ Suspend \/ ChangeAccount
    \/ InvalidateKey \/ InvalidateAccount \/ AnnouncementIsLost
    \/ EntryExpires \/ RedisLosesData
    \/ \E r \in Requests, p \in Processes : Get(r, p)
    \/ \E r \in Requests : Proceed(r)
    \/ \E p \in Processes : SlowPath(p)

Spec == Init /\ [][Next]_vars

\* Queries and commands are answered or fail; none of them waits for another.
Fairness ==
    /\ \A r \in Requests : WF_vars(Proceed(r))
    /\ \A p \in Processes : WF_vars(SlowPath(p))

FairSpec == Spec /\ Fairness

-----------------------------------------------------------------------------
(* Properties *)

\* Every variable has its type.
TypeOK ==
    /\ db \in Database
    /\ owed \in [{"key", "account"} -> Nat]
    /\ kv \in Nat /\ av \in Nat
    /\ entry \in Entry \cup {Nothing}
    /\ req \in [Requests -> Request]
    /\ slow \in [Processes -> Slow \cup {None}]
    /\ faults \in Nat

\* A request that does its own work is never granted with a key that was
\* revoked before it began, nor on an account row older than its beginning,
\* whatever the cache holds and however much of it was lost.
GrantsLiveAuthority ==
    \A r \in Requests : req[r].step = "granted" /\ ~req[r].joined
        => ~req[r].began.revoked /\ req[r].answer >= req[r].began.grade

\* A request that does its own work is refused only if the key was revoked or
\* the account suspended while it ran: no earlier failure is handed to it.
RefusalIsEarned ==
    \A r \in Requests : req[r].step = "refused" /\ ~req[r].joined => req[r].excuse

\* Whatever the cache holds, loses or is not told, a request that does its own
\* work is granted and refused for a reason of its own time.
AnswersAreEarned == TypeOK /\ GrantsLiveAuthority /\ RefusalIsEarned

\* Once every change is announced, an entry that passes the version gate says
\* what the database says, however late a slow path wrote it.
CurrentEntryIsTrue ==
    faults = 0 /\ owed.key = 0 /\ owed.account = 0 /\ entry # Nothing /\ CurrentEntry(entry)
        => entry.grade = db.grade

\* Every request that began is answered, also when Redis fails, and nobody
\* waits for a slow path that is over.
EveryRequestIsAnswered ==
    \A r \in Requests : req[r].step # "idle" ~> req[r].step \in {"granted", "refused"}
=============================================================================
