-------------------------- MODULE AuthCache_proofs --------------------------
(***************************************************************************)
(* Authentication gives earned answers, and a current cache entry is true, *)
(* for every number of requests, processes, changes and faults.            *)
(***************************************************************************)
EXTENDS AuthCache, TLAPS

USE ConstantsAssumption, NoneAssumption

\* The database only moves on from where it was when a request began, and a
\* credential that is bad now gives every request under way its excuse.
BeganBefore ==
    \A r \in Requests :
        /\ req[r].began.grade <= db.grade
        /\ req[r].began.revoked => db.revoked
        /\ Bad(db) => req[r].excuse

\* A request has a process once it began, and has read nothing before.
Placed ==
    \A r \in Requests :
        IF req[r].step = "idle" THEN req[r].key = None /\ req[r].account = None
                                ELSE req[r].proc \in Processes

\* What the fast path read is no older than the request.
LiveReads ==
    \A r \in Requests :
        /\ req[r].key # None => IF req[r].key.revoked THEN req[r].excuse
                                                      ELSE ~req[r].began.revoked
        /\ req[r].account # None => /\ req[r].account.grade >= req[r].began.grade
                                    /\ req[r].account.suspended => req[r].excuse

\* A request that waits for the slow path it started finds it still there, and
\* what that path read is no older than the request.
OwnSlowPath ==
    \A r \in Requests : req[r].step = "wait" /\ ~req[r].joined =>
        LET s == slow[req[r].proc]
        IN  /\ s # None
            /\ s.step # "find" => ~req[r].began.revoked
            /\ s.step \in {"set", "resolve"} => s.grade >= req[r].began.grade

\* A slow path that is past the account has read it.
Graded ==
    \A p \in Processes :
        slow[p] # None /\ slow[p].step \in {"set", "resolve"} => slow[p].grade >= 0

AnswerInv == TypeOK /\ Graded /\ BeganBefore /\ Placed /\ LiveReads /\ OwnSlowPath
                /\ GrantsLiveAuthority /\ RefusalIsEarned

\* While no call fails, every change is announced or still owed, ...
Announced == db.grade = kv + av + owed["key"] + owed["account"]

\* ... and what is cached or about to be was read after its versions: it counts
\* at least the changes that the versions count.
TaggedBefore ==
    /\ entry # Nothing => entry.kv + entry.av <= entry.grade /\ entry.grade <= db.grade
    /\ \A p \in Processes : slow[p] # None =>
          /\ slow[p].versions # None =>
                slow[p].versions.kv + slow[p].versions.av <= db.grade
          /\ slow[p].step \in {"set", "resolve"} =>
                /\ slow[p].grade <= db.grade
                /\ slow[p].versions # None =>
                      slow[p].versions.kv + slow[p].versions.av <= slow[p].grade

CacheInv == faults = 0 => Announced /\ TaggedBefore

-----------------------------------------------------------------------------
(* Types *)

LEMMA TypeInit == Init => TypeOK
  BY DEF Init, TypeOK, Database, Versions, Entry, Nothing, Request, Slow

\* What the steps of a request and of a slow path make of a record.
LEMMA RequestMoves ==
    ASSUME NEW q \in Request
    PROVE  /\ \A st \in {"gate", "miss", "live", "wait", "granted", "refused"} :
                 [q EXCEPT !.step = st] \in Request
           /\ \A d \in Database : [q EXCEPT !.key = d] \in Request
           /\ \A d \in Database : [q EXCEPT !.account = d] \in Request
           /\ \A x \in BOOLEAN : [q EXCEPT !.step = "wait", !.joined = x] \in Request
           /\ \A x \in BOOLEAN : [q EXCEPT !.excuse = x] \in Request
           /\ \A g \in -1 .. MaxChanges : Grant(q, g) \in Request
           /\ Refuse(q) \in Request
<1>1. ASSUME NEW st \in {"gate", "miss", "live", "wait", "granted", "refused"}
      PROVE  [q EXCEPT !.step = st] \in Request
  BY DEF Request
<1>2. ASSUME NEW d \in Database
      PROVE  [q EXCEPT !.key = d] \in Request /\ [q EXCEPT !.account = d] \in Request
  BY DEF Request
<1>3. ASSUME NEW x \in BOOLEAN
      PROVE  [q EXCEPT !.step = "wait", !.joined = x] \in Request
  BY DEF Request
<1>4. ASSUME NEW x \in BOOLEAN
      PROVE  [q EXCEPT !.excuse = x] \in Request
  BY DEF Request
<1>5. ASSUME NEW g \in -1 .. MaxChanges
      PROVE  Grant(q, g) \in Request
  BY DEF Request, Grant
<1>6. Refuse(q) \in Request
  BY DEF Request, Refuse
<1> QED BY <1>1, <1>2, <1>3, <1>4, <1>5, <1>6

LEMMA RequestBegins ==
    ASSUME NEW q \in Request, NEW st \in {"gate", "miss"}, NEW p \in Processes,
           NEW d \in Database, NEW e \in Entry \cup {Nothing}
    PROVE  /\ [q EXCEPT !.step = st, !.proc = p, !.began = d, !.excuse = Bad(d)] \in Request
           /\ [q EXCEPT !.step = st, !.proc = p, !.entry = e, !.began = d,
                        !.excuse = Bad(d)] \in Request
<1>1. Bad(d) \in BOOLEAN
  BY DEF Bad, Database
<1>2. ASSUME NEW x \in BOOLEAN
      PROVE  [q EXCEPT !.step = st, !.proc = p, !.began = d, !.excuse = x] \in Request
  BY DEF Request
<1>3. ASSUME NEW x \in BOOLEAN
      PROVE  [q EXCEPT !.step = st, !.proc = p, !.entry = e, !.began = d, !.excuse = x] \in Request
  BY DEF Request
<1> QED BY <1>1, <1>2, <1>3

LEMMA SlowMoves ==
    ASSUME NEW s \in Slow
    PROVE  /\ \A st \in {"capture", "recheck", "account", "set", "resolve"} :
                 [s EXCEPT !.step = st] \in Slow
           /\ \A v \in Versions : [s EXCEPT !.step = "recheck", !.versions = v] \in Slow
           /\ \A g \in -1 .. MaxChanges : [s EXCEPT !.step = "set", !.grade = g] \in Slow
           /\ s.grade \in -1 .. MaxChanges /\ s.versions \in Versions \cup {None}
  BY DEF Slow

LEMMA TypeStep ==
    ASSUME TypeOK, Graded, Next
    PROVE  TypeOK'
<1> USE DEF TypeOK, redisVars
<1>1. CASE RevokeKey \/ Suspend \/ ChangeAccount
  <2>1. PICK d \in Database, which \in {"key", "account"} : Commit(d, which) /\ d.grade = db.grade
    <3>1. /\ [db EXCEPT !.revoked = TRUE] \in Database
          /\ [db EXCEPT !.suspended = TRUE] \in Database
          /\ [db EXCEPT !.suspended = FALSE] \in Database
      BY DEF Database
    <3>2. /\ [db EXCEPT !.revoked = TRUE].grade = db.grade
          /\ [db EXCEPT !.suspended = TRUE].grade = db.grade
          /\ [db EXCEPT !.suspended = FALSE].grade = db.grade
      BY DEF Database
    <3> QED BY <1>1, <3>1, <3>2 DEF RevokeKey, Suspend, ChangeAccount
  <2>2. [d EXCEPT !.grade = @ + 1] \in Database
    BY <2>1 DEF Commit, Database
  <2>3. ASSUME NEW r \in Requests
        PROVE  [req[r] EXCEPT !.excuse = @ \/ Bad(d)] \in Request
    <3>1. req[r] \in Request
      OBVIOUS
    <3>2. (req[r].excuse \/ Bad(d)) \in BOOLEAN
      BY <3>1 DEF Request, Bad
    <3> QED BY <3>1, <3>2, RequestMoves
  <2>4. owed' \in [{"key", "account"} -> Nat]
    BY <2>1 DEF Commit
  <2> QED BY <2>1, <2>2, <2>3, <2>4 DEF Commit
<1>2. CASE InvalidateKey \/ InvalidateAccount \/ AnnouncementIsLost \/ EntryExpires \/ RedisLosesData
  BY <1>2 DEF InvalidateKey, InvalidateAccount, AnnouncementIsLost, EntryExpires,
              RedisLosesData, Fault
<1>3. ASSUME NEW r \in Requests, NEW p \in Processes, Get(r, p)
      PROVE  TypeOK'
  <2>1. ASSUME NEW st \in {"gate", "miss"}, NEW e \in Entry \cup {Nothing}
        PROVE  /\ [req[r] EXCEPT !.step = st, !.proc = p, !.began = db, !.excuse = Bad(db)] \in Request
               /\ [req[r] EXCEPT !.step = st, !.proc = p, !.entry = e, !.began = db,
                                 !.excuse = Bad(db)] \in Request
    BY RequestBegins
  <2>2. req' \in [Requests -> Request]
    <3>1. PICK q \in Request : req' = [req EXCEPT ![r] = q]
      BY <1>3, <2>1 DEF Get
    <3> QED BY <3>1
  <2> QED BY <1>3, <2>2 DEF Get, Fault
<1>4. ASSUME NEW r \in Requests, Proceed(r)
      PROVE  TypeOK'
  <2>1. CASE Gate(r)
    <3>1. req' \in [Requests -> Request]
      <4>1. \A st \in {"live", "miss"} : [req[r] EXCEPT !.step = st] \in Request
        BY RequestMoves
      <4>2. PICK st \in {"live", "miss"} : req' = [req EXCEPT ![r].step = st]
        BY <2>1 DEF Gate
      <4> QED BY <4>1, <4>2
    <3> QED BY <2>1, <3>1 DEF Gate, Fault
  <2>2. CASE ReadLive(r)
    <3>1. req' \in [Requests -> Request]
      <4>1. [req[r] EXCEPT !.key = db] \in Request /\ [req[r] EXCEPT !.account = db] \in Request
        BY RequestMoves
      <4> QED BY <2>2, <4>1 DEF ReadLive
    <3> QED BY <2>2, <3>1 DEF ReadLive
  <2>3. CASE AnswerHit(r)
    <3>1. req[r].account \in Database
      BY <2>3 DEF AnswerHit, Request
    <3>2. req[r].account.grade \in -1 .. MaxChanges
      BY <3>1 DEF Database
    <3> QED BY <2>3, <3>2, RequestMoves DEF AnswerHit, LiveAnswer
  <2>4. CASE Coalesce(r)
    <3>1. [step |-> "find", versions |-> None, grade |-> -1] \in Slow
      BY DEF Slow
    <3>2. slow' \in [Processes -> Slow \cup {None}]
      BY <2>4, <3>1 DEF Coalesce
    <3> QED BY <2>4, <3>2, RequestMoves DEF Coalesce
  <2> QED BY <1>4, <2>1, <2>2, <2>3, <2>4 DEF Proceed
<1>5. ASSUME NEW p \in Processes, SlowPath(p)
      PROVE  TypeOK'
  <2>0. slow[p] \in Slow
    BY <1>5 DEF SlowPath, FindApiKey, CaptureVersions, Recheck, GetAccount, Set, Resolve, SlowStep
  <2>1. CASE Reject(p) /\ UNCHANGED <<db, owed, redisVars, faults>>
    BY <2>1, RequestMoves DEF Reject
  <2>2. CASE FindApiKey(p) \/ Recheck(p)
    BY <2>0, <2>1, <2>2, SlowMoves DEF FindApiKey, Recheck, Advance
  <2>3. CASE CaptureVersions(p)
    <3>1. [kv |-> kv, av |-> av] \in Versions
      BY DEF Versions
    <3>2. slow' \in [Processes -> Slow \cup {None}]
      <4>1. /\ [slow[p] EXCEPT !.step = "recheck", !.versions = [kv |-> kv, av |-> av]] \in Slow
            /\ [slow[p] EXCEPT !.step = "account"] \in Slow
        BY <2>0, <3>1, SlowMoves
      <4> QED BY <2>3, <4>1 DEF CaptureVersions
    <3> QED BY <2>3, <3>2 DEF CaptureVersions, Fault
  <2>4. CASE GetAccount(p)
    <3>1. db.grade \in -1 .. MaxChanges
      BY DEF Database
    <3>2. [slow[p] EXCEPT !.step = "set", !.grade = db.grade] \in Slow
      BY <2>0, <3>1, SlowMoves
    <3> QED BY <2>1, <2>4, <3>2 DEF GetAccount
  <2>5. CASE Set(p)
    <3>1. slow[p].grade \in 0 .. MaxChanges
      <4>1. slow[p].grade \in -1 .. MaxChanges
        BY <2>0, SlowMoves
      <4>2. slow[p].grade >= 0
        BY <2>5 DEF Set, SlowStep, Graded
      <4> QED BY <4>1, <4>2
    <3>2. slow[p].versions # None => Tagged(p) \in Entry
      <4>1. slow[p].versions \in Versions \cup {None}
        BY <2>0, SlowMoves
      <4> QED BY <3>1, <4>1 DEF Tagged, Versions, Entry
    <3>3. slow' \in [Processes -> Slow \cup {None}]
      BY <2>0, <2>5, SlowMoves DEF Set, Advance
    <3> QED BY <2>5, <3>2, <3>3 DEF Set, Advance, Fault
  <2>6. CASE Resolve(p)
    BY <2>0, <2>6, SlowMoves, RequestMoves DEF Resolve
  <2> QED BY <1>5, <2>2, <2>3, <2>4, <2>5, <2>6 DEF SlowPath
<1> QED BY <1>1, <1>2, <1>3, <1>4, <1>5 DEF Next

-----------------------------------------------------------------------------
(* Earned answers *)

LEMMA AnswerInit == Init => AnswerInv
<1> SUFFICES ASSUME Init PROVE AnswerInv
  OBVIOUS
<1>1. TypeOK
  BY TypeInit
<1> QED
  BY <1>1 DEF Init, AnswerInv, Graded, BeganBefore, Placed, LiveReads, OwnSlowPath,
              GrantsLiveAuthority, RefusalIsEarned, Bad

\* A request that a step leaves as it is, but for an excuse it may get.
Kept(r) ==
    /\ req'[r].step = req[r].step /\ req'[r].proc = req[r].proc
    /\ req'[r].key = req[r].key /\ req'[r].account = req[r].account
    /\ req'[r].joined = req[r].joined /\ req'[r].began = req[r].began
    /\ req'[r].answer = req[r].answer
    /\ req[r].excuse => req'[r].excuse

\* What the parts of the invariant say of one request, and of the slow path of
\* one process.
RequestInv(r) ==
    /\ req[r].began.grade <= db.grade
    /\ req[r].began.revoked => db.revoked
    /\ Bad(db) => req[r].excuse
    /\ IF req[r].step = "idle" THEN req[r].key = None /\ req[r].account = None
                               ELSE req[r].proc \in Processes
    /\ req[r].key # None => IF req[r].key.revoked THEN req[r].excuse
                                                  ELSE ~req[r].began.revoked
    /\ req[r].account # None => /\ req[r].account.grade >= req[r].began.grade
                                /\ req[r].account.suspended => req[r].excuse
    /\ req[r].step = "wait" /\ ~req[r].joined =>
          /\ slow[req[r].proc] # None
          /\ slow[req[r].proc].step # "find" => ~req[r].began.revoked
          /\ slow[req[r].proc].step \in {"set", "resolve"} =>
                slow[req[r].proc].grade >= req[r].began.grade
    /\ req[r].step = "granted" /\ ~req[r].joined
          => ~req[r].began.revoked /\ req[r].answer >= req[r].began.grade
    /\ req[r].step = "refused" /\ ~req[r].joined => req[r].excuse

LEMMA AnswerInvSplit ==
    AnswerInv <=> TypeOK /\ Graded /\ \A r \in Requests : RequestInv(r)
  BY DEF AnswerInv, RequestInv, BeganBefore, Placed, LiveReads, OwnSlowPath,
         GrantsLiveAuthority, RefusalIsEarned

LEMMA RequestTypes ==
    ASSUME TypeOK, NEW r \in Requests
    PROVE  /\ req[r] \in Request /\ req[r].began \in Database
           /\ req[r].began.grade \in Int /\ db.grade \in Int /\ req[r].answer \in Int
           /\ req[r].key # None => req[r].key \in Database
           /\ req[r].account # None => req[r].account \in Database /\ req[r].account.grade \in Int
  BY DEF TypeOK, Request, Database

\* A step that changes neither the database nor a slow path keeps what is said
\* of the requests it keeps.
LEMMA KeptStaysSound ==
    ASSUME TypeOK, NEW r \in Requests, RequestInv(r), Kept(r),
           db.grade <= db'.grade, db'.grade \in Int, db.revoked => db'.revoked,
           Bad(db') => req'[r].excuse,
           req[r].step = "wait" /\ ~req[r].joined =>
              slow'[req[r].proc] = slow[req[r].proc]
    PROVE  RequestInv(r)'
  BY RequestTypes DEF RequestInv, Kept

\* A change of the account or the key.
LEMMA CommitKeeps ==
    ASSUME AnswerInv, RevokeKey \/ Suspend \/ ChangeAccount, NEW r \in Requests
    PROVE  RequestInv(r)'
<1>1. PICK d \in Database : /\ \E which : Commit(d, which)
                            /\ d.grade = db.grade /\ (db.revoked => d.revoked)
  <2> DEFINE a == [db EXCEPT !.revoked = TRUE]
             b == [db EXCEPT !.suspended = TRUE]
             c == [db EXCEPT !.suspended = FALSE]
  <2>1. \A x \in {a, b, c} : x \in Database /\ x.grade = db.grade /\ (db.revoked => x.revoked)
    BY DEF AnswerInv, TypeOK, Database
  <2>2. \E x \in {a, b, c} : \E which : Commit(x, which)
    BY DEF RevokeKey, Suspend, ChangeAccount
  <2> HIDE DEF a, b, c
  <2> QED BY <2>1, <2>2
<1>2. /\ db'.grade = db.grade + 1 /\ db'.revoked = d.revoked /\ db'.suspended = d.suspended
      /\ slow' = slow
  BY <1>1 DEF Commit, Database
<1>3. Kept(r) /\ (Bad(d) => req'[r].excuse)
  <2> DEFINE x == req[r].excuse \/ Bad(d)
  <2>1. req'[r] = [req[r] EXCEPT !.excuse = x] /\ req[r] \in Request
    BY <1>1 DEF Commit, AnswerInv, TypeOK
  <2>2. (req[r].excuse => x) /\ (Bad(d) => x)
    OBVIOUS
  <2> HIDE DEF x
  <2> QED BY <2>1, <2>2 DEF Request, Kept
<1>4. TypeOK /\ RequestInv(r)
  BY AnswerInvSplit
<1>5. db.grade <= db'.grade /\ db'.grade \in Int
  BY <1>2, <1>4, RequestTypes
<1> QED
  BY <1>1, <1>2, <1>3, <1>4, <1>5, KeptStaysSound DEF Bad

\* The steps of the cache alone: announcements, expiry and loss of data.
CacheAction == InvalidateKey \/ InvalidateAccount \/ AnnouncementIsLost \/ EntryExpires \/ RedisLosesData

LEMMA CacheKeeps ==
    ASSUME AnswerInv, CacheAction, NEW r \in Requests
    PROVE  RequestInv(r)'
<1>1. db' = db /\ req' = req /\ slow' = slow
  BY DEF CacheAction, InvalidateKey, InvalidateAccount, AnnouncementIsLost, EntryExpires, RedisLosesData
<1> QED BY <1>1, AnswerInvSplit DEF RequestInv

\* A request begins.
LEMMA GetKeeps ==
    ASSUME AnswerInv, NEW r \in Requests, NEW p \in Processes, Get(r, p), NEW q \in Requests
    PROVE  RequestInv(q)'
<1>1. TypeOK /\ RequestInv(q) /\ RequestInv(r)
  BY AnswerInvSplit
<1>2. db' = db /\ slow' = slow
  BY DEF Get
<1>3. CASE q # r
  <2>1. req'[q] = req[q]
    BY <1>1, <1>3 DEF Get, TypeOK
  <2> QED BY <1>1, <1>2, <2>1 DEF RequestInv
<1>4. CASE q = r
  <2> DEFINE x == Bad(db)
             st == IF entry = Nothing THEN "miss" ELSE "gate"
  <2>0. \/ req'[r] = [req[r] EXCEPT !.step = st, !.proc = p, !.entry = entry,
                                    !.began = db, !.excuse = x]
        \/ req'[r] = [req[r] EXCEPT !.step = "miss", !.proc = p, !.began = db, !.excuse = x]
    BY <1>1 DEF Get, TypeOK
  <2>a. st \in {"gate", "miss"} /\ req[r] \in Request
    BY <1>1 DEF TypeOK
  <2> HIDE DEF x, st
  <2>1. /\ req'[r].step \in {"gate", "miss"} /\ req'[r].proc = p /\ req'[r].began = db
        /\ req'[r].key = req[r].key /\ req'[r].account = req[r].account
    BY <2>0, <2>a DEF Request
  <2>2. Bad(db) => req'[r].excuse
    <3>1. req'[r].excuse = x
      BY <2>0, <2>a DEF Request
    <3> QED BY <3>1 DEF x
  <2>3. req[r].key = None /\ req[r].account = None
    BY <1>1 DEF RequestInv, Get
  <2> QED BY <1>1, <1>2, <1>4, <2>1, <2>2, <2>3, RequestTypes DEF RequestInv
<1> QED BY <1>3, <1>4

\* A request goes on, on the fast path or to the slow one.
LEMMA ProceedKeeps ==
    ASSUME AnswerInv, NEW r \in Requests, Proceed(r), NEW q \in Requests
    PROVE  RequestInv(q)'
<1>1. TypeOK /\ RequestInv(q) /\ RequestInv(r) /\ req[r] \in Request
  BY AnswerInvSplit DEF TypeOK
<1>2. db' = db
  BY DEF Proceed, Gate, ReadLive, AnswerHit, Coalesce
<1>3. CASE q # r
  <2>1. req'[q] = req[q]
    BY <1>1, <1>3 DEF Proceed, Gate, ReadLive, AnswerHit, Coalesce, TypeOK
  <2>2. \A p \in Processes : slow[p] # None => slow'[p] = slow[p]
    BY <1>1 DEF Proceed, Gate, ReadLive, AnswerHit, Coalesce, TypeOK
  <2> QED BY <1>1, <1>2, <2>1, <2>2 DEF RequestInv
<1>4. CASE q = r /\ Gate(r)
  <2>1. PICK st \in {"live", "miss"} : req'[r] = [req[r] EXCEPT !.step = st]
    BY <1>1, <1>4 DEF Gate, TypeOK
  <2>2. req[r].step = "gate" /\ slow' = slow
    BY <1>4 DEF Gate
  <2> QED BY <1>1, <1>2, <1>4, <2>1, <2>2 DEF RequestInv, Request
<1>5. CASE q = r /\ ReadLive(r)
  <2>1. \/ req'[r] = [req[r] EXCEPT !.key = db]
        \/ req'[r] = [req[r] EXCEPT !.account = db]
    BY <1>1, <1>5 DEF ReadLive, TypeOK
  <2>2. req[r].step = "live" /\ slow' = slow
    BY <1>5 DEF ReadLive
  <2> QED BY <1>1, <1>2, <1>5, <2>1, <2>2, RequestTypes DEF RequestInv, Request, Bad
<1>6. CASE q = r /\ AnswerHit(r)
  <2>1. req'[r] = LiveAnswer(req[r])
    BY <1>1, <1>6 DEF AnswerHit, TypeOK
  <2>2. req[r].step = "live" /\ req[r].key # None /\ req[r].account # None /\ slow' = slow
    BY <1>6 DEF AnswerHit
  <2> QED BY <1>1, <1>2, <1>6, <2>1, <2>2, RequestTypes
          DEF RequestInv, Request, LiveAnswer, Grant, Refuse
<1>7. CASE q = r /\ Coalesce(r)
  <2> DEFINE p == req[r].proc
             x == slow[p] # None
  <2>1. req[r].step = "miss" /\ p \in Processes
    BY <1>1, <1>7 DEF Coalesce, RequestInv
  <2>2. req'[r] = [req[r] EXCEPT !.step = "wait", !.joined = x]
    BY <1>1, <1>7 DEF Coalesce, TypeOK
  <2>3. slow'[p] = IF x THEN slow[p] ELSE [step |-> "find", versions |-> None, grade |-> -1]
    BY <1>1, <1>7, <2>1 DEF Coalesce, TypeOK
  <2>4. [step |-> "find", versions |-> None, grade |-> -1] # None
    <3>1. [step |-> "find", versions |-> None, grade |-> -1] \in Slow
      BY DEF Slow
    <3> QED BY <3>1
  <2>5. x \in BOOLEAN
    OBVIOUS
  <2> HIDE DEF x
  <2>6. /\ req'[r].step = "wait" /\ req'[r].joined = x /\ req'[r].proc = p
        /\ req'[r].key = req[r].key /\ req'[r].account = req[r].account
        /\ req'[r].began = req[r].began /\ req'[r].excuse = req[r].excuse
    BY <1>1, <2>2 DEF Request
  <2>7. ~x => slow'[p] # None /\ slow'[p].step = "find"
    BY <2>3, <2>4
  <2> QED BY <1>1, <1>2, <1>7, <2>1, <2>6, <2>7 DEF RequestInv
<1> QED BY <1>3, <1>4, <1>5, <1>6, <1>7 DEF Proceed

\* A slow path goes on: it passes the first query only on a key that is not
\* revoked, and takes its grade from the row as it is.
LEMMA SlowPathMoves ==
    ASSUME AnswerInv, NEW p \in Processes, NEW s \in Slow, slow[p] # None,
           db' = db, req' = req, slow' = [slow EXCEPT ![p] = s],
           slow[p].step = "find" => ~db.revoked,
           s.step \in {"set", "resolve"} =>
              \/ s.grade = db.grade
              \/ s.grade = slow[p].grade /\ slow[p].step \in {"set", "resolve"},
           NEW q \in Requests
    PROVE  RequestInv(q)'
<1>1. TypeOK /\ RequestInv(q)
  BY AnswerInvSplit
<1>2. s # None /\ slow'[p] = s /\ \A x \in Processes : x # p => slow'[x] = slow[x]
  BY <1>1 DEF TypeOK
<1>3. CASE q \in Waiting(p)
  BY <1>1, <1>2, <1>3, RequestTypes DEF RequestInv, Waiting
<1>4. CASE q \notin Waiting(p)
  BY <1>1, <1>2, <1>4 DEF RequestInv, Waiting
<1> QED BY <1>3, <1>4

\* A slow path settles, with a refusal or with a grant.
LEMMA SlowPathSettles ==
    ASSUME AnswerInv, NEW p \in Processes, slow[p] # None, db' = db,
           \/ Reject(p) /\ Bad(db)
           \/ Resolve(p),
           NEW q \in Requests
    PROVE  RequestInv(q)'
<1>1. TypeOK /\ RequestInv(q) /\ req[q] \in Request /\ slow[p] \in Slow
  BY AnswerInvSplit DEF TypeOK
<1>2. \A x \in Processes : x # p => slow'[x] = slow[x]
  BY <1>1 DEF TypeOK, Reject, Resolve
<1>3. CASE q \notin Waiting(p)
  <2>1. req'[q] = req[q]
    BY <1>1, <1>3 DEF TypeOK, Reject, Resolve
  <2> QED BY <1>1, <1>2, <1>3, <2>1 DEF RequestInv, Waiting
<1>4. CASE q \in Waiting(p) /\ Reject(p) /\ Bad(db)
  <2>1. req'[q] = Refuse(req[q])
    BY <1>4 DEF Reject
  <2> QED BY <1>1, <1>4, <2>1 DEF RequestInv, Waiting, Request, Refuse
<1>5. CASE q \in Waiting(p) /\ Resolve(p)
  <2>1. req'[q] = Grant(req[q], slow[p].grade)
    BY <1>5 DEF Resolve
  <2> QED BY <1>1, <1>5, <2>1 DEF RequestInv, Waiting, Request, Grant, Resolve, SlowStep
<1> QED BY <1>3, <1>4, <1>5

LEMMA SlowPathKeeps ==
    ASSUME AnswerInv, NEW p \in Processes, SlowPath(p), NEW q \in Requests
    PROVE  RequestInv(q)'
<1>1. TypeOK /\ slow[p] # None /\ slow[p] \in Slow /\ db' = db
  BY DEF AnswerInv, TypeOK, SlowPath, FindApiKey, CaptureVersions, Recheck, GetAccount, Set,
         Resolve, SlowStep
<1>2. CASE FindApiKey(p) \/ Recheck(p)
  <2>1. CASE db.revoked
    BY <1>1, <1>2, <2>1, SlowPathSettles DEF FindApiKey, Recheck, Bad
  <2>2. CASE ~db.revoked
    <3>1. PICK st \in {"capture", "account"} : Advance(p, st)
      BY <1>2, <2>2 DEF FindApiKey, Recheck
    <3> DEFINE s == [slow[p] EXCEPT !.step = st]
    <3>2. s \in Slow /\ s.step = st /\ slow' = [slow EXCEPT ![p] = s] /\ req' = req
      BY <1>1, <3>1, SlowMoves DEF Advance, Slow
    <3> HIDE DEF s
    <3> QED BY <1>1, <2>2, <3>2, SlowPathMoves
  <2> QED BY <2>1, <2>2
<1>3. CASE CaptureVersions(p)
  <2> DEFINE a == [slow[p] EXCEPT !.step = "recheck", !.versions = [kv |-> kv, av |-> av]]
             b == [slow[p] EXCEPT !.step = "account"]
  <2>1. [kv |-> kv, av |-> av] \in Versions
    BY <1>1 DEF Versions, TypeOK
  <2>2. a \in Slow /\ b \in Slow /\ a.step = "recheck" /\ b.step = "account"
    BY <1>1, <2>1, SlowMoves DEF Slow
  <2>3. \E s \in {a, b} : slow' = [slow EXCEPT ![p] = s]
    BY <1>3 DEF CaptureVersions
  <2>4. slow[p].step = "capture" /\ req' = req
    BY <1>3 DEF CaptureVersions, SlowStep
  <2> HIDE DEF a, b
  <2> QED BY <1>1, <2>2, <2>3, <2>4, SlowPathMoves
<1>4. CASE GetAccount(p)
  <2>1. CASE db.suspended
    BY <1>1, <1>4, <2>1, SlowPathSettles DEF GetAccount, Bad
  <2>2. CASE ~db.suspended
    <3> DEFINE s == [slow[p] EXCEPT !.step = "set", !.grade = db.grade]
    <3>1. db.grade \in -1 .. MaxChanges
      BY <1>1 DEF TypeOK, Database
    <3>2. s \in Slow /\ s.grade = db.grade
      BY <1>1, <3>1, SlowMoves DEF Slow
    <3>3. slow' = [slow EXCEPT ![p] = s] /\ req' = req /\ slow[p].step = "account"
      BY <1>4, <2>2 DEF GetAccount, SlowStep
    <3> HIDE DEF s
    <3> QED BY <1>1, <3>2, <3>3, SlowPathMoves
  <2> QED BY <2>1, <2>2
<1>5. CASE Set(p)
  <2> DEFINE s == [slow[p] EXCEPT !.step = "resolve"]
  <2>1. s \in Slow /\ s.grade = slow[p].grade
    BY <1>1, SlowMoves DEF Slow
  <2>2. slow' = [slow EXCEPT ![p] = s] /\ req' = req /\ slow[p].step = "set"
    BY <1>5 DEF Set, Advance, SlowStep
  <2> HIDE DEF s
  <2> QED BY <1>1, <2>1, <2>2, SlowPathMoves
<1>6. CASE Resolve(p)
  BY <1>1, <1>6, SlowPathSettles
<1> QED BY <1>2, <1>3, <1>4, <1>5, <1>6 DEF SlowPath

LEMMA GradedStep ==
    ASSUME TypeOK, Graded, Next
    PROVE  Graded'
<1>1. CASE slow' = slow
  BY <1>1 DEF Graded
<1>2. ASSUME NEW r \in Requests, Coalesce(r)
      PROVE  Graded'
  BY <1>2 DEF Coalesce, Graded, TypeOK
<1>3. ASSUME NEW p \in Processes, Reject(p) \/ Resolve(p)
      PROVE  Graded'
  BY <1>3 DEF Reject, Resolve, Graded, TypeOK
<1>4. ASSUME NEW p \in Processes, slow[p] # None, NEW st \in {"capture", "account"}, Advance(p, st)
      PROVE  Graded'
  BY <1>4 DEF Advance, Graded, TypeOK, Slow
<1>5. ASSUME NEW p \in Processes, CaptureVersions(p)
      PROVE  Graded'
  <2>1. slow[p] \in Slow
    BY <1>5 DEF CaptureVersions, SlowStep, TypeOK
  <2> DEFINE a == [slow[p] EXCEPT !.step = "recheck", !.versions = [kv |-> kv, av |-> av]]
             b == [slow[p] EXCEPT !.step = "account"]
  <2>2. a.step = "recheck" /\ b.step = "account"
    BY <2>1 DEF Slow
  <2>3. \E s \in {a, b} : slow' = [slow EXCEPT ![p] = s]
    BY <1>5 DEF CaptureVersions
  <2> HIDE DEF a, b
  <2> QED BY <2>2, <2>3 DEF Graded, TypeOK
<1>6. ASSUME NEW p \in Processes, GetAccount(p), ~db.suspended
      PROVE  Graded'
  <2>1. db.grade >= 0
    BY DEF TypeOK, Database
  <2>2. slow[p] \in Slow /\ slow' = [slow EXCEPT ![p] = [@ EXCEPT !.step = "set", !.grade = db.grade]]
    BY <1>6 DEF GetAccount, SlowStep, TypeOK
  <2> QED BY <2>1, <2>2 DEF Graded, TypeOK, Slow
<1>7. ASSUME NEW p \in Processes, Set(p)
      PROVE  Graded'
  BY <1>7 DEF Set, Advance, SlowStep, Graded, TypeOK, Slow
<1>8. \/ slow' = slow
      \/ \E r \in Requests : Coalesce(r)
      \/ \E p \in Processes : SlowPath(p)
  BY DEF Next, RevokeKey, Suspend, ChangeAccount, Commit, InvalidateKey, InvalidateAccount,
         AnnouncementIsLost, EntryExpires, RedisLosesData, Get, Proceed, Gate, ReadLive, AnswerHit
<1>9. ASSUME NEW p \in Processes, SlowPath(p)
      PROVE  Graded'
  BY <1>3, <1>4, <1>5, <1>6, <1>7, <1>9
     DEF SlowPath, FindApiKey, Recheck, SlowStep, GetAccount
<1> QED BY <1>1, <1>2, <1>8, <1>9

LEMMA AnswerStep == AnswerInv /\ [Next]_vars => AnswerInv'
<1> SUFFICES ASSUME AnswerInv, [Next]_vars
             PROVE  AnswerInv'
  OBVIOUS
<1>1. CASE Next
  <2>1. TypeOK /\ Graded
    BY DEF AnswerInv
  <2>2. TypeOK' /\ Graded'
    BY <1>1, <2>1, TypeStep, GradedStep
  <2>3. ASSUME NEW q \in Requests PROVE RequestInv(q)'
    BY <1>1, CommitKeeps, CacheKeeps, GetKeeps, ProceedKeeps, SlowPathKeeps DEF Next, CacheAction
  <2>4. (\A q \in Requests : RequestInv(q))'
    BY <2>3
  <2> QED BY <2>2, <2>4 DEF AnswerInv, RequestInv, BeganBefore, Placed, LiveReads, OwnSlowPath,
                            GrantsLiveAuthority, RefusalIsEarned
<1>2. CASE UNCHANGED vars
  BY <1>2 DEF vars, AnswerInv, TypeOK, Graded, BeganBefore, Placed, LiveReads, OwnSlowPath,
              GrantsLiveAuthority, RefusalIsEarned
<1> QED BY <1>1, <1>2

\* Whatever the cache holds, loses or is not told, a request that does its own
\* work is granted only with a key that was not revoked when it began and on a
\* row no older, and refused only if the credential was bad in its time.
THEOREM AnswersAlwaysEarned == Spec => []AnswersAreEarned
<1>1. AnswerInv => AnswersAreEarned
  BY DEF AnswerInv, AnswersAreEarned
<1> QED BY <1>1, AnswerInit, AnswerStep, PTL DEF Spec

-----------------------------------------------------------------------------
(* True entries *)

\* What TaggedBefore says of a cached entry and of one slow path, against the
\* grade g of the row.
EntryTrue(e, g) == e # Nothing => e.kv + e.av <= e.grade /\ e.grade <= g

SlowTrue(s, g) ==
    s # None =>
        /\ s.versions # None => s.versions.kv + s.versions.av <= g
        /\ s.step \in {"set", "resolve"} =>
              /\ s.grade <= g
              /\ s.versions # None => s.versions.kv + s.versions.av <= s.grade

LEMMA TaggedBeforeSplit ==
    TaggedBefore <=> EntryTrue(entry, db.grade) /\ \A p \in Processes : SlowTrue(slow[p], db.grade)
  BY DEF TaggedBefore, EntryTrue, SlowTrue

LEMMA CacheTypes ==
    ASSUME TypeOK
    PROVE  /\ db.grade \in Nat /\ kv \in Nat /\ av \in Nat /\ faults \in Nat
           /\ owed["key"] \in Nat /\ owed["account"] \in Nat
           /\ entry # Nothing => entry.grade \in Nat /\ entry.kv \in Nat /\ entry.av \in Nat
  BY DEF TypeOK, Database, Entry

LEMMA SlowTypes ==
    ASSUME NEW s \in Slow
    PROVE  /\ s.grade \in Int
           /\ s.versions # None => s.versions.kv \in Nat /\ s.versions.av \in Nat
  BY DEF Slow, Versions

LEMMA CacheInit == Init => CacheInv
  BY DEF Init, CacheInv, Announced, TaggedBefore

LEMMA CacheStep ==
    ASSUME TypeOK, TypeOK', Graded, CacheInv, Next
    PROVE  CacheInv'
<1> SUFFICES ASSUME faults' = 0
             PROVE  Announced' /\ TaggedBefore'
  BY DEF CacheInv
<1>0. faults = 0 /\ ~Fault
  <2>1. ~Fault
    BY CacheTypes DEF Fault
  <2>2. faults' = faults
    BY <2>1 DEF Next, RevokeKey, Suspend, ChangeAccount, Commit, InvalidateKey, InvalidateAccount,
                AnnouncementIsLost, EntryExpires, RedisLosesData, Get, Proceed, Gate, ReadLive,
                AnswerHit, Coalesce, SlowPath, FindApiKey, CaptureVersions, Recheck, GetAccount,
                Set, Resolve
  <2> QED BY <2>1, <2>2
<1>1. /\ Announced /\ EntryTrue(entry, db.grade)
      /\ \A p \in Processes : SlowTrue(slow[p], db.grade) /\ slow[p] \in Slow \cup {None}
  BY <1>0, TaggedBeforeSplit DEF CacheInv, TypeOK
<1>2. SUFFICES Announced' /\ EntryTrue(entry', db'.grade)
                          /\ \A p \in Processes : SlowTrue(slow'[p], db'.grade)
  BY DEF TaggedBefore, EntryTrue, SlowTrue
<1>3. CASE RevokeKey \/ Suspend \/ ChangeAccount
  <2>1. /\ db'.grade = db.grade + 1 /\ entry' = entry /\ slow' = slow /\ kv' = kv /\ av' = av
        /\ \E w \in {"key", "account"} : owed' = [owed EXCEPT ![w] = @ + 1]
    BY <1>3 DEF RevokeKey, Suspend, ChangeAccount, Commit, redisVars, TypeOK, Database
  <2>2. Announced'
    BY <1>1, <2>1, CacheTypes DEF Announced, TypeOK
  <2>3. EntryTrue(entry', db'.grade)
    BY <1>1, <2>1, CacheTypes DEF EntryTrue
  <2>4. ASSUME NEW p \in Processes PROVE SlowTrue(slow'[p], db'.grade)
    BY <1>1, <2>1, CacheTypes, SlowTypes DEF SlowTrue
  <2> QED BY <2>2, <2>3, <2>4
<1>4. CASE InvalidateKey \/ InvalidateAccount
  <2>1. db' = db /\ slow' = slow /\ entry' \in {entry, Nothing}
    BY <1>4 DEF InvalidateKey, InvalidateAccount
  <2>2. Announced'
    BY <1>1, <1>4, <2>1, CacheTypes DEF Announced, TypeOK, InvalidateKey, InvalidateAccount
  <2> QED BY <1>1, <2>1, <2>2 DEF EntryTrue
<1>5. CASE EntryExpires
  BY <1>1, <1>5 DEF EntryExpires, Announced, EntryTrue
<1>6. ASSUME NEW r \in Requests, NEW p \in Processes, Get(r, p)
      PROVE  Announced' /\ EntryTrue(entry', db'.grade)
                        /\ \A x \in Processes : SlowTrue(slow'[x], db'.grade)
  BY <1>1, <1>6 DEF Get, redisVars, Announced
<1>7. ASSUME NEW r \in Requests, Proceed(r)
      PROVE  Announced' /\ EntryTrue(entry', db'.grade)
                        /\ \A x \in Processes : SlowTrue(slow'[x], db'.grade)
  <2>1. db' = db /\ owed' = owed /\ kv' = kv /\ av' = av /\ entry' = entry
    BY <1>7 DEF Proceed, Gate, ReadLive, AnswerHit, Coalesce, redisVars
  <2>2. ASSUME NEW x \in Processes
        PROVE  \/ slow'[x] = slow[x]
               \/ slow'[x] = [step |-> "find", versions |-> None, grade |-> -1]
    BY <1>7 DEF Proceed, Gate, ReadLive, AnswerHit, Coalesce, TypeOK
  <2> QED BY <1>1, <2>1, <2>2 DEF Announced, SlowTrue
<1>8. ASSUME NEW p \in Processes, SlowPath(p)
      PROVE  Announced' /\ EntryTrue(entry', db'.grade)
                        /\ \A x \in Processes : SlowTrue(slow'[x], db'.grade)
  <2>1. /\ db' = db /\ owed' = owed /\ kv' = kv /\ av' = av
        /\ slow[p] \in Slow
        /\ \A x \in Processes : x # p => slow'[x] = slow[x]
    BY <1>8 DEF SlowPath, FindApiKey, CaptureVersions, Recheck, GetAccount, Set, Resolve, redisVars,
                SlowStep, Reject, Advance, TypeOK
  <2>2. Announced'
    BY <1>1, <2>1 DEF Announced
  <2>3. kv + av <= db.grade
    BY <1>1, CacheTypes DEF Announced
  <2>4. SUFFICES EntryTrue(entry', db.grade) /\ SlowTrue(slow'[p], db.grade)
    BY <1>1, <2>1, <2>2
  <2>5. CASE FindApiKey(p) \/ Recheck(p) \/ (GetAccount(p) /\ db.suspended)
    <3>1. entry' = entry
      BY <2>5 DEF FindApiKey, Recheck, GetAccount, redisVars
    <3>2. \/ slow'[p] = None
          \/ slow'[p] = [slow[p] EXCEPT !.step = "capture"]
          \/ slow'[p] = [slow[p] EXCEPT !.step = "account"]
      BY <2>5 DEF FindApiKey, Recheck, GetAccount, Reject, Advance, TypeOK
    <3> QED BY <1>1, <2>1, <3>1, <3>2 DEF SlowTrue, Slow
  <2>6. CASE CaptureVersions(p)
    <3> DEFINE v == [kv |-> kv, av |-> av]
    <3>1. entry' = entry /\ slow'[p] = [slow[p] EXCEPT !.step = "recheck", !.versions = v]
      BY <1>0, <2>6 DEF CaptureVersions, redisVars, TypeOK
    <3>2. v.kv = kv /\ v.av = av
      OBVIOUS
    <3> HIDE DEF v
    <3>3. slow'[p].step = "recheck" /\ slow'[p].versions = v
      BY <2>1, <3>1 DEF Slow
    <3> QED BY <1>1, <2>3, <3>1, <3>2, <3>3 DEF SlowTrue
  <2>7. CASE GetAccount(p) /\ ~db.suspended
    <3>1. entry' = entry /\ slow'[p] = [slow[p] EXCEPT !.step = "set", !.grade = db.grade]
      BY <2>7 DEF GetAccount, redisVars, TypeOK
    <3>2. slow'[p].grade = db.grade /\ slow'[p].versions = slow[p].versions
      BY <2>1, <3>1 DEF Slow
    <3> QED BY <1>1, <2>1, <3>1, <3>2, CacheTypes DEF SlowTrue
  <2>8. CASE Set(p)
    <3>1. slow'[p] = [slow[p] EXCEPT !.step = "resolve"] /\ slow[p].step = "set"
      BY <2>8 DEF Set, Advance, SlowStep, TypeOK
    <3>2. slow'[p].grade = slow[p].grade /\ slow'[p].versions = slow[p].versions
      BY <2>1, <3>1 DEF Slow
    <3>3. SlowTrue(slow'[p], db.grade)
      BY <1>1, <2>1, <3>1, <3>2 DEF SlowTrue
    <3>4. \/ entry' = entry
          \/ slow[p].versions # None /\ entry' = Tagged(p)
      BY <2>8 DEF Set
    <3>5. slow[p].versions # None => EntryTrue(Tagged(p), db.grade)
      BY <1>1, <2>1, <3>1 DEF SlowTrue, EntryTrue, Tagged
    <3> QED BY <1>1, <3>3, <3>4, <3>5
  <2>9. CASE Resolve(p)
    <3>1. slow'[p] = None /\ entry' = entry
      BY <2>9 DEF Resolve, redisVars, TypeOK
    <3> QED BY <1>1, <3>1 DEF SlowTrue
  <2> QED BY <1>8, <2>5, <2>6, <2>7, <2>8, <2>9 DEF SlowPath
<1> QED
  BY <1>0, <1>3, <1>4, <1>5, <1>6, <1>7, <1>8 DEF Next, AnnouncementIsLost, RedisLosesData

\* While no Redis call fails, an entry that passes the version gate when every
\* change is announced says what the database says, however late it was written.
THEOREM CurrentEntryAlwaysTrue == Spec => []CurrentEntryIsTrue
<1>1. AnswerInv /\ CacheInv /\ [Next]_vars => CacheInv'
  <2>1. AnswerInv /\ CacheInv /\ Next => CacheInv'
    BY CacheStep, TypeStep DEF AnswerInv
  <2>2. CacheInv /\ UNCHANGED vars => CacheInv'
    BY DEF vars, CacheInv, Announced, TaggedBefore
  <2> QED BY <2>1, <2>2
<1>2. AnswerInv /\ CacheInv => CurrentEntryIsTrue
  <2> SUFFICES ASSUME TypeOK, Announced, TaggedBefore, owed.key = 0, owed.account = 0,
                      entry # Nothing, CurrentEntry(entry)
               PROVE  entry.grade = db.grade
    BY DEF AnswerInv, CacheInv, CurrentEntryIsTrue
  <2> QED BY CacheTypes DEF Announced, TaggedBefore, CurrentEntry
<1> QED BY <1>1, <1>2, AnswerInit, AnswerStep, CacheInit, PTL DEF Spec
=============================================================================
