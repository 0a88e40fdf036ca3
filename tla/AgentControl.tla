---------------------------- MODULE AgentControl ----------------------------
(***************************************************************************)
(* Who controls one agent session: the row with its mode, its pair-mode    *)
(* state and the authority revision the database raises with every change  *)
(* of control (db/agent-sessions-repo.ts); the routes that take control,   *)
(* change the mode, stop and close (routes/agent-sessions.ts); the sweep   *)
(* that gives control back when the client falls silent                    *)
(* (services/agent-pair-mode-heartbeat-sweep.ts); and the AI turns that    *)
(* must not act once control has moved (services/agent-runtime.ts,         *)
(* services/agent-executor-control-plane.ts).                              *)
(*                                                                         *)
(* One server process owns the turns and the heartbeat tracker, and loses  *)
(* both when it restarts; the row and the takeover lock outlive it.  Every *)
(* statement and every stretch of code between two awaits is a step.       *)
(*                                                                         *)
(* A takeover is named by its request: the state it writes carries its     *)
(* client and its time, so no two are equal, and its client is its own, as *)
(* is the lock that client may release.  A heartbeat is named by what      *)
(* recorded it, and goes stale when the thirty seconds have passed.  The   *)
(* states behind takeover-pending are left out: no code emits the          *)
(* transitions that lead there, and /handback is refused in all others.    *)
(***************************************************************************)
EXTENDS Integers, FiniteSets

CONSTANTS
    Takeovers,   \* requests for control
    Flips,       \* requests that change the mode
    Turns,       \* messages to the agent
    None,
    MaxRequests, \* bound: of all these, how many are made
    MaxActs,     \* bound: intents one turn dispatches
    MaxFaults    \* bound: restarts, failed seeds, lost answers, lapsed locks

ASSUME ConstantsAssumption ==
    /\ {MaxRequests, MaxActs, MaxFaults} \subseteq Nat
    /\ None \notin Turns \cup {"boot"}
    /\ {None, "null", "ai-driving", "boot"} \cap Takeovers = {}

(***************************************************************************)
(* row      agent_sessions: status, mode, pair_mode_state and revision     *)
(* lock     pair_lock:<id>, the request that holds it                      *)
(* tracker  the last heartbeat: what recorded it, whether it is stale      *)
(* take     takeover requests: where they are, the state they read         *)
(* flip     mode requests: where they are, the mode they ask for           *)
(* turn     messages: where they are, the admission they hold, whether     *)
(*          their controller is aborted, how many intents they dispatched; *)
(*          history: whether control moved since, what they did after      *)
(*          that, and the page reads that left after a stop                *)
(* slot     activeTurnSessionIds: the turn that runs                       *)
(* sweep    the tick in flight: the heartbeat and the state it observed    *)
(* closing  a DELETE has asked the turn to stop and is to close the row    *)
(* stopped  history: turns for which somebody was told stop_requested      *)
(* lost     history: takeovers whose answer or whose seed was lost         *)
(***************************************************************************)
VARIABLES row, lock, tracker, take, flip, turn, slot, sweep, closing, stopped,
          lost, faults

vars == <<row, lock, tracker, take, flip, turn, slot, sweep, closing, stopped,
          lost, faults>>

Modes == {"ai", "pair", "manual"}
States == {"null", "ai-driving"} \cup Takeovers
Authority == [open : BOOLEAN, mode : Modes, state : States, rev : Nat]
Beats == [by : Takeovers \cup {"boot", None}, stale : BOOLEAN]
TakeoverRequest == [step : {"idle", "read", "locked", "committed", "cancelled", "done"},
                    input : BOOLEAN, saw : States]
ModeRequest == [step : {"idle", "read", "written", "done"}, to : Modes]
TurnState == [step : {"idle", "admitted", "verified", "running", "cleared", "looking", "ending",
                      "done"},
              held : Authority, aborted : BOOLEAN, acts : 0 .. MaxActs,
              moved : BOOLEAN, late : Nat, leaked : BOOLEAN, unheard : Nat]
Tick == [step : {"idle", "read", "over", "timeout", "written", "undo"},
         by : Takeovers \cup {"boot", None}, saw : States]

Untracked == [by |-> None, stale |-> FALSE]
Idle == [step |-> "idle", by |-> None, saw |-> "null"]

\* A request or a turn that is yet to come; what it holds goes when it ends.
NewTake == [step |-> "idle", input |-> FALSE, saw |-> "null"]
NewFlip == [step |-> "idle", to |-> "ai"]
NewTurn == [step |-> "idle", held |-> [open |-> FALSE, mode |-> "ai", state |-> "null", rev |-> 0],
            aborted |-> FALSE, acts |-> 0, moved |-> FALSE, late |-> 0, leaked |-> FALSE,
            unheard |-> 0]
Ended(new) == [new EXCEPT !.step = "done"]

\* A human's request is pending in the row.
Parked == row.open /\ row.state \in Takeovers

Init ==
    /\ row \in [open : {TRUE}, mode : Modes, state : {"null"}, rev : {0}]
    /\ lock = None
    /\ tracker = Untracked
    /\ take = [r \in Takeovers |-> NewTake]
    /\ flip = [f \in Flips |-> NewFlip]
    /\ turn = [t \in Turns |-> NewTurn]
    /\ slot = None
    /\ sweep = Idle
    /\ closing = FALSE
    /\ stopped = {}
    /\ lost = {}
    /\ faults = 0

-----------------------------------------------------------------------------
(* The row *)

Open(t) == turn[t].step \notin {"idle", "done"}

\* The trigger of migration 0107 raises the revision iff status, mode or state
\* changes.  Every admitted turn has then lost the control it was admitted under.
Change(new) ==
    LET moved == [new EXCEPT !.rev = row.rev] # row
    IN  /\ row' = IF moved THEN [new EXCEPT !.rev = row.rev + 1] ELSE row
        /\ turn' = [t \in Turns |->
                     [turn[t] EXCEPT !.moved = @ \/ (moved /\ Open(t))]]

\* compareAndSetPairModeState: status, mode and state in one predicate.
Matches(expected) == row.open /\ row.mode = "pair" /\ row.state = expected

Requested ==
    Cardinality({r \in Takeovers : take[r].step # "idle"})
    + Cardinality({f \in Flips : flip[f].step # "idle"})
    + Cardinality({t \in Turns : turn[t].step # "idle"})

Fault == faults < MaxFaults /\ faults' = faults + 1

-----------------------------------------------------------------------------
(* Stopping a turn *)

\* requestTurnStop reaches the turn that runs and every admitted request.
Aborted(ts) == [t \in Turns |-> [ts[t] EXCEPT !.aborted = @ \/ Open(t)]]

AskToStop == /\ turn' = Aborted(turn)
             /\ stopped' = stopped \cup {t \in Turns : Open(t)}

Stop ==
    /\ \E t \in Turns : Open(t) /\ ~turn[t].aborted
    /\ AskToStop
    /\ UNCHANGED <<row, lock, tracker, take, flip, slot, sweep, closing, lost, faults>>

-----------------------------------------------------------------------------
(* Takeover: POST /takeover, or the first input event of a pair session *)

Step(r, s) == take' = [take EXCEPT ![r].step = s]

\* The finally of the route gives the lock back, if it is still this request's.
Leave(r) == take' = [take EXCEPT ![r] = Ended(NewTake)] /\ lock' = IF lock = r THEN None ELSE lock

ReadForTakeover(r, input) ==
    /\ take[r].step = "idle"
    /\ Requested < MaxRequests
    /\ row.mode = "pair"
    /\ input => row.open /\ row.state \notin Takeovers
    /\ take' = [take EXCEPT ![r] = [step |-> "read", input |-> input, saw |-> row.state]]
    /\ UNCHANGED <<row, lock, tracker, flip, turn, slot, sweep, closing, stopped, lost, faults>>

TryAcquire(r) ==
    /\ take[r].step = "read"
    /\ \/ lock = None /\ lock' = r /\ Step(r, "locked")
       \/ lock # None /\ take' = [take EXCEPT ![r] = Ended(NewTake)] /\ UNCHANGED lock
    /\ UNCHANGED <<row, tracker, flip, turn, slot, sweep, closing, stopped, lost, faults>>

\* takeover-request is legal from ai-driving alone.  An answer the database
\* connection loses after the commit leaves by the error path.
CommitTakeover(r) ==
    /\ take[r].step = "locked"
    /\ \/ /\ take[r].saw \notin Takeovers
          /\ Matches(take[r].saw)
          /\ Change([row EXCEPT !.state = r])
          /\ \/ Step(r, "committed") /\ UNCHANGED <<lock, lost, faults>>
             \/ Leave(r) /\ Fault /\ lost' = lost \cup {r}
       \/ /\ take[r].saw \in Takeovers \/ ~Matches(take[r].saw)
          /\ Leave(r)
          /\ UNCHANGED <<row, turn, lost, faults>>
    /\ UNCHANGED <<tracker, flip, slot, sweep, closing, stopped>>

\* Only the takeover route cancels the running turn.
CancelForTakeover(r) ==
    /\ take[r].step = "committed"
    /\ ~take[r].input
    /\ AskToStop
    /\ Step(r, "cancelled")
    /\ UNCHANGED <<row, lock, tracker, flip, slot, sweep, closing, lost, faults>>

\* After the audit row, the last await before the heartbeat.
RecordHeartbeat(r) ==
    /\ take[r].step = IF take[r].input THEN "committed" ELSE "cancelled"
    /\ tracker' = [by |-> r, stale |-> FALSE]
    /\ Leave(r)
    /\ UNCHANGED <<row, flip, turn, slot, sweep, closing, stopped, lost, faults>>

LockLapses ==
    /\ lock # None
    /\ lock' = None
    /\ Fault
    /\ UNCHANGED <<row, tracker, take, flip, turn, slot, sweep, closing, stopped, lost>>

-----------------------------------------------------------------------------
(* Mode changes and close *)

ReadForMode(f, to) ==
    /\ flip[f].step = "idle"
    /\ Requested < MaxRequests
    /\ row.open
    /\ row.mode # to
    /\ flip' = [flip EXCEPT ![f] = [step |-> "read", to |-> to]]
    /\ UNCHANGED <<row, lock, tracker, take, turn, slot, sweep, closing, stopped, lost, faults>>

\* Mutant: the pair state outlives pair mode.
SetModeAlone(f) ==
    /\ flip[f].step = "read"
    /\ row.open
    /\ Change([row EXCEPT !.mode = flip[f].to])
    /\ flip' = [flip EXCEPT ![f].step = "written"]
    /\ UNCHANGED <<lock, tracker, take, slot, sweep, closing, stopped, lost, faults>>

\* setModeIfActive: the row only has to be open still.
SetMode(f) ==
    /\ flip[f].step = "read"
    /\ \/ /\ row.open
          /\ Change([row EXCEPT !.mode = flip[f].to,
                                !.state = IF flip[f].to = "pair" THEN "ai-driving" ELSE "null"])
          /\ flip' = [flip EXCEPT ![f].step = "written"]
       \/ /\ ~row.open
          /\ flip' = [flip EXCEPT ![f] = Ended(NewFlip)]
          /\ UNCHANGED <<row, turn>>
    /\ UNCHANGED <<lock, tracker, take, slot, sweep, closing, stopped, lost, faults>>

CancelForMode(f) ==
    /\ flip[f].step = "written"
    /\ AskToStop
    /\ flip' = [flip EXCEPT ![f] = Ended(NewFlip)]
    /\ UNCHANGED <<row, lock, tracker, take, slot, sweep, closing, lost, faults>>

BeginClose ==
    /\ row.open /\ ~closing
    /\ AskToStop
    /\ closing' = TRUE
    /\ UNCHANGED <<row, lock, tracker, take, flip, slot, sweep, lost, faults>>

\* The wait for the turn to wind down is bounded, so the close may come at any time.
CloseRow ==
    /\ closing
    /\ closing' = FALSE
    /\ Change([row EXCEPT !.open = FALSE])
    /\ UNCHANGED <<lock, tracker, take, flip, slot, sweep, stopped, lost, faults>>

-----------------------------------------------------------------------------
(* AI turns and manual notes *)

\* agentTurnAdmissionForSession: the AI in control, or a manual session.
Admissible(a) ==
    /\ a.open
    /\ \/ a.mode \in {"ai", "manual"} /\ a.state = "null"
       \/ a.mode = "pair" /\ a.state \in {"null", "ai-driving"}

\* Mutant: the lane is compared and the revision is not.
SameLane(held) == Admissible(row) /\ row.mode = held.mode /\ row.state = held.state

\* agentTurnAdmissionMatchesSnapshot: the admission, revision included, still holds.
StillCurrent(held) == Admissible(row) /\ row = held

\* The request's stop window opens with its admission.
Admit(t) ==
    /\ turn[t].step = "idle"
    /\ Requested < MaxRequests
    /\ turn' = [turn EXCEPT ![t] = IF Admissible(row) THEN [@ EXCEPT !.step = "admitted", !.held = row]
                                                      ELSE Ended(NewTurn)]
    /\ UNCHANGED <<row, lock, tracker, take, flip, slot, sweep, closing, stopped, lost, faults>>

\* runTurn: the fast refusal, then the authority read, which is an await.
Verify(t) ==
    /\ turn[t].step = "admitted"
    /\ turn' = [turn EXCEPT ![t] =
                  IF slot = None /\ StillCurrent(@.held) THEN [@ EXCEPT !.step = "verified"]
                                                         ELSE Ended(NewTurn)]
    /\ UNCHANGED <<row, lock, tracker, take, flip, slot, sweep, closing, stopped, lost, faults>>

\* Mutant: the slot is not looked at again after the await.
ElectAtOnce(t) ==
    /\ turn[t].step = "verified"
    /\ slot' = t
    /\ turn' = [turn EXCEPT ![t].step = "running"]
    /\ UNCHANGED <<row, lock, tracker, take, flip, sweep, closing, stopped, lost, faults>>

\* Mutant: the turn makes a controller of its own.
ElectAnew(t) ==
    /\ turn[t].step = "verified"
    /\ slot = None
    /\ slot' = t
    /\ turn' = [turn EXCEPT ![t].step = "running", ![t].aborted = FALSE]
    /\ UNCHANGED <<row, lock, tracker, take, flip, sweep, closing, stopped, lost, faults>>

\* The slot is taken, or found taken, in one synchronous block; the turn runs
\* under the controller of its stop window.
Elect(t) ==
    /\ turn[t].step = "verified"
    /\ \/ slot = None /\ slot' = t /\ turn' = [turn EXCEPT ![t].step = "running"]
       \/ slot # None /\ turn' = [turn EXCEPT ![t] = Ended(NewTurn)] /\ UNCHANGED slot
    /\ UNCHANGED <<row, lock, tracker, take, flip, sweep, closing, stopped, lost, faults>>

\* A turn that goes on reads the authority; a read that fails counts as lost.
CheckAuthority(t) ==
    /\ turn[t].step = "running"
    /\ turn[t].held.mode # "manual" /\ turn[t].acts < MaxActs
    /\ turn' = [turn EXCEPT ![t].step =
                  IF ~turn[t].aborted /\ StillCurrent(turn[t].held) THEN "cleared" ELSE "ending"]
    /\ UNCHANGED <<row, lock, tracker, take, flip, slot, sweep, closing, stopped, lost, faults>>

\* Stop is asked again after that await, and then the intent leaves.
Dispatch(t) ==
    /\ turn[t].step = "cleared"
    /\ IF turn[t].aborted
         THEN turn' = [turn EXCEPT ![t].step = "ending"]
         ELSE turn' = [turn EXCEPT ![t].step = "running", ![t].acts = @ + 1,
                                   ![t].late = IF turn[t].moved THEN @ + 1 ELSE @]
    /\ UNCHANGED <<row, lock, tracker, take, flip, slot, sweep, closing, stopped, lost, faults>>

\* Mutant: a turn looks at the page without asking for a stop.
LookUnasked(t) ==
    /\ turn[t].step = "running"
    /\ turn[t].held.mode # "manual" /\ StillCurrent(turn[t].held)
    /\ turn' = [turn EXCEPT ![t].step = "looking"]
    /\ UNCHANGED <<row, lock, tracker, take, flip, slot, sweep, closing, stopped, lost, faults>>

\* A turn looks at the page: it asks for a stop and then reads the authority.
\* A look that is refused changes nothing; the turn's next question is its own.
Look(t) ==
    /\ turn[t].step = "running"
    /\ turn[t].held.mode # "manual"
    /\ ~turn[t].aborted /\ StillCurrent(turn[t].held)
    /\ turn' = [turn EXCEPT ![t].step = "looking"]
    /\ UNCHANGED <<row, lock, tracker, take, flip, slot, sweep, closing, stopped, lost, faults>>

\* The read leaves as soon as that await is over: stop is not asked again.
ReadPage(t) ==
    /\ turn[t].step = "looking"
    /\ turn' = [turn EXCEPT ![t].step = "running",
                            ![t].late = IF turn[t].moved THEN @ + 1 ELSE @,
                            ![t].unheard = IF turn[t].aborted THEN @ + 1 ELSE @]
    /\ UNCHANGED <<row, lock, tracker, take, flip, slot, sweep, closing, stopped, lost, faults>>

\* appendTranscriptIfAuthorityRevision, for the message, the plan and the answer.
Publishable(held) == row.open /\ row.rev = held.rev

Publish(t) ==
    /\ turn[t].step = "running"
    /\ IF Publishable(turn[t].held) THEN turn' = [turn EXCEPT ![t].leaked = @ \/ turn[t].moved]
                                    ELSE turn' = [turn EXCEPT ![t].step = "ending"]
    /\ turn' # turn
    /\ UNCHANGED <<row, lock, tracker, take, flip, slot, sweep, closing, stopped, lost, faults>>

\* A full transcript closes the session, under the same revision.
CloseFull(t) ==
    /\ turn[t].step = "running"
    /\ turn[t].acts = 0
    /\ Publishable(turn[t].held)
    /\ row' = [row EXCEPT !.open = FALSE, !.rev = @ + 1]
    /\ turn' = [u \in Turns |-> [turn[u] EXCEPT
                  !.step = IF u = t THEN "ending" ELSE @, !.moved = @ \/ Open(u),
                  !.leaked = @ \/ (u = t /\ turn[u].moved)]]
    /\ UNCHANGED <<lock, tracker, take, flip, slot, sweep, closing, stopped, lost, faults>>

\* The turn answers, frees its slot and closes its window.
EndTurn(t) ==
    /\ turn[t].step \in {"running", "ending"}
    /\ turn' = [turn EXCEPT ![t] = Ended(NewTurn)]
    /\ slot' = None
    /\ UNCHANGED <<row, lock, tracker, take, flip, sweep, closing, stopped, lost, faults>>

-----------------------------------------------------------------------------
(* Heartbeats *)

\* Thirty seconds pass without another.
GoStale ==
    /\ tracker # Untracked /\ ~tracker.stale
    /\ tracker' = [tracker EXCEPT !.stale = TRUE]
    /\ UNCHANGED <<row, lock, take, flip, turn, slot, sweep, closing, stopped, lost, faults>>

\* A tick finds the session stale and reads its row.
SweepRead ==
    /\ sweep = Idle
    /\ tracker.stale
    /\ sweep' = [step |-> IF row.open THEN "read" ELSE "over", by |-> tracker.by, saw |-> row.state]
    /\ UNCHANGED <<row, lock, tracker, take, flip, turn, slot, closing, stopped, lost, faults>>

\* The heartbeat the tick observed is still the last one: one that was recorded
\* since is fresh by the tick's own clock.
Observed == tracker.by = sweep.by /\ tracker # Untracked

\* Mutant: a session without a pending takeover is forgotten whatever came since.
SweepForgets ==
    /\ sweep.step \in {"read", "over"}
    /\ \/ sweep.saw \notin Takeovers /\ tracker' = Untracked /\ sweep' = Idle
       \/ /\ sweep.saw \in Takeovers
          /\ sweep' = [sweep EXCEPT !.step = "timeout"] /\ UNCHANGED tracker
    /\ UNCHANGED <<row, lock, take, flip, turn, slot, closing, stopped, lost, faults>>

\* Before the write: nothing to time out is forgotten, a newer heartbeat is left.
SweepJudge ==
    /\ sweep.step \in {"read", "over"}
    /\ \/ /\ sweep.step = "over" \/ (Observed /\ sweep.saw \notin Takeovers)
          /\ tracker' = Untracked /\ sweep' = Idle
       \/ /\ sweep.step = "read" /\ ~Observed
          /\ sweep' = Idle /\ UNCHANGED tracker
       \/ /\ sweep.step = "read" /\ Observed /\ sweep.saw \in Takeovers
          /\ sweep' = [sweep EXCEPT !.step = "timeout"] /\ UNCHANGED tracker
    /\ UNCHANGED <<row, lock, take, flip, turn, slot, closing, stopped, lost, faults>>

SweepWrite ==
    /\ sweep.step = "timeout"
    /\ \/ /\ Matches(sweep.saw)
          /\ Change([row EXCEPT !.state = "ai-driving"])
          /\ sweep' = [sweep EXCEPT !.step = "written"]
       \/ /\ ~Matches(sweep.saw)
          /\ sweep' = Idle
          /\ UNCHANGED <<row, turn>>
    /\ UNCHANGED <<lock, tracker, take, flip, slot, closing, stopped, lost, faults>>

\* After it: the heartbeat is forgotten before the next await, or the timeout undone.
SweepSettle ==
    /\ sweep.step = "written"
    /\ \/ Observed /\ tracker' = Untracked /\ sweep' = Idle
       \/ ~Observed /\ sweep' = [sweep EXCEPT !.step = "undo"] /\ UNCHANGED tracker
    /\ UNCHANGED <<row, lock, take, flip, turn, slot, closing, stopped, lost, faults>>

SweepUndo ==
    /\ sweep.step = "undo"
    /\ sweep' = Idle
    /\ \/ Matches("ai-driving") /\ Change([row EXCEPT !.state = sweep.saw])
       \/ ~Matches("ai-driving") /\ UNCHANGED <<row, turn>>
    /\ UNCHANGED <<lock, tracker, take, flip, slot, closing, stopped, lost, faults>>

\* The process restarts: what it held in memory is gone, and the boot seeds the
\* tracker from the rows that wait for a client, unless that read fails.
Over(reqs, new) == [x \in DOMAIN reqs |-> IF reqs[x].step = "idle" THEN new ELSE Ended(new)]

Restart(seeded) ==
    /\ Fault
    /\ take' = Over(take, NewTake) /\ flip' = Over(flip, NewFlip) /\ turn' = Over(turn, NewTurn)
    /\ slot' = None /\ sweep' = Idle /\ closing' = FALSE
    /\ tracker' = IF seeded /\ Parked THEN [by |-> "boot", stale |-> FALSE] ELSE Untracked
    /\ lost' = IF seeded THEN {} ELSE IF Parked THEN lost \cup {row.state} ELSE lost
    /\ UNCHANGED <<row, lock, stopped>>

-----------------------------------------------------------------------------
Takeover(r) ==
    \/ \E input \in BOOLEAN : ReadForTakeover(r, input)
    \/ TryAcquire(r) \/ CommitTakeover(r) \/ CancelForTakeover(r)
    \/ RecordHeartbeat(r)

ModeChange(f) == (\E to \in Modes : ReadForMode(f, to)) \/ SetMode(f) \/ CancelForMode(f)

Turn(t) ==
    \/ Admit(t) \/ Verify(t) \/ Elect(t) \/ CheckAuthority(t)
    \/ Dispatch(t) \/ Look(t) \/ ReadPage(t) \/ Publish(t) \/ CloseFull(t) \/ EndTurn(t)

Sweep == SweepRead \/ SweepJudge \/ SweepWrite \/ SweepSettle \/ SweepUndo

Next ==
    \/ \E r \in Takeovers : Takeover(r)
    \/ \E f \in Flips : ModeChange(f)
    \/ \E t \in Turns : Turn(t)
    \/ Sweep \/ GoStale \/ LockLapses \/ Stop \/ BeginClose \/ CloseRow
    \/ \E seeded \in BOOLEAN : Restart(seeded)

Spec == Init /\ [][Next]_vars

-----------------------------------------------------------------------------
(* Properties *)

\* Every variable has its type, and only pair mode has a pair state.
TypeOK ==
    /\ row \in Authority
    /\ row.mode # "pair" => row.state = "null"
    /\ lock \in Takeovers \cup {None}
    /\ tracker \in Beats
    /\ take \in [Takeovers -> TakeoverRequest]
    /\ flip \in [Flips -> ModeRequest]
    /\ turn \in [Turns -> TurnState]
    /\ slot \in Turns \cup {None}
    /\ sweep \in Tick
    /\ closing \in BOOLEAN /\ stopped \subseteq Turns /\ lost \subseteq Takeovers
    /\ faults \in 0 .. MaxFaults

\* The slot names the one turn that runs, and no other: two messages that both
\* passed the early check never run together, and no ended turn keeps the slot.
OneTurnAtATime ==
    \A t \in Turns : slot = t <=> turn[t].step \in {"running", "cleared", "looking", "ending"}

\* Once control has moved (a takeover, a timeout, a mode change, a close, or a
\* way round through them back to the same state) a turn admitted before writes
\* nothing to the transcript and dispatches at most the one intent or page read
\* it had already cleared.
ControlIsFenced == \A t \in Turns : turn[t].late <= 1 /\ ~turn[t].leaked

\* Turns are kept apart from one another and from whoever took control.
TurnsAreFenced == TypeOK /\ OneTurnAtATime /\ ControlIsFenced

\* A turn somebody was told would stop dispatches no further intent of its plan,
\* wherever the stop found it: in its preflight, before it took the slot, or
\* running.  It reads the page once more at most, if it was about to.
StopIsHeard ==
    [][\A t \in stopped : turn'[t].acts <= turn[t].acts /\ turn'[t].unheard <= 1]_vars

\* A takeover the row waits on is in view of the heartbeat sweep, or its own
\* request is about to record it, unless the database lost the answer to its
\* commit or the seed of the last boot.
ParkedIsTracked ==
    Parked => \/ tracker # Untracked
              \/ take[row.state].step \in {"committed", "cancelled"}
              \/ row.state \in lost
=============================================================================
