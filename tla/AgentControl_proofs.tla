------------------------- MODULE AgentControl_proofs -------------------------
(***************************************************************************)
(* Turns are fenced, a stop is heard and a parked takeover is tracked, for *)
(* every number of requests, turns, intents and faults.                    *)
(***************************************************************************)
EXTENDS AgentControl, TLAPS

USE ConstantsAssumption

-----------------------------------------------------------------------------
(* Types *)

LEMMA NewRecords ==
    /\ NewTake \in TakeoverRequest /\ Ended(NewTake) \in TakeoverRequest
    /\ NewFlip \in ModeRequest /\ Ended(NewFlip) \in ModeRequest
    /\ NewTurn \in TurnState /\ Ended(NewTurn) \in TurnState
    /\ Idle \in Tick /\ Untracked \in Beats
<1>1. NewTake \in TakeoverRequest /\ Ended(NewTake) \in TakeoverRequest
  BY DEF NewTake, Ended, TakeoverRequest, States
<1>2. NewFlip \in ModeRequest /\ Ended(NewFlip) \in ModeRequest
  BY DEF NewFlip, Ended, ModeRequest, Modes
<1>3. NewTurn \in TurnState
  BY DEF NewTurn, TurnState, Authority, States, Modes
<1>4. Ended(NewTurn) \in TurnState
  BY <1>3 DEF Ended, TurnState
<1>5. Idle \in Tick /\ Untracked \in Beats
  BY DEF Idle, Untracked, Tick, Beats, States
<1> QED BY <1>1, <1>2, <1>3, <1>4, <1>5

\* What a step may do to a turn.
LEMMA TurnMoves ==
    ASSUME NEW x \in TurnState
    PROVE  /\ \A st \in {"verified", "running", "cleared", "looking", "ending"} :
                 [x EXCEPT !.step = st] \in TurnState
           /\ \A b \in BOOLEAN : [x EXCEPT !.aborted = b] \in TurnState
           /\ \A b \in BOOLEAN : [x EXCEPT !.moved = b] \in TurnState
           /\ \A b \in BOOLEAN : [x EXCEPT !.leaked = b] \in TurnState
           /\ \A a \in Authority : [x EXCEPT !.step = "admitted", !.held = a] \in TurnState
           /\ \A n \in 0 .. MaxActs, l \in Nat :
                 [x EXCEPT !.step = "running", !.acts = n, !.late = l] \in TurnState
           /\ \A l \in Nat, n \in Nat :
                 [x EXCEPT !.step = "running", !.late = l, !.unheard = n] \in TurnState
<1>1. ASSUME NEW st \in {"verified", "running", "cleared", "looking", "ending"}
      PROVE  [x EXCEPT !.step = st] \in TurnState
  BY DEF TurnState
<1>2. ASSUME NEW b \in BOOLEAN PROVE [x EXCEPT !.aborted = b] \in TurnState
  BY DEF TurnState
<1>3. ASSUME NEW b \in BOOLEAN PROVE [x EXCEPT !.moved = b] \in TurnState
  BY DEF TurnState
<1>4. ASSUME NEW b \in BOOLEAN PROVE [x EXCEPT !.leaked = b] \in TurnState
  BY DEF TurnState
<1>5. ASSUME NEW a \in Authority PROVE [x EXCEPT !.step = "admitted", !.held = a] \in TurnState
  BY DEF TurnState
<1>6. ASSUME NEW n \in 0 .. MaxActs, NEW l \in Nat
      PROVE  [x EXCEPT !.step = "running", !.acts = n, !.late = l] \in TurnState
  BY DEF TurnState
<1>7. ASSUME NEW l \in Nat, NEW n \in Nat
      PROVE  [x EXCEPT !.step = "running", !.late = l, !.unheard = n] \in TurnState
  BY DEF TurnState
<1> QED BY <1>1, <1>2, <1>3, <1>4, <1>5, <1>6, <1>7

\* A change of control: either nothing moves, or the revision goes up by one and
\* every open turn is marked.
LEMMA ChangeMoves ==
    ASSUME TypeOK, NEW new \in Authority, Change(new)
    PROVE  /\ turn' \in [Turns -> TurnState]
           /\ \/ row' = row /\ turn' = turn
              \/ /\ row' = [new EXCEPT !.rev = row.rev + 1]
                 /\ \A t \in Turns : turn'[t] = [turn[t] EXCEPT !.moved = @ \/ Open(t)]
<1> DEFINE moved == [new EXCEPT !.rev = row.rev] # row
<1>1. /\ row' = IF moved THEN [new EXCEPT !.rev = row.rev + 1] ELSE row
      /\ turn' = [t \in Turns |-> [turn[t] EXCEPT !.moved = @ \/ (moved /\ Open(t))]]
  BY DEF Change
<1>2. moved \in BOOLEAN
  OBVIOUS
<1> HIDE DEF moved
<1>3. ASSUME NEW t \in Turns
      PROVE  /\ [turn[t] EXCEPT !.moved = @ \/ (moved /\ Open(t))] \in TurnState
             /\ ~moved => [turn[t] EXCEPT !.moved = @ \/ (moved /\ Open(t))] = turn[t]
             /\ moved => [turn[t] EXCEPT !.moved = @ \/ (moved /\ Open(t))]
                           = [turn[t] EXCEPT !.moved = @ \/ Open(t)]
  <2>1. turn[t] \in TurnState /\ turn[t].moved \in BOOLEAN
    BY DEF TypeOK, TurnState
  <2> DEFINE b == turn[t].moved \/ (moved /\ Open(t))
  <2>2. b \in BOOLEAN /\ (~moved => b = turn[t].moved)
    BY <2>1
  <2>3. moved => b = (turn[t].moved \/ Open(t))
    BY <1>2, <2>1
  <2>4. [turn[t] EXCEPT !.moved = turn[t].moved] = turn[t]
    BY <2>1 DEF TurnState
  <2> HIDE DEF b
  <2>5. /\ [turn[t] EXCEPT !.moved = b] \in TurnState
        /\ ~moved => [turn[t] EXCEPT !.moved = b] = turn[t]
    BY <2>1, <2>2, <2>4, TurnMoves
  <2>6. moved => [turn[t] EXCEPT !.moved = b] = [turn[t] EXCEPT !.moved = turn[t].moved \/ Open(t)]
    BY <2>3
  <2> QED BY <2>5, <2>6 DEF b
<1>4. turn' \in [Turns -> TurnState]
  BY <1>1, <1>3
<1>5. CASE moved
  BY <1>1, <1>3, <1>4, <1>5
<1>6. CASE ~moved
  <2>1. turn' = turn
    BY <1>1, <1>3, <1>6 DEF TypeOK
  <2> QED BY <1>1, <1>4, <1>6, <2>1
<1> QED BY <1>2, <1>5, <1>6

\* The rows the code writes.
LEMMA RowWrites ==
    ASSUME TypeOK
    PROVE  /\ \A s \in States : /\ [row EXCEPT !.state = s] \in Authority
                                /\ [row EXCEPT !.state = s].mode = row.mode
                                /\ [row EXCEPT !.state = s].open = row.open
                                /\ [row EXCEPT !.state = s].state = s
           /\ \A m \in Modes, s \in States :
                 /\ [row EXCEPT !.mode = m, !.state = s] \in Authority
                 /\ [row EXCEPT !.mode = m, !.state = s].mode = m
                 /\ [row EXCEPT !.mode = m, !.state = s].open = row.open
                 /\ [row EXCEPT !.mode = m, !.state = s].state = s
           /\ [row EXCEPT !.open = FALSE] \in Authority
           /\ [row EXCEPT !.open = FALSE].mode = row.mode
           /\ [row EXCEPT !.open = FALSE].state = row.state
           /\ ~[row EXCEPT !.open = FALSE].open
<1>1. row \in Authority
  BY DEF TypeOK
<1>2. ASSUME NEW s \in States
      PROVE  /\ [row EXCEPT !.state = s] \in Authority
             /\ [row EXCEPT !.state = s].mode = row.mode
             /\ [row EXCEPT !.state = s].open = row.open
             /\ [row EXCEPT !.state = s].state = s
  BY <1>1 DEF Authority
<1>3. ASSUME NEW m \in Modes, NEW s \in States
      PROVE  /\ [row EXCEPT !.mode = m, !.state = s] \in Authority
             /\ [row EXCEPT !.mode = m, !.state = s].mode = m
             /\ [row EXCEPT !.mode = m, !.state = s].open = row.open
             /\ [row EXCEPT !.mode = m, !.state = s].state = s
  BY <1>1 DEF Authority
<1>4. /\ [row EXCEPT !.open = FALSE] \in Authority
      /\ [row EXCEPT !.open = FALSE].mode = row.mode
      /\ [row EXCEPT !.open = FALSE].state = row.state
      /\ ~[row EXCEPT !.open = FALSE].open
  BY <1>1 DEF Authority
<1> QED BY <1>2, <1>3, <1>4

\* The part of the type invariant that a change of control concerns.
ControlType == row \in Authority /\ (row.mode # "pair" => row.state = "null")
                 /\ turn \in [Turns -> TurnState]

LEMMA ChangeTypes ==
    ASSUME TypeOK, NEW new \in Authority, new.mode # "pair" => new.state = "null", Change(new)
    PROVE  /\ ControlType'
           /\ row' = row \/ (row'.open = new.open /\ row'.mode = new.mode /\ row'.state = new.state
                               /\ row'.rev = row.rev + 1)
<1>1. [new EXCEPT !.rev = row.rev + 1] \in Authority
  BY DEF TypeOK, Authority
<1>2. /\ [new EXCEPT !.rev = row.rev + 1].mode = new.mode
      /\ [new EXCEPT !.rev = row.rev + 1].state = new.state
      /\ [new EXCEPT !.rev = row.rev + 1].open = new.open
      /\ [new EXCEPT !.rev = row.rev + 1].rev = row.rev + 1
  BY DEF Authority
<1> QED BY <1>1, <1>2, ChangeMoves DEF ControlType, TypeOK

LEMMA AbortTypes ==
    ASSUME TypeOK
    PROVE  Aborted(turn) \in [Turns -> TurnState]
<1>1. ASSUME NEW t \in Turns PROVE [turn[t] EXCEPT !.aborted = @ \/ Open(t)] \in TurnState
  <2>1. turn[t] \in TurnState /\ (turn[t].aborted \/ Open(t)) \in BOOLEAN
    BY DEF TypeOK, TurnState
  <2> QED BY <2>1, TurnMoves
<1> QED BY <1>1 DEF Aborted

LEMMA TypeInit == Init => TypeOK
<1> SUFFICES ASSUME Init PROVE TypeOK
  OBVIOUS
<1>1. row \in Authority /\ row.state = "null"
  <2>1. row \in [open : {TRUE}, mode : Modes, state : {"null"}, rev : {0}]
    BY DEF Init
  <2>2. row \in [open : BOOLEAN, mode : Modes, state : {"null"}, rev : {0}] /\ row.state = "null"
    BY <2>1
  <2> QED BY <2>2 DEF Authority, States
<1>2. /\ lock \in Takeovers \cup {None} /\ slot \in Turns \cup {None}
      /\ stopped \subseteq Turns /\ lost \subseteq Takeovers
  BY DEF Init
<1>4. closing \in BOOLEAN
  BY DEF Init
<1>5. faults \in 0 .. MaxFaults
  <2>1. MaxFaults \in Nat
    OBVIOUS
  <2> QED BY <2>1 DEF Init
<1>3. /\ take \in [Takeovers -> TakeoverRequest] /\ flip \in [Flips -> ModeRequest]
      /\ turn \in [Turns -> TurnState] /\ tracker \in Beats /\ sweep \in Tick
  BY NewRecords DEF Init
<1> QED BY <1>1, <1>2, <1>3, <1>4, <1>5 DEF TypeOK

LEMMA TakeoverTypes ==
    ASSUME TypeOK, NEW r \in Takeovers, Takeover(r)
    PROVE  TypeOK'
<1>0. /\ take[r] \in TakeoverRequest /\ take[r].saw \in States /\ r \in States
      /\ \A s \in {"locked", "cancelled", "committed"} : [take[r] EXCEPT !.step = s] \in TakeoverRequest
  BY DEF TypeOK, TakeoverRequest, States
<1>1. CASE \E input \in BOOLEAN : ReadForTakeover(r, input)
  <2>1. PICK input \in BOOLEAN : ReadForTakeover(r, input)
    BY <1>1
  <2>2. [step |-> "read", input |-> input, saw |-> row.state] \in TakeoverRequest
    BY DEF TypeOK, TakeoverRequest, Authority
  <2> QED BY <2>1, <2>2 DEF ReadForTakeover, TypeOK
<1>2. CASE TryAcquire(r)
  BY <1>0, <1>2, NewRecords DEF TryAcquire, Step, TypeOK
<1>3. CASE CommitTakeover(r)
  <2>1. take' \in [Takeovers -> TakeoverRequest] /\ lock' \in Takeovers \cup {None}
    BY <1>0, <1>3, NewRecords DEF CommitTakeover, Step, Leave, TypeOK
  <2>2. ControlType'
    <3>1. CASE UNCHANGED <<row, turn>>
      BY <3>1 DEF TypeOK, ControlType
    <3>2. CASE row.mode = "pair" /\ Change([row EXCEPT !.state = r])
      BY <1>0, <3>2, ChangeTypes, RowWrites
    <3> QED BY <1>3, <3>1, <3>2 DEF CommitTakeover, Matches
  <2>3. /\ UNCHANGED <<tracker, flip, slot, sweep, closing, stopped>>
        /\ lost' \subseteq Takeovers /\ faults' \in 0 .. MaxFaults
    BY <1>3 DEF CommitTakeover, Fault, TypeOK
  <2> QED BY <2>1, <2>2, <2>3 DEF TypeOK, ControlType
<1>4. CASE CancelForTakeover(r)
  BY <1>0, <1>4, AbortTypes DEF CancelForTakeover, AskToStop, Step, TypeOK
<1>5. CASE RecordHeartbeat(r)
  <2>1. tracker' \in Beats
    BY <1>5 DEF RecordHeartbeat, Beats
  <2> QED BY <1>5, <2>1, NewRecords DEF RecordHeartbeat, Leave, TypeOK
<1> QED BY <1>1, <1>2, <1>3, <1>4, <1>5 DEF Takeover

LEMMA ModeTypes ==
    ASSUME TypeOK, NEW f \in Flips, ModeChange(f)
    PROVE  TypeOK'
<1>0. /\ flip[f] \in ModeRequest /\ flip[f].to \in Modes
      /\ [flip[f] EXCEPT !.step = "written"] \in ModeRequest
  BY DEF TypeOK, ModeRequest
<1>1. CASE \E to \in Modes : ReadForMode(f, to)
  <2>1. PICK to \in Modes : ReadForMode(f, to)
    BY <1>1
  <2>2. [step |-> "read", to |-> to] \in ModeRequest
    BY DEF ModeRequest
  <2> QED BY <2>1, <2>2 DEF ReadForMode, TypeOK
<1>2. CASE SetMode(f)
  <2>1. flip' \in [Flips -> ModeRequest]
    BY <1>0, <1>2, NewRecords DEF SetMode, TypeOK
  <2>2. ControlType'
    <3>1. CASE UNCHANGED <<row, turn>>
      BY <3>1 DEF TypeOK, ControlType
    <3> DEFINE s == IF flip[f].to = "pair" THEN "ai-driving" ELSE "null"
    <3>2. CASE Change([row EXCEPT !.mode = flip[f].to, !.state = s])
      <4>1. s \in States /\ (flip[f].to # "pair" => s = "null")
        BY DEF States
      <4> HIDE DEF s
      <4> QED BY <1>0, <3>2, <4>1, ChangeTypes, RowWrites
    <3> QED BY <1>2, <3>1, <3>2 DEF SetMode
  <2> QED BY <1>2, <2>1, <2>2 DEF SetMode, TypeOK, ControlType
<1>3. CASE CancelForMode(f)
  BY <1>3, AbortTypes, NewRecords DEF CancelForMode, AskToStop, TypeOK
<1> QED BY <1>1, <1>2, <1>3 DEF ModeChange

\* What holds of one turn.  It acts under the authority it was admitted with
\* until control moves, and the revision is past that authority from then on; the
\* one late intent or page read is one that was cleared before.  A page read that
\* left after a stop is the last.
TurnInv(t) ==
    /\ turn[t].moved => Open(t) /\ turn[t].held.rev < row.rev
    /\ Open(t) /\ ~turn[t].moved => turn[t].held = row
    /\ turn[t].late \in {0, 1}
    /\ turn[t].late = 1 => turn[t].moved /\ turn[t].step \in {"running", "ending"}
    /\ turn[t].unheard \in {0, 1}
    /\ turn[t].unheard = 1 => turn[t].aborted /\ turn[t].step \in {"running", "ending"}
    /\ ~turn[t].leaked
    /\ turn[t].step = "cleared" => turn[t].acts < MaxActs
    /\ slot = t <=> turn[t].step \in {"running", "cleared", "looking", "ending"}

LEMMA TurnTypes ==
    ASSUME TypeOK, NEW t \in Turns, TurnInv(t), Turn(t)
    PROVE  TypeOK'
<1>0. turn[t] \in TurnState /\ turn[t].acts \in 0 .. MaxActs
      /\ turn[t].late \in Nat /\ turn[t].unheard \in Nat
      /\ turn[t].moved \in BOOLEAN /\ turn[t].leaked \in BOOLEAN /\ row \in Authority
  BY DEF TypeOK, TurnState
<1>1. CASE Admit(t)
  BY <1>0, <1>1, TurnMoves, NewRecords DEF Admit, TypeOK
<1>2. CASE Verify(t)
  BY <1>0, <1>2, TurnMoves, NewRecords DEF Verify, TypeOK
<1>3. CASE Elect(t)
  BY <1>0, <1>3, TurnMoves, NewRecords DEF Elect, TypeOK
<1>4. CASE CheckAuthority(t)
  BY <1>0, <1>4, TurnMoves, NewRecords DEF CheckAuthority, TypeOK
<1>5. CASE Dispatch(t)
  <2>1. turn[t].acts + 1 \in 0 .. MaxActs
    BY <1>0, <1>5 DEF Dispatch, TurnInv
  <2> DEFINE l == IF turn[t].moved THEN turn[t].late + 1 ELSE turn[t].late
  <2>2. l \in Nat
    BY <1>0
  <2>3. \/ turn' = [turn EXCEPT ![t] = [turn[t] EXCEPT !.step = "ending"]]
        \/ turn' = [turn EXCEPT ![t] = [turn[t] EXCEPT !.step = "running",
                                          !.acts = turn[t].acts + 1, !.late = l]]
    BY <1>5 DEF Dispatch
  <2> HIDE DEF l
  <2>4. /\ [turn[t] EXCEPT !.step = "ending"] \in TurnState
        /\ [turn[t] EXCEPT !.step = "running", !.acts = turn[t].acts + 1, !.late = l] \in TurnState
    BY <1>0, <2>1, <2>2, TurnMoves
  <2> QED BY <1>5, <2>3, <2>4 DEF Dispatch, TypeOK
<1>6. CASE Publish(t)
  <2> DEFINE b == turn[t].leaked \/ turn[t].moved
  <2>1. CASE Publishable(turn[t].held)
    <3>1. turn' = [turn EXCEPT ![t] = [turn[t] EXCEPT !.leaked = b]]
      BY <1>6, <2>1 DEF Publish
    <3>2. b \in BOOLEAN
      BY <1>0
    <3> HIDE DEF b
    <3>3. [turn[t] EXCEPT !.leaked = b] \in TurnState
      BY <1>0, <3>2, TurnMoves
    <3> QED BY <1>6, <3>1, <3>3 DEF Publish, TypeOK
  <2>2. CASE ~Publishable(turn[t].held)
    <3>1. turn' = [turn EXCEPT ![t] = [turn[t] EXCEPT !.step = "ending"]]
      BY <1>6, <2>2 DEF Publish
    <3> QED BY <1>0, <1>6, <3>1, TurnMoves DEF Publish, TypeOK
  <2> QED BY <2>1, <2>2
<1>7. CASE CloseFull(t)
  <2>1. row' \in Authority /\ (row'.mode # "pair" => row'.state = "null")
    <3>1. row' = [row EXCEPT !.open = FALSE, !.rev = row.rev + 1]
      BY <1>7 DEF CloseFull
    <3> DEFINE n == row.rev + 1
    <3>2. n \in Nat
      BY <1>0 DEF Authority
    <3> HIDE DEF n
    <3>3. row' = [row EXCEPT !.open = FALSE, !.rev = n]
      BY <3>1 DEF n
    <3>4. row' \in Authority
      BY <1>0, <3>2, <3>3 DEF Authority
    <3>5. row'.mode = row.mode /\ row'.state = row.state
      BY <1>0, <3>3 DEF Authority
    <3> QED BY <3>4, <3>5 DEF TypeOK
  <2>2. turn' \in [Turns -> TurnState]
    <3>1. ASSUME NEW u \in Turns
          PROVE  turn'[u] \in TurnState
      <4> DEFINE st == IF u = t THEN "ending" ELSE turn[u].step
                 b == turn[u].moved \/ Open(u)
                 c == turn[u].leaked \/ (u = t /\ turn[u].moved)
      <4>1. turn'[u] = [turn[u] EXCEPT !.step = st, !.moved = b, !.leaked = c]
        BY <1>7 DEF CloseFull
      <4>2. turn[u] \in TurnState /\ turn[u].moved \in BOOLEAN /\ turn[u].leaked \in BOOLEAN
        BY DEF TypeOK, TurnState
      <4>3. st \in {"idle", "admitted", "verified", "running", "cleared", "looking", "ending",
                        "done"}
        BY <4>2 DEF TurnState
      <4>4. b \in BOOLEAN /\ c \in BOOLEAN
        BY <4>2
      <4> HIDE DEF st, b, c
      <4> QED BY <4>1, <4>2, <4>3, <4>4 DEF TurnState
    <3>2. turn' = [u \in Turns |-> turn'[u]]
      BY <1>7 DEF CloseFull
    <3> QED BY <3>1, <3>2
  <2> QED BY <1>7, <2>1, <2>2 DEF CloseFull, TypeOK
<1>8. CASE EndTurn(t)
  BY <1>8, NewRecords DEF EndTurn, TypeOK
<1>9. CASE Look(t)
  BY <1>0, <1>9, TurnMoves DEF Look, TypeOK
<1>10. CASE ReadPage(t)
  <2> DEFINE l == IF turn[t].moved THEN turn[t].late + 1 ELSE turn[t].late
             n == IF turn[t].aborted THEN turn[t].unheard + 1 ELSE turn[t].unheard
  <2>1. l \in Nat /\ n \in Nat
    BY <1>0
  <2>2. turn' = [turn EXCEPT ![t] = [turn[t] EXCEPT !.step = "running", !.late = l, !.unheard = n]]
    BY <1>10 DEF ReadPage
  <2> HIDE DEF l, n
  <2>3. \A i, j \in Nat :
           [turn[t] EXCEPT !.step = "running", !.late = i, !.unheard = j] \in TurnState
    BY <1>0, TurnMoves
  <2>4. [turn[t] EXCEPT !.step = "running", !.late = l, !.unheard = n] \in TurnState
    BY <2>1, <2>3
  <2>5. turn' \in [Turns -> TurnState]
    BY <2>2, <2>4 DEF TypeOK
  <2>6. /\ stopped' = stopped /\ row' = row /\ slot' = slot
        /\ UNCHANGED <<lock, tracker, take, flip, sweep, closing, lost, faults>>
    BY <1>10 DEF ReadPage
  <2> QED BY <2>5, <2>6 DEF TypeOK, ControlType
<1> QED BY <1>1, <1>2, <1>3, <1>4, <1>5, <1>6, <1>7, <1>8, <1>9, <1>10 DEF Turn

LEMMA OtherTypes ==
    ASSUME TypeOK,
           Sweep \/ GoStale \/ LockLapses \/ Stop \/ BeginClose \/ CloseRow
             \/ \E seeded \in BOOLEAN : Restart(seeded)
    PROVE  TypeOK'
<1>0. /\ sweep \in Tick /\ sweep.saw \in States /\ tracker \in Beats /\ row \in Authority
      /\ row.state \in States
      /\ \A st \in {"timeout", "written", "undo"} : [sweep EXCEPT !.step = st] \in Tick
  BY DEF TypeOK, Tick, Authority
<1>1. CASE SweepRead
  <2>1. sweep' \in Tick
    <3>1. tracker.by \in Takeovers \cup {"boot", None}
      BY <1>0 DEF Beats
    <3> QED BY <1>0, <1>1, <3>1 DEF SweepRead, Tick
  <2> QED BY <1>1, <2>1 DEF SweepRead, TypeOK
<1>2. CASE SweepJudge \/ SweepSettle
  BY <1>0, <1>2, NewRecords DEF SweepJudge, SweepSettle, TypeOK
<1>3. CASE SweepWrite
  <2>1. ControlType'
    <3>1. CASE UNCHANGED <<row, turn>>
      BY <3>1 DEF TypeOK, ControlType
    <3>2. CASE row.mode = "pair" /\ Change([row EXCEPT !.state = "ai-driving"])
      <4>1. "ai-driving" \in States
        BY DEF States
      <4> QED BY <3>2, <4>1, ChangeTypes, RowWrites
    <3> QED BY <1>3, <3>1, <3>2 DEF SweepWrite, Matches
  <2>2. sweep' \in Tick
    BY <1>0, <1>3, NewRecords DEF SweepWrite
  <2> QED BY <1>3, <2>1, <2>2 DEF SweepWrite, TypeOK, ControlType
<1>4. CASE SweepUndo
  <2>1. ControlType'
    <3>1. CASE UNCHANGED <<row, turn>>
      BY <3>1 DEF TypeOK, ControlType
    <3>2. CASE row.mode = "pair" /\ Change([row EXCEPT !.state = sweep.saw])
      BY <1>0, <3>2, ChangeTypes, RowWrites
    <3> QED BY <1>4, <3>1, <3>2 DEF SweepUndo, Matches
  <2> QED BY <1>4, <2>1, NewRecords DEF SweepUndo, TypeOK, ControlType
<1>5. CASE GoStale
  <2>1. tracker' \in Beats
    BY <1>0, <1>5 DEF GoStale, Beats
  <2> QED BY <1>5, <2>1 DEF GoStale, TypeOK
<1>6. CASE LockLapses
  BY <1>6 DEF LockLapses, Fault, TypeOK
<1>7. CASE Stop \/ BeginClose
  BY <1>7, AbortTypes DEF Stop, BeginClose, AskToStop, TypeOK
<1>8. CASE CloseRow
  <2>1. ControlType'
    <3>1. [row EXCEPT !.open = FALSE].mode # "pair" => [row EXCEPT !.open = FALSE].state = "null"
      BY RowWrites DEF TypeOK
    <3>2. [row EXCEPT !.open = FALSE] \in Authority /\ Change([row EXCEPT !.open = FALSE])
      BY <1>8, RowWrites DEF CloseRow
    <3> HIDE DEF TypeOK
    <3> QED BY <3>1, <3>2, ChangeTypes
  <2> QED BY <1>8, <2>1 DEF CloseRow, TypeOK, ControlType
<1>9. ASSUME NEW seeded \in BOOLEAN, Restart(seeded)
      PROVE  TypeOK'
  <2>1. [by |-> "boot", stale |-> FALSE] \in Beats
    BY DEF Beats
  <2>2. /\ take' \in [Takeovers -> TakeoverRequest] /\ flip' \in [Flips -> ModeRequest]
        /\ turn' \in [Turns -> TurnState] /\ tracker' \in Beats /\ sweep' \in Tick
    BY <1>9, <2>1, NewRecords DEF Restart, Over, TypeOK
  <2>3. lost' \subseteq Takeovers
    BY <1>9 DEF Restart, Parked, TypeOK
  <2>4. faults' \in 0 .. MaxFaults
    BY <1>9 DEF Restart, Fault, TypeOK
  <2>5. UNCHANGED <<row, lock, stopped>> /\ slot' = None /\ closing' = FALSE
    BY <1>9 DEF Restart
  <2> QED BY <2>2, <2>3, <2>4, <2>5 DEF TypeOK
<1> QED BY <1>1, <1>2, <1>3, <1>4, <1>5, <1>6, <1>7, <1>8, <1>9 DEF Sweep

LEMMA TypeStep ==
    ASSUME TypeOK, \A t \in Turns : TurnInv(t), Next
    PROVE  TypeOK'
  BY TakeoverTypes, ModeTypes, TurnTypes, OtherTypes DEF Next

-----------------------------------------------------------------------------
(* Turns under authority, and stops *)

\* A turn somebody stopped was there to be stopped, and its controller is
\* aborted for as long as it is open.
StopInv(t) == t \in stopped => turn[t].step # "idle" /\ (Open(t) => turn[t].aborted)

\* What a step says of a turn: its invariant holds on, and a stop is heard.
Sound(t) == TurnInv(t) /\ StopInv(t)
Heard(t) == t \in stopped => turn'[t].acts <= turn[t].acts

TurnsInv == TypeOK /\ \A t \in Turns : Sound(t)

LEMMA TurnFields ==
    ASSUME TypeOK, NEW t \in Turns
    PROVE  /\ turn[t] \in TurnState /\ row \in Authority /\ row.rev \in Nat
           /\ turn[t].moved \in BOOLEAN /\ turn[t].leaked \in BOOLEAN
           /\ turn[t].aborted \in BOOLEAN
           /\ turn[t].acts \in Nat /\ turn[t].late \in Nat /\ turn[t].held.rev \in Nat
           /\ turn[t].unheard \in Nat
  BY DEF TypeOK, TurnState, Authority

LEMMA TurnsInit == Init => TurnsInv
<1> SUFFICES ASSUME Init, NEW t \in Turns PROVE Sound(t)
  BY TypeInit DEF TurnsInv
<1>1. turn[t] = NewTurn /\ slot = None /\ stopped = {}
  BY DEF Init
<1>2. /\ NewTurn.step = "idle" /\ ~NewTurn.moved /\ NewTurn.late = 0 /\ ~NewTurn.leaked
      /\ NewTurn.unheard = 0
  BY DEF NewTurn
<1> QED BY <1>1, <1>2 DEF Sound, TurnInv, StopInv, Open

\* Steps that leave the row, the turns, the slot and the stops alone.
LEMMA NothingKeeps ==
    ASSUME TurnsInv, UNCHANGED <<row, turn, slot, stopped>>, NEW t \in Turns
    PROVE  Sound(t)' /\ Heard(t)
<1>1. TypeOK /\ Sound(t)
  BY DEF TurnsInv
<1>2. Sound(t)'
  BY <1>1 DEF Sound, TurnInv, StopInv, Open
<1> QED BY <1>1, <1>2, TurnFields DEF Heard

\* A change of control marks every open turn.
LEMMA ChangeKeeps ==
    ASSUME TurnsInv, NEW new \in Authority, Change(new), UNCHANGED <<slot, stopped>>,
           NEW t \in Turns
    PROVE  Sound(t)' /\ Heard(t)
<1>1. TypeOK /\ Sound(t) /\ turn[t] \in TurnState
  BY TurnFields DEF TurnsInv
<1>2. CASE row' = row /\ turn' = turn
  BY <1>2, NothingKeeps
<1>3. CASE /\ row' = [new EXCEPT !.rev = row.rev + 1]
           /\ turn'[t] = [turn[t] EXCEPT !.moved = @ \/ Open(t)]
  <2> DEFINE b == turn[t].moved \/ Open(t)
  <2>1. turn'[t] = [turn[t] EXCEPT !.moved = b]
    BY <1>3
  <2>2. b <=> Open(t)
    BY <1>1, TurnFields DEF Sound, TurnInv
  <2> HIDE DEF b
  <2>3. /\ turn'[t].moved = b /\ turn'[t].step = turn[t].step
        /\ turn'[t].held = turn[t].held /\ turn'[t].aborted = turn[t].aborted
        /\ turn'[t].acts = turn[t].acts /\ turn'[t].late = turn[t].late
        /\ turn'[t].unheard = turn[t].unheard
        /\ turn'[t].leaked = turn[t].leaked
    BY <1>1, <2>1 DEF TurnState
  <2>4. row'.rev = row.rev + 1
    BY <1>3 DEF Authority
  <2>5. Open(t) => turn[t].held.rev < row'.rev
    BY <1>1, <2>4, TurnFields DEF Sound, TurnInv
  <2>6. TurnInv(t)'
    BY <1>1, <2>2, <2>3, <2>5 DEF Sound, TurnInv, Open
  <2>7. StopInv(t)' /\ Heard(t)
    BY <1>1, <2>3, TurnFields DEF Sound, StopInv, Open, Heard
  <2> QED BY <2>6, <2>7 DEF Sound
<1> QED BY <1>1, <1>2, <1>3, ChangeMoves

\* A stop aborts every open turn.
LEMMA StopKeeps ==
    ASSUME TurnsInv, AskToStop, UNCHANGED <<row, slot>>, NEW t \in Turns
    PROVE  Sound(t)' /\ Heard(t)
<1>1. TypeOK /\ Sound(t) /\ turn[t] \in TurnState
  BY TurnFields DEF TurnsInv
<1> DEFINE b == turn[t].aborted \/ Open(t)
<1>2. turn'[t] = [turn[t] EXCEPT !.aborted = b]
  BY DEF AskToStop, Aborted
<1>3. (Open(t) => b) /\ (turn[t].aborted => b)
  OBVIOUS
<1> HIDE DEF b
<1>4. /\ turn'[t].aborted = b /\ turn'[t].step = turn[t].step
      /\ turn'[t].held = turn[t].held /\ turn'[t].moved = turn[t].moved
      /\ turn'[t].acts = turn[t].acts /\ turn'[t].late = turn[t].late
      /\ turn'[t].unheard = turn[t].unheard
      /\ turn'[t].leaked = turn[t].leaked
  BY <1>1, <1>2 DEF TurnState
<1>5. TurnInv(t)'
  BY <1>1, <1>3, <1>4 DEF Sound, TurnInv, Open
<1>6. StopInv(t)'
  BY <1>1, <1>3, <1>4 DEF Sound, StopInv, Open, AskToStop
<1>7. Heard(t)
  BY <1>1, <1>4, TurnFields DEF Heard
<1> QED BY <1>5, <1>6, <1>7 DEF Sound

LEMMA EndedTurn ==
    LET x == Ended(NewTurn)
    IN  x.step = "done" /\ ~x.moved /\ x.late = 0 /\ ~x.leaked /\ x.acts = 0 /\ x.unheard = 0
  BY DEF Ended, NewTurn

\* A turn that ends is sound, whatever it was.
LEMMA EndingKeeps ==
    ASSUME TurnsInv, NEW t \in Turns, turn'[t] = Ended(NewTurn), slot' # t, stopped' = stopped
    PROVE  Sound(t)' /\ Heard(t)
<1>1. TypeOK
  BY DEF TurnsInv
<1> QED BY <1>1, EndedTurn, TurnFields DEF Sound, TurnInv, StopInv, Open, Heard

\* The steps of one turn leave the others alone.
LEMMA OtherTurnsKeep ==
    ASSUME TurnsInv, NEW t \in Turns, NEW u \in Turns, t # u, Turn(u), ~CloseFull(u)
    PROVE  Sound(t)' /\ Heard(t)
<1>1. TypeOK /\ Sound(t) /\ Sound(u)
  BY DEF TurnsInv
<1>2. turn'[t] = turn[t] /\ row' = row /\ stopped' = stopped
  BY <1>1 DEF Turn, Admit, Verify, Elect, CheckAuthority, Dispatch, Look, ReadPage, Publish,
              EndTurn, TypeOK
<1>3. (slot' = t) <=> (slot = t)
  <2>1. slot' = slot \/ (slot = None /\ slot' = u) \/ (EndTurn(u) /\ slot' = None)
    BY DEF Turn, Admit, Verify, Elect, CheckAuthority, Dispatch, Look, ReadPage, Publish, EndTurn
  <2>2. EndTurn(u) => slot = u
    BY <1>1 DEF Sound, TurnInv, EndTurn
  <2> QED BY <2>1, <2>2
<1> QED BY <1>1, <1>2, <1>3, TurnFields DEF Sound, TurnInv, StopInv, Open, Heard

\* Admission is under the row as it is.
LEMMA AdmitKeeps ==
    ASSUME TurnsInv, NEW t \in Turns, Admit(t)
    PROVE  Sound(t)' /\ Heard(t)
<1>1. TypeOK /\ Sound(t) /\ turn[t] \in TurnState
  BY TurnFields DEF TurnsInv
<1>2. CASE Admissible(row)
  <2>1. turn'[t] = [turn[t] EXCEPT !.step = "admitted", !.held = row]
    BY <1>1, <1>2 DEF Admit, TypeOK
  <2>2. turn[t].step = "idle" /\ row' = row /\ slot' = slot /\ stopped' = stopped
    BY DEF Admit
  <2> QED BY <1>1, <2>1, <2>2, TurnFields DEF TurnState, Sound, TurnInv, StopInv, Open, Heard
<1>3. CASE ~Admissible(row)
  <2>1. turn'[t] = Ended(NewTurn) /\ slot' # t /\ stopped' = stopped
    BY <1>1, <1>3 DEF Admit, Sound, TurnInv, TypeOK
  <2> QED BY <2>1, EndingKeeps
<1> QED BY <1>2, <1>3

\* A turn goes to another step, and the row and the stops stay.
LEMMA StepKeeps ==
    ASSUME TurnsInv, NEW t \in Turns, Open(t),
           NEW st \in {"verified", "running", "cleared", "looking", "ending"},
           turn'[t] = [turn[t] EXCEPT !.step = st],
           st = "cleared" => turn[t].acts < MaxActs,
           st \notin {"running", "ending"} => turn[t].late = 0 /\ turn[t].unheard = 0,
           (slot' = t) <=> st # "verified",
           row' = row, stopped' = stopped
    PROVE  Sound(t)' /\ Heard(t)
<1>1. TypeOK /\ Sound(t) /\ turn[t] \in TurnState
  BY TurnFields DEF TurnsInv
<1> QED BY <1>1, TurnFields DEF TurnState, Sound, TurnInv, StopInv, Open, Heard

\* Authority that is still current has not moved.
LEMMA CurrentHasNotMoved ==
    ASSUME TurnsInv, NEW t \in Turns, Publishable(turn[t].held) \/ StillCurrent(turn[t].held)
    PROVE  ~turn[t].moved /\ turn[t].late = 0
<1>1. TypeOK /\ Sound(t)
  BY DEF TurnsInv
<1>2. row.rev = turn[t].held.rev
  BY DEF Publishable, StillCurrent
<1> QED BY <1>1, <1>2, TurnFields DEF Sound, TurnInv

LEMMA TurnKeeps ==
    ASSUME TurnsInv, NEW t \in Turns, Turn(t)
    PROVE  Sound(t)' /\ Heard(t)
<1>1. TypeOK /\ Sound(t) /\ turn[t] \in TurnState /\ turn \in [Turns -> TurnState]
  BY TurnFields DEF TurnsInv, TypeOK
<1>2. CASE Admit(t)
  BY <1>2, AdmitKeeps
<1>3. CASE Verify(t)
  <2>1. turn[t].step = "admitted" /\ slot' = slot /\ row' = row /\ stopped' = stopped
    BY <1>3 DEF Verify
  <2>2. slot # t /\ Open(t)
    BY <1>1, <2>1 DEF Sound, TurnInv, Open
  <2>3. CASE slot = None /\ StillCurrent(turn[t].held)
    <3>1. turn'[t] = [turn[t] EXCEPT !.step = "verified"]
      BY <1>1, <1>3, <2>3 DEF Verify
    <3>2. turn[t].late = 0 /\ turn[t].unheard = 0
      BY <1>1, <2>1, <2>3, CurrentHasNotMoved DEF Sound, TurnInv
    <3> QED BY <2>1, <2>2, <3>1, <3>2, StepKeeps
  <2>4. CASE ~(slot = None /\ StillCurrent(turn[t].held))
    <3>1. turn'[t] = Ended(NewTurn)
      BY <1>1, <1>3, <2>4 DEF Verify
    <3> QED BY <2>1, <2>2, <3>1, EndingKeeps
  <2> QED BY <2>3, <2>4
<1>4. CASE Elect(t)
  <2>1. turn[t].step = "verified" /\ row' = row /\ stopped' = stopped
    BY <1>4 DEF Elect
  <2>2. slot # t /\ Open(t)
    BY <1>1, <2>1 DEF Sound, TurnInv, Open
  <2>3. CASE slot = None
    <3>1. slot' = t /\ turn'[t] = [turn[t] EXCEPT !.step = "running"]
      BY <1>1, <1>4, <2>3 DEF Elect
    <3> QED BY <2>1, <2>2, <3>1, StepKeeps
  <2>4. CASE slot # None
    <3>1. turn'[t] = Ended(NewTurn) /\ slot' = slot
      BY <1>1, <1>4, <2>4 DEF Elect
    <3> QED BY <2>1, <2>2, <3>1, EndingKeeps
  <2> QED BY <2>3, <2>4
<1>5. CASE CheckAuthority(t)
  <2>1. /\ turn[t].step = "running" /\ turn[t].acts < MaxActs
        /\ slot' = slot /\ row' = row /\ stopped' = stopped
    BY <1>5 DEF CheckAuthority
  <2>2. slot = t /\ Open(t)
    BY <1>1, <2>1 DEF Sound, TurnInv, Open
  <2>3. CASE ~turn[t].aborted /\ StillCurrent(turn[t].held)
    <3>1. turn'[t] = [turn[t] EXCEPT !.step = "cleared"]
      BY <1>1, <1>5, <2>3 DEF CheckAuthority
    <3>2. turn[t].late = 0 /\ turn[t].unheard = 0
      BY <1>1, <2>3, CurrentHasNotMoved DEF Sound, TurnInv
    <3> QED BY <2>1, <2>2, <3>1, <3>2, StepKeeps
  <2>4. CASE ~(~turn[t].aborted /\ StillCurrent(turn[t].held))
    <3>1. turn'[t] = [turn[t] EXCEPT !.step = "ending"]
      BY <1>1, <1>5, <2>4 DEF CheckAuthority
    <3> QED BY <2>1, <2>2, <3>1, StepKeeps
  <2> QED BY <2>3, <2>4
<1>6. CASE Dispatch(t)
  <2>1. turn[t].step = "cleared" /\ slot' = slot /\ row' = row /\ stopped' = stopped
    BY <1>6 DEF Dispatch
  <2>2. slot = t /\ Open(t) /\ turn[t].late = 0 /\ turn[t].unheard = 0
    BY <1>1, <2>1 DEF Sound, TurnInv, Open
  <2>3. CASE turn[t].aborted
    <3>1. turn'[t] = [turn[t] EXCEPT !.step = "ending"]
      BY <1>1, <1>6, <2>3 DEF Dispatch
    <3> QED BY <2>1, <2>2, <3>1, StepKeeps
  <2>4. CASE ~turn[t].aborted
    <3> DEFINE l == IF turn[t].moved THEN turn[t].late + 1 ELSE turn[t].late
    <3>1. turn'[t] = [turn[t] EXCEPT !.step = "running", !.acts = turn[t].acts + 1, !.late = l]
      BY <1>1, <1>6, <2>4 DEF Dispatch
    <3>2. l \in {0, 1} /\ (l = 1 => turn[t].moved)
      BY <2>2
    <3> HIDE DEF l
    <3>3. /\ turn'[t].step = "running" /\ turn'[t].late = l
          /\ turn'[t].held = turn[t].held /\ turn'[t].moved = turn[t].moved
          /\ turn'[t].leaked = turn[t].leaked /\ turn'[t].aborted = turn[t].aborted
          /\ turn'[t].unheard = turn[t].unheard
      BY <1>1, <3>1 DEF TurnState
    <3>4. t \notin stopped
      BY <1>1, <2>2, <2>4 DEF Sound, StopInv
    <3> QED BY <1>1, <2>1, <2>2, <3>2, <3>3, <3>4 DEF Sound, TurnInv, StopInv, Open, Heard
  <2> QED BY <2>3, <2>4
<1>7. CASE Publish(t)
  <2>1. turn[t].step = "running" /\ slot' = slot /\ row' = row /\ stopped' = stopped
    BY <1>7 DEF Publish
  <2>2. slot = t /\ Open(t)
    BY <1>1, <2>1 DEF Sound, TurnInv, Open
  <2>3. CASE Publishable(turn[t].held)
    <3> DEFINE b == turn[t].leaked \/ turn[t].moved
    <3>1. turn'[t] = [turn[t] EXCEPT !.leaked = b]
      BY <1>1, <1>7, <2>3 DEF Publish
    <3>2. ~b
      BY <1>1, <2>3, CurrentHasNotMoved DEF Sound, TurnInv
    <3> HIDE DEF b
    <3>3. /\ turn'[t].step = turn[t].step /\ turn'[t].late = turn[t].late
          /\ turn'[t].held = turn[t].held /\ turn'[t].moved = turn[t].moved
          /\ turn'[t].leaked = b /\ turn'[t].aborted = turn[t].aborted
          /\ turn'[t].acts = turn[t].acts /\ turn'[t].unheard = turn[t].unheard
      BY <1>1, <3>1 DEF TurnState
    <3> QED BY <1>1, <2>1, <2>2, <3>2, <3>3, TurnFields DEF Sound, TurnInv, StopInv, Open, Heard
  <2>4. CASE ~Publishable(turn[t].held)
    <3>1. turn'[t] = [turn[t] EXCEPT !.step = "ending"]
      BY <1>1, <1>7, <2>4 DEF Publish
    <3> QED BY <2>1, <2>2, <3>1, StepKeeps
  <2> QED BY <2>3, <2>4
<1>8. CASE EndTurn(t)
  <2>1. turn'[t] = Ended(NewTurn) /\ slot' = None /\ stopped' = stopped
    BY <1>1, <1>8 DEF EndTurn
  <2> QED BY <2>1, EndingKeeps
<1>9. CASE CloseFull(t)
  <2>1. turn[t].step = "running" /\ slot' = slot /\ row'.rev = row.rev + 1 /\ stopped' = stopped
    BY <1>1, <1>9, TurnFields DEF CloseFull, Authority
  <2>2. slot = t /\ Open(t) /\ ~turn[t].moved /\ ~turn[t].leaked
    <3>1. ~turn[t].moved
      BY <1>9, CurrentHasNotMoved DEF CloseFull
    <3> QED BY <1>1, <2>1, <3>1 DEF Sound, TurnInv, Open
  <2> DEFINE b == turn[t].moved \/ Open(t)
             c == turn[t].leaked \/ (t = t /\ turn[t].moved)
  <2>3. turn'[t] = [turn[t] EXCEPT !.step = "ending", !.moved = b, !.leaked = c]
    BY <1>9 DEF CloseFull
  <2>4. b /\ ~c
    BY <2>2
  <2> HIDE DEF b, c
  <2>5. /\ turn'[t].step = "ending" /\ turn'[t].late = turn[t].late
        /\ turn'[t].held = turn[t].held /\ turn'[t].moved = b
        /\ turn'[t].leaked = c /\ turn'[t].aborted = turn[t].aborted
        /\ turn'[t].acts = turn[t].acts /\ turn'[t].unheard = turn[t].unheard
    BY <1>1, <2>3 DEF TurnState
  <2>6. turn'[t].held.rev < row'.rev
    BY <1>1, <2>1, <2>2, <2>5, TurnFields DEF Sound, TurnInv
  <2> QED BY <1>1, <2>1, <2>2, <2>4, <2>5, <2>6, TurnFields
          DEF Sound, TurnInv, StopInv, Open, Heard
<1>10. CASE Look(t)
  <2>1. /\ turn[t].step = "running" /\ ~turn[t].aborted /\ StillCurrent(turn[t].held)
        /\ slot' = slot /\ row' = row /\ stopped' = stopped
    BY <1>10 DEF Look
  <2>2. slot = t /\ Open(t)
    BY <1>1, <2>1 DEF Sound, TurnInv, Open
  <2>3. turn'[t] = [turn[t] EXCEPT !.step = "looking"]
    BY <1>1, <1>10 DEF Look
  <2>4. turn[t].late = 0 /\ turn[t].unheard = 0
    BY <1>1, <2>1, CurrentHasNotMoved DEF Sound, TurnInv
  <2> QED BY <2>1, <2>2, <2>3, <2>4, StepKeeps
<1>11. CASE ReadPage(t)
  <2>1. turn[t].step = "looking" /\ slot' = slot /\ row' = row /\ stopped' = stopped
    BY <1>11 DEF ReadPage
  <2>2. slot = t /\ Open(t) /\ turn[t].late = 0 /\ turn[t].unheard = 0
    BY <1>1, <2>1 DEF Sound, TurnInv, Open
  <2> DEFINE l == IF turn[t].moved THEN turn[t].late + 1 ELSE turn[t].late
             n == IF turn[t].aborted THEN turn[t].unheard + 1 ELSE turn[t].unheard
  <2>3. turn'[t] = [turn[t] EXCEPT !.step = "running", !.late = l, !.unheard = n]
    BY <1>1, <1>11 DEF ReadPage
  <2>4. l \in {0, 1} /\ (l = 1 => turn[t].moved) /\ n \in {0, 1} /\ (n = 1 => turn[t].aborted)
    BY <2>2
  <2> HIDE DEF l, n
  <2>5. /\ turn'[t].step = "running" /\ turn'[t].late = l /\ turn'[t].unheard = n
        /\ turn'[t].held = turn[t].held /\ turn'[t].moved = turn[t].moved
        /\ turn'[t].leaked = turn[t].leaked /\ turn'[t].aborted = turn[t].aborted
        /\ turn'[t].acts = turn[t].acts
    BY <1>1, <2>3 DEF TurnState
  <2> QED BY <1>1, <2>1, <2>2, <2>4, <2>5, TurnFields DEF Sound, TurnInv, StopInv, Open, Heard
<1> QED BY <1>2, <1>3, <1>4, <1>5, <1>6, <1>7, <1>8, <1>9, <1>10, <1>11 DEF Turn

\* A full transcript closes the session: for the other turns, control moves.
LEMMA CloseFullKeeps ==
    ASSUME TurnsInv, NEW u \in Turns, CloseFull(u), NEW t \in Turns, t # u
    PROVE  Sound(t)' /\ Heard(t)
<1>1. TypeOK /\ Sound(t) /\ turn[t] \in TurnState
  BY TurnFields DEF TurnsInv
<1>2. slot' = slot /\ row'.rev = row.rev + 1 /\ stopped' = stopped
  BY <1>1, TurnFields DEF CloseFull, Authority
<1> DEFINE b == turn[t].moved \/ Open(t)
           c == turn[t].leaked \/ (t = u /\ turn[t].moved)
           st == IF t = u THEN "ending" ELSE turn[t].step
<1>3. turn'[t] = [turn[t] EXCEPT !.step = st, !.moved = b, !.leaked = c]
  BY DEF CloseFull
<1>4. (b <=> Open(t)) /\ ~c /\ st = turn[t].step
  BY <1>1 DEF Sound, TurnInv
<1> HIDE DEF b, c, st
<1>5. /\ turn'[t].step = turn[t].step /\ turn'[t].late = turn[t].late
      /\ turn'[t].held = turn[t].held /\ turn'[t].moved = b
      /\ turn'[t].leaked = c /\ turn'[t].aborted = turn[t].aborted
      /\ turn'[t].acts = turn[t].acts /\ turn'[t].unheard = turn[t].unheard
  BY <1>1, <1>3, <1>4 DEF TurnState
<1>6. Open(t) => turn[t].held.rev < row'.rev
  BY <1>1, <1>2, TurnFields DEF Sound, TurnInv
<1>7. TurnInv(t)'
  BY <1>1, <1>2, <1>4, <1>5, <1>6 DEF Sound, TurnInv, Open
<1>8. StopInv(t)' /\ Heard(t)
  BY <1>1, <1>2, <1>5, TurnFields DEF Sound, StopInv, Open, Heard
<1> QED BY <1>7, <1>8 DEF Sound

\* A restart ends every turn that had begun.
LEMMA RestartKeeps ==
    ASSUME TurnsInv, NEW seeded \in BOOLEAN, Restart(seeded), NEW t \in Turns
    PROVE  Sound(t)' /\ Heard(t)
<1>1. TypeOK /\ Sound(t) /\ slot' = None /\ stopped' = stopped /\ row' = row
  BY DEF TurnsInv, Restart
<1>2. turn'[t] = IF turn[t].step = "idle" THEN NewTurn ELSE Ended(NewTurn)
  BY <1>1 DEF Restart, Over, TypeOK
<1>3. CASE turn[t].step # "idle"
  BY <1>1, <1>2, <1>3, EndingKeeps
<1>4. CASE turn[t].step = "idle"
  <2>1. turn'[t] = NewTurn /\ t \notin stopped
    BY <1>1, <1>2, <1>4 DEF Sound, StopInv
  <2>2. NewTurn.step = "idle" /\ ~NewTurn.moved /\ NewTurn.late = 0 /\ ~NewTurn.leaked
        /\ NewTurn.unheard = 0
    BY DEF NewTurn
  <2> QED BY <1>1, <2>1, <2>2 DEF Sound, TurnInv, StopInv, Open, Heard
<1> QED BY <1>3, <1>4

LEMMA TurnsStep ==
    ASSUME TurnsInv, [Next]_vars
    PROVE  TurnsInv' /\ \A t \in Turns : Heard(t)
<1>1. TypeOK /\ \A t \in Turns : Sound(t)
  BY DEF TurnsInv
<1>2. TypeOK'
  <2>1. Next => TypeOK'
    BY <1>1, TypeStep DEF Sound
  <2>2. UNCHANGED vars => TypeOK'
    BY <1>1 DEF vars, TypeOK
  <2> QED BY <2>1, <2>2
<1>3. ASSUME NEW t \in Turns
      PROVE  Sound(t)' /\ Heard(t)
  <2>1. CASE UNCHANGED <<row, turn, slot, stopped>>
    BY <2>1, NothingKeeps
  <2>2. CASE (\E new \in Authority : Change(new)) /\ UNCHANGED <<slot, stopped>>
    BY <2>2, ChangeKeeps
  <2>3. CASE AskToStop /\ UNCHANGED <<row, slot>>
    BY <2>3, StopKeeps
  <2>4. ASSUME NEW r \in Takeovers, Takeover(r)
        PROVE  Sound(t)' /\ Heard(t)
    <3>1. [row EXCEPT !.state = r] \in Authority
      BY <1>1, RowWrites DEF States
    <3> QED BY <2>1, <2>2, <2>3, <2>4, <3>1
            DEF Takeover, ReadForTakeover, TryAcquire, CommitTakeover, CancelForTakeover,
                RecordHeartbeat
  <2>5. ASSUME NEW f \in Flips, ModeChange(f)
        PROVE  Sound(t)' /\ Heard(t)
    <3> DEFINE s == IF flip[f].to = "pair" THEN "ai-driving" ELSE "null"
               n == [row EXCEPT !.mode = flip[f].to, !.state = s]
    <3>1. n \in Authority
      <4>1. s \in States /\ flip[f].to \in Modes
        BY <1>1 DEF States, TypeOK, ModeRequest
      <4> HIDE DEF s
      <4> QED BY <1>1, <4>1, RowWrites
    <3>2. SetMode(f) => /\ UNCHANGED <<slot, stopped>>
                        /\ Change(n) \/ UNCHANGED <<row, turn>>
      BY DEF SetMode
    <3> HIDE DEF n
    <3> QED BY <2>1, <2>2, <2>3, <2>5, <3>1, <3>2 DEF ModeChange, ReadForMode, CancelForMode
  <2>6. ASSUME NEW u \in Turns, Turn(u)
        PROVE  Sound(t)' /\ Heard(t)
    <3>1. CASE u = t
      BY <2>6, <3>1, TurnKeeps
    <3>2. CASE u # t
      BY <2>6, <3>2, CloseFullKeeps, OtherTurnsKeep
    <3> QED BY <3>1, <3>2
  <2>7. CASE Sweep \/ GoStale \/ LockLapses \/ Stop \/ BeginClose \/ CloseRow
    <3>1. /\ [row EXCEPT !.state = "ai-driving"] \in Authority
          /\ [row EXCEPT !.state = sweep.saw] \in Authority
          /\ [row EXCEPT !.open = FALSE] \in Authority
      BY <1>1, RowWrites DEF States, TypeOK, Tick
    <3>2. CASE Sweep
      BY <2>1, <2>2, <3>1, <3>2
         DEF Sweep, SweepRead, SweepJudge, SweepWrite, SweepSettle, SweepUndo
    <3>3. CASE GoStale \/ LockLapses \/ Stop \/ BeginClose \/ CloseRow
      BY <2>1, <2>2, <2>3, <3>1, <3>3 DEF GoStale, LockLapses, Stop, BeginClose, CloseRow
    <3> QED BY <2>7, <3>2, <3>3
  <2>8. CASE UNCHANGED vars
    BY <2>1, <2>8 DEF vars
  <2> QED BY <2>4, <2>5, <2>6, <2>7, <2>8, RestartKeeps DEF Next
<1> QED BY <1>2, <1>3 DEF TurnsInv

\* One turn runs at a time, and once control has moved a turn admitted before
\* writes nothing and dispatches at most the intent or page read it had already
\* cleared.
THEOREM TurnsAlwaysFenced == Spec => []TurnsAreFenced
<1>1. TurnsInv => TurnsAreFenced
  BY DEF TurnsInv, Sound, TurnInv, TurnsAreFenced, OneTurnAtATime, ControlIsFenced
<1>2. TurnsInv /\ [Next]_vars => TurnsInv'
  BY TurnsStep
<1> QED BY <1>1, <1>2, TurnsInit, PTL DEF Spec

\* A turn somebody was told would stop dispatches no further intent of its plan,
\* and reads the page once more at most.
THEOREM StopAlwaysHeard == Spec => StopIsHeard
<1>1. TurnsInv /\ [Next]_vars => TurnsInv'
  BY TurnsStep
<1>2. TurnsInv /\ [Next]_vars
         => [\A t \in stopped : turn'[t].acts <= turn[t].acts /\ turn'[t].unheard <= 1]_vars
  <2> SUFFICES ASSUME TurnsInv, [Next]_vars, NEW t \in stopped
               PROVE  turn'[t].acts <= turn[t].acts /\ turn'[t].unheard <= 1
    OBVIOUS
  <2>1. t \in Turns
    BY DEF TurnsInv, TypeOK
  <2>2. Heard(t) /\ turn'[t].unheard \in {0, 1}
    BY <2>1, TurnsStep DEF TurnsInv, Sound, TurnInv
  <2> QED BY <2>2 DEF Heard
<1> QED BY <1>1, <1>2, TurnsInit, PTL DEF Spec, StopIsHeard

-----------------------------------------------------------------------------
(* A parked takeover is in view *)

Pending(r) == take[r].step \in {"committed", "cancelled"}

\* The tick is past the point where it found nothing to time out, or has timed
\* a takeover out, and may forget the heartbeat it observed or undo the timeout.
MayForget ==
    \/ sweep.step \in {"written", "undo"}
    \/ sweep.step = "read" /\ sweep.saw \notin Takeovers

\* A heartbeat is recorded by a request that is over then.  A tick in flight has
\* a heartbeat before it.  What it may forget is not the heartbeat of the
\* takeover that came meanwhile.
TrackInv ==
    /\ tracker.by \in Takeovers => take[tracker.by].step = "done"
    /\ sweep.step # "idle" => tracker # Untracked
    /\ sweep.step # "idle" /\ sweep.by \in Takeovers => take[sweep.by].step = "done"
    /\ sweep.step = "over" => ~row.open
    /\ MayForget /\ Parked /\ row.state \notin lost => Pending(row.state) \/ tracker.by # sweep.by
    /\ ParkedIsTracked

LEMMA ChangeRow ==
    ASSUME TypeOK, NEW new \in Authority, Change(new)
    PROVE  row'.open = new.open /\ row'.mode = new.mode /\ row'.state = new.state
<1>1. row \in Authority
  BY DEF TypeOK
<1>2. CASE [new EXCEPT !.rev = row.rev] = row
  <2>1. row' = [new EXCEPT !.rev = row.rev]
    BY <1>2 DEF Change
  <2> QED BY <2>1 DEF Authority
<1>3. CASE [new EXCEPT !.rev = row.rev] # row
  <2>1. row' = [new EXCEPT !.rev = row.rev + 1]
    BY <1>3 DEF Change
  <2> QED BY <2>1 DEF Authority
<1> QED BY <1>2, <1>3

LEMMA TrackInit == Init => TrackInv
<1> SUFFICES ASSUME Init PROVE TrackInv
  OBVIOUS
<1>1. tracker.by = None /\ sweep.step = "idle"
  BY DEF Init, Untracked, Idle
<1>2. row.state = "null"
  <2>1. row \in [open : {TRUE}, mode : Modes, state : {"null"}, rev : {0}]
    BY DEF Init
  <2> QED BY <2>1
<1> QED BY <1>1, <1>2 DEF TrackInv, MayForget, Parked, ParkedIsTracked

\* Steps that neither heartbeats nor ticks take part in.
LEMMA QuietKeeps ==
    ASSUME TrackInv, UNCHANGED <<tracker, sweep>>, lost \subseteq lost',
           ~row.open => ~row'.open,
           \A r \in Takeovers : take[r].step = "done" => take'[r].step = "done",
           \A r \in Takeovers : Pending(r) => Pending(r)',
           Parked' => \/ Parked /\ row'.state = row.state
                      \/ row'.state \in lost'
                      \/ Pending(row.state)'
    PROVE  TrackInv'
<1>1. row.state \in Takeovers => (Pending(row.state) => take'[row.state].step \in {"committed", "cancelled"})
  BY DEF Pending
<1> QED BY <1>1 DEF TrackInv, MayForget, Parked, ParkedIsTracked, Pending

\* A request that keeps the row where it is.
LEMMA TakeKeeps ==
    ASSUME TypeOK, TrackInv, NEW r \in Takeovers, NEW x \in TakeoverRequest,
           take' = [take EXCEPT ![r] = x], take[r].step # "done",
           Pending(r) => x.step \in {"committed", "cancelled"},
           UNCHANGED <<row, tracker, sweep, lost>>
    PROVE  TrackInv'
<1>1. take \in [Takeovers -> TakeoverRequest]
  BY DEF TypeOK
<1>2. \A q \in Takeovers : /\ take[q].step = "done" => take'[q].step = "done"
                           /\ Pending(q) => Pending(q)'
  BY <1>1 DEF Pending
<1> QED BY <1>2, QuietKeeps DEF Parked

LEMMA TakeoverTracks ==
    ASSUME TypeOK, TrackInv, NEW r \in Takeovers, Takeover(r)
    PROVE  TrackInv'
<1>0. /\ take[r] \in TakeoverRequest /\ take \in [Takeovers -> TakeoverRequest]
      /\ \A s \in {"locked", "cancelled", "committed"} :
            [take[r] EXCEPT !.step = s] \in TakeoverRequest /\ [take[r] EXCEPT !.step = s].step = s
      /\ Ended(NewTake) \in TakeoverRequest /\ Ended(NewTake).step = "done"
  BY NewRecords DEF TypeOK, TakeoverRequest, Ended, NewTake
<1>1. CASE \E input \in BOOLEAN : ReadForTakeover(r, input)
  <2>1. PICK input \in BOOLEAN : ReadForTakeover(r, input)
    BY <1>1
  <2> DEFINE x == [step |-> "read", input |-> input, saw |-> row.state]
  <2>2. x \in TakeoverRequest
    BY DEF TypeOK, TakeoverRequest, Authority
  <2> HIDE DEF x
  <2>3. /\ take' = [take EXCEPT ![r] = x] /\ take[r].step = "idle"
        /\ UNCHANGED <<row, tracker, sweep, lost>>
    BY <2>1 DEF ReadForTakeover, x
  <2> QED BY <2>2, <2>3, TakeKeeps DEF Pending
<1>2. CASE TryAcquire(r)
  <2>1. /\ \E x \in {[take[r] EXCEPT !.step = "locked"], Ended(NewTake)} : take' = [take EXCEPT ![r] = x]
        /\ take[r].step = "read"
        /\ UNCHANGED <<row, tracker, sweep, lost>>
    BY <1>2 DEF TryAcquire, Step
  <2>2. ~Pending(r)
    BY <2>1 DEF Pending
  <2>3. \A x \in {[take[r] EXCEPT !.step = "locked"], Ended(NewTake)} : x \in TakeoverRequest
    BY <1>0
  <2> QED BY <2>1, <2>2, <2>3, TakeKeeps
<1>3. CASE CommitTakeover(r)
  <2>0. take[r].step = "locked" /\ UNCHANGED <<tracker, sweep>>
    BY <1>3 DEF CommitTakeover
  <2>1. CASE UNCHANGED row
    <3>1. /\ \E x \in {[take[r] EXCEPT !.step = "committed"], Ended(NewTake)} : take' = [take EXCEPT ![r] = x]
          /\ lost \subseteq lost'
      BY <1>3 DEF CommitTakeover, Step, Leave
    <3>2. \A q \in Takeovers : /\ take[q].step = "done" => take'[q].step = "done"
                               /\ Pending(q) => Pending(q)'
      BY <1>0, <2>0, <3>1 DEF Pending
    <3> QED BY <2>0, <2>1, <3>1, <3>2, QuietKeeps DEF Parked
  <2>2. CASE row' # row
    <3>1. /\ Change([row EXCEPT !.state = r]) /\ Matches(take[r].saw)
          /\ \/ take' = [take EXCEPT ![r] = [take[r] EXCEPT !.step = "committed"]] /\ lost' = lost
             \/ take' = [take EXCEPT ![r] = Ended(NewTake)] /\ lost' = lost \cup {r}
      BY <1>3, <2>2 DEF CommitTakeover, Step, Leave
    <3>2. row'.state = r /\ row'.open
      <4> DEFINE n == [row EXCEPT !.state = r]
      <4>1. n \in Authority /\ n.state = r /\ n.open = row.open
        BY RowWrites DEF States
      <4> HIDE DEF n
      <4> QED BY <3>1, <4>1, ChangeRow DEF Matches, n
    <3>3. \A q \in Takeovers : /\ take[q].step = "done" => take'[q].step = "done"
                               /\ Pending(q) => Pending(q)'
      BY <1>0, <2>0, <3>1 DEF Pending
    <3>4. row'.state \in lost' \/ Pending(row.state)'
      BY <1>0, <3>1, <3>2 DEF Pending
    <3>5. lost \subseteq lost' /\ row.open
      BY <3>1 DEF Matches
    <3> QED BY <2>0, <3>3, <3>4, <3>5, QuietKeeps
  <2> QED BY <2>1, <2>2
<1>4. CASE CancelForTakeover(r)
  <2>1. /\ take' = [take EXCEPT ![r] = [take[r] EXCEPT !.step = "cancelled"]]
        /\ take[r].step = "committed"
        /\ UNCHANGED <<row, tracker, sweep, lost>>
    BY <1>4 DEF CancelForTakeover, Step
  <2> QED BY <1>0, <2>1, TakeKeeps
<1>5. CASE RecordHeartbeat(r)
  <2>1. /\ take' = [take EXCEPT ![r] = Ended(NewTake)] /\ take[r].step \in {"committed", "cancelled"}
        /\ tracker' = [by |-> r, stale |-> FALSE]
        /\ UNCHANGED <<row, sweep, lost>>
    BY <1>5 DEF RecordHeartbeat, Leave
  <2>2. tracker'.by = r /\ tracker' # Untracked
    BY <2>1 DEF Untracked
  <2>3. take'[r].step = "done" /\ \A q \in Takeovers : take[q].step = "done" => take'[q].step = "done"
    BY <1>0, <2>1
  <2>4. sweep.step # "idle" => sweep.by # r
    BY <2>1 DEF TrackInv
  <2> QED BY <2>1, <2>2, <2>3, <2>4 DEF TrackInv, MayForget, ParkedIsTracked
<1> QED BY <1>1, <1>2, <1>3, <1>4, <1>5 DEF Takeover

\* A change of control that parks nothing.
LEMMA UnparkingKeeps ==
    ASSUME TypeOK, TrackInv, UNCHANGED <<tracker, sweep, take, lost>>,
           row' = row \/ (~Parked' /\ (~row.open => ~row'.open))
    PROVE  TrackInv'
<1>1. Parked' => Parked /\ row'.state = row.state
  BY DEF Parked
<1>2. \A q \in Takeovers : Pending(q)' = Pending(q)
  BY DEF Pending
<1> QED BY <1>1, <1>2, QuietKeeps

LEMMA RestTracks ==
    ASSUME TypeOK, TrackInv,
           \/ \E f \in Flips : ModeChange(f)
           \/ \E t \in Turns : Turn(t)
           \/ LockLapses \/ Stop \/ BeginClose \/ CloseRow
    PROVE  TrackInv'
<1>1. UNCHANGED <<tracker, sweep, take, lost>>
  BY DEF ModeChange, ReadForMode, SetMode, CancelForMode, Turn, Admit, Verify, Elect,
         CheckAuthority, Dispatch, Look, ReadPage, Publish, CloseFull, EndTurn, LockLapses, Stop,
         BeginClose, CloseRow
<1>2. CASE row' = row
  BY <1>1, <1>2, UnparkingKeeps
<1>3. ASSUME NEW f \in Flips, SetMode(f), row' # row
      PROVE  TrackInv'
  <2> DEFINE s == IF flip[f].to = "pair" THEN "ai-driving" ELSE "null"
  <2>1. row.open /\ Change([row EXCEPT !.mode = flip[f].to, !.state = s])
    BY <1>3 DEF SetMode
  <2>2. s \in States \ Takeovers /\ flip[f].to \in Modes
    BY DEF States, TypeOK, ModeRequest
  <2> HIDE DEF s
  <2>3. row'.state = s
    <3> DEFINE n == [row EXCEPT !.mode = flip[f].to, !.state = s]
    <3>1. n \in Authority /\ n.state = s
      BY <2>2, RowWrites
    <3>2. Change(n)
      BY <2>1
    <3> HIDE DEF n
    <3> QED BY <3>1, <3>2, ChangeRow
  <2> QED BY <1>1, <2>1, <2>2, <2>3, UnparkingKeeps DEF Parked
<1>4. ASSUME ~row'.open
      PROVE  TrackInv'
  BY <1>1, <1>4, UnparkingKeeps DEF Parked
<1>5. CloseRow => ~row'.open
  BY ChangeRow, RowWrites DEF CloseRow
<1>6. ASSUME NEW t \in Turns, CloseFull(t)
      PROVE  ~row'.open
  BY <1>6 DEF CloseFull, TypeOK, Authority
<1> QED
  BY <1>2, <1>3, <1>4, <1>5, <1>6
     DEF ModeChange, ReadForMode, CancelForMode, Turn, Admit, Verify, Elect,
         CheckAuthority, Dispatch, Look, ReadPage, Publish, EndTurn, LockLapses, Stop, BeginClose

LEMMA SweepTracks ==
    ASSUME TypeOK, TrackInv, Sweep \/ GoStale
    PROVE  TrackInv'
<1>0. /\ row \in Authority /\ sweep \in Tick /\ tracker \in Beats /\ Idle.step = "idle"
      /\ sweep.saw \in States
  BY DEF TypeOK, Idle, Tick
<1>1. CASE GoStale
  <2>1. /\ tracker'.by = tracker.by /\ tracker # Untracked /\ tracker' # Untracked
        /\ UNCHANGED <<row, take, sweep, lost>>
    <3>1. tracker' = [tracker EXCEPT !.stale = TRUE]
      BY <1>1 DEF GoStale
    <3>2. tracker'.by = tracker.by /\ tracker'.stale
      BY <1>0, <3>1 DEF Beats
    <3> QED BY <1>1, <3>2 DEF GoStale, Untracked
  <2> QED BY <2>1 DEF TrackInv, MayForget, Parked, ParkedIsTracked, Pending
<1>2. CASE SweepRead
  <2> DEFINE st == IF row.open THEN "read" ELSE "over"
  <2>1. /\ sweep'.step = st /\ sweep'.by = tracker.by /\ sweep'.saw = row.state
        /\ tracker.stale /\ UNCHANGED <<row, take, tracker, lost>>
    BY <1>2 DEF SweepRead
  <2>2. tracker # Untracked
    BY <2>1 DEF Untracked
  <2> QED BY <2>1, <2>2 DEF TrackInv, MayForget, Parked, ParkedIsTracked, Pending
<1>3. CASE SweepJudge
  <2>1. UNCHANGED <<row, take, lost>> /\ sweep.step \in {"read", "over"}
    BY <1>3 DEF SweepJudge
  <2>2. CASE tracker' = Untracked /\ sweep' = Idle
    <3>1. sweep.step = "over" \/ (Observed /\ sweep.saw \notin Takeovers)
      BY <1>3, <2>2 DEF SweepJudge, Observed, TrackInv
    <3>2. Parked => Pending(row.state) \/ row.state \in lost
      BY <2>1, <3>1 DEF TrackInv, MayForget, Observed, Parked
    <3> QED BY <1>0, <2>1, <2>2, <3>2 DEF TrackInv, MayForget, Parked, ParkedIsTracked, Pending, Untracked
  <2>3. CASE sweep' = Idle /\ UNCHANGED tracker
    BY <1>0, <2>1, <2>3 DEF TrackInv, MayForget, Parked, ParkedIsTracked, Pending
  <2>4. CASE sweep' = [sweep EXCEPT !.step = "timeout"] /\ UNCHANGED tracker
    <3>1. sweep'.step = "timeout" /\ sweep'.by = sweep.by
      BY <1>0, <2>4 DEF Tick
    <3> QED BY <2>1, <2>4, <3>1 DEF TrackInv, MayForget, Parked, ParkedIsTracked, Pending
  <2> QED BY <1>3, <2>2, <2>3, <2>4 DEF SweepJudge
<1>4. CASE SweepWrite
  <2>1. UNCHANGED <<tracker, take, lost>> /\ sweep.step = "timeout"
    BY <1>4 DEF SweepWrite
  <2>2. CASE Change([row EXCEPT !.state = "ai-driving"]) /\ sweep' = [sweep EXCEPT !.step = "written"]
    <3>1. row'.state = "ai-driving" /\ sweep'.step = "written" /\ sweep'.by = sweep.by
      <4> DEFINE n == [row EXCEPT !.state = "ai-driving"]
      <4>1. n \in Authority /\ n.state = "ai-driving"
        BY RowWrites DEF States
      <4>2. Change(n)
        BY <2>2
      <4> HIDE DEF n
      <4>3. row'.state = "ai-driving"
        BY <4>1, <4>2, ChangeRow
      <4> QED BY <1>0, <2>2, <4>3 DEF Tick
    <3> QED BY <2>1, <3>1 DEF TrackInv, MayForget, Parked, ParkedIsTracked, Pending
  <2>3. CASE sweep' = Idle /\ row' = row
    BY <1>0, <2>1, <2>3 DEF TrackInv, MayForget, Parked, ParkedIsTracked, Pending
  <2> QED BY <1>4, <2>2, <2>3 DEF SweepWrite
<1>5. CASE SweepSettle
  <2>1. UNCHANGED <<row, take, lost>> /\ sweep.step = "written"
    BY <1>5 DEF SweepSettle
  <2>2. CASE Observed /\ tracker' = Untracked /\ sweep' = Idle
    <3>1. Parked => Pending(row.state) \/ row.state \in lost
      BY <2>1, <2>2 DEF TrackInv, MayForget, Observed, Parked
    <3> QED BY <1>0, <2>1, <2>2, <3>1 DEF TrackInv, MayForget, Parked, ParkedIsTracked, Pending, Untracked
  <2>3. CASE sweep' = [sweep EXCEPT !.step = "undo"] /\ UNCHANGED tracker
    <3>1. sweep'.step = "undo" /\ sweep'.by = sweep.by
      BY <1>0, <2>3 DEF Tick
    <3> QED BY <2>1, <2>3, <3>1 DEF TrackInv, MayForget, Parked, ParkedIsTracked, Pending
  <2> QED BY <1>5, <2>2, <2>3 DEF SweepSettle
<1>6. CASE SweepUndo
  <2>1. UNCHANGED <<tracker, take, lost>> /\ sweep.step = "undo" /\ sweep' = Idle
    BY <1>6 DEF SweepUndo
  <2> QED BY <1>0, <2>1 DEF TrackInv, MayForget, ParkedIsTracked
<1> QED BY <1>1, <1>2, <1>3, <1>4, <1>5, <1>6 DEF Sweep

LEMMA RestartTracks ==
    ASSUME TypeOK, NEW seeded \in BOOLEAN, Restart(seeded)
    PROVE  TrackInv'
<1>1. sweep'.step = "idle" /\ row' = row /\ tracker'.by \notin Takeovers
  BY DEF Restart, Idle, Untracked
<1>2. CASE seeded /\ Parked
  <2>1. tracker' # Untracked
    BY <1>2 DEF Restart, Untracked
  <2> QED BY <1>1, <2>1 DEF TrackInv, MayForget, ParkedIsTracked
<1>3. CASE ~seeded /\ Parked
  <2>1. row.state \in lost'
    BY <1>3 DEF Restart
  <2> QED BY <1>1, <2>1 DEF TrackInv, MayForget, ParkedIsTracked
<1>4. CASE ~Parked
  BY <1>1, <1>4 DEF TrackInv, MayForget, Parked, ParkedIsTracked
<1> QED BY <1>2, <1>3, <1>4

\* A takeover the row waits on is in view of the heartbeat sweep, or its own
\* request is about to record it, unless its answer or its seed was lost.
THEOREM ParkedAlwaysTracked == Spec => []ParkedIsTracked
<1>1. TurnsInv /\ TrackInv /\ [Next]_vars => TrackInv'
  <2>1. TurnsInv => TypeOK
    BY DEF TurnsInv
  <2>2. TypeOK /\ TrackInv /\ Next => TrackInv'
    BY TakeoverTracks, RestTracks, SweepTracks, RestartTracks DEF Next
  <2>3. TrackInv /\ UNCHANGED vars => TrackInv'
    BY DEF vars, TrackInv, MayForget, Parked, ParkedIsTracked, Pending
  <2> QED BY <2>1, <2>2, <2>3
<1>2. TurnsInv /\ [Next]_vars => TurnsInv'
  BY TurnsStep
<1>3. TrackInv => ParkedIsTracked
  BY DEF TrackInv
<1> QED BY <1>1, <1>2, <1>3, TurnsInit, TrackInit, PTL DEF Spec
=============================================================================
