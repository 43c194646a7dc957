------------------------------ MODULE LiveThread ------------------------------
(***************************************************************************)
(* One run followed in a browser: the event bus and its stream             *)
(* (core/events.py, api/routes/system.py, the orchestrator's               *)
(* _generate_streaming) and the thread that shows it                       *)
(* (frontend: use-event-stream.ts, thread-view.tsx).                       *)
(*                                                                         *)
(* The stream loses events: those published while a connection is lost,    *)
(* or between the replay and the subscription, those of a full queue, and  *)
(* the older ones of the replay buffer.  So the thread also asks for the   *)
(* record: at the end of the run, every few seconds, and while the run is  *)
(* held.  What a read answers may be old when it is applied.               *)
(***************************************************************************)
EXTENDS Naturals, Sequences, SequencesExt, FiniteSets

CONSTANTS
    Fragments,       \* bound: frames of the draft
    Calls,           \* bound: model calls announced
    QueueLimit,      \* MAX_QUEUE
    ReplayLimit,     \* REPLAY_BUFFER, and the 50 a stream replays
    MaxTroubles      \* bound: lost connections, failed reads, reloads, restarts

ASSUME LiveThreadAssumption ==
    /\ Fragments \in Nat /\ Calls \in Nat /\ MaxTroubles \in Nat
    /\ QueueLimit \in Nat \ {0} /\ ReplayLimit \in Nat \ {0}

VARIABLES
    record,      \* the status in the run's row
    working,     \* a worker has it
    written,     \* fragments of the draft so far
    called,      \* model calls so far, all in the row's routing
    recent,      \* EventBus._recent
    conn,        \* the reader's stream
    inbox,       \* events on their way to the reader: replayed, or queued
    turn,        \* the run's turn in the thread
    following,   \* activeTaskId, and so the stream and the poll, are set
    polling,     \* the poll's interval has not been cleared
    seen,        \* seenRef
    reads,       \* GETs of the record under way
    lost,        \* history: a read failed that nothing repeats
    troubles

runVars == <<record, working, written, called, recent>>
threadVars == <<turn, following, polling, seen>>
liveVars == <<runVars, conn, inbox, threadVars, reads, lost, troubles>>

Decided  == {"delivered", "rejected", "revision_requested"}
Statuses == {"executing", "awaiting_approval", "failed", "cancelled"} \cup Decided

\* the statuses at which the thread stops following (model/board.ts)
TERMINAL == Statuses \ {"executing", "revision_requested"}

OutcomeFor(status) ==
    CASE status = "awaiting_approval"  -> "held"
      [] status = "revision_requested" -> "rejected"
      [] status = "executing"          -> "running"
      [] OTHER                         -> status

NoTurn == [stream |-> "none", outcome |-> "running", draft |-> {}, choices |-> <<>>, opened |-> FALSE]

-----------------------------------------------------------------------------
(* The bus.  A frame is never kept for replay; a full queue drops the      *)
(* event for this reader.                                                  *)
Publish(e) ==
    /\ inbox' = IF conn = "subscribed" /\ Len(inbox) < QueueLimit THEN Append(inbox, e) ELSE inbox
    /\ recent' = IF e.kind = "frame" THEN recent
                 ELSE IF Len(recent) < ReplayLimit THEN Append(recent, e)
                 ELSE Append(Tail(recent), e)
    /\ UNCHANGED <<conn, threadVars, reads, lost>>

\* a model is chosen, in the row before it is announced
CallModel ==
    /\ working /\ called < Calls
    /\ called' = called + 1
    /\ Publish([kind |-> "choice", of |-> called + 1])
    /\ UNCHANGED <<record, working, written, troubles>>

\* Mutation: a frame carries what the draft grew by.
FrameOfDelta(n) == [kind |-> "frame", of |-> {n}]

\* each frame carries the whole draft so far
FrameOf(n) == [kind |-> "frame", of |-> 1..n]

Flush ==
    /\ working /\ written < Fragments
    /\ written' = written + 1
    /\ Publish(FrameOf(written + 1))
    /\ UNCHANGED <<record, working, called, troubles>>

\* the row is written before anyone is told
EndRun(status) ==
    /\ working
    /\ working' = FALSE /\ record' = status
    /\ Publish([kind |-> "end", of |-> status])
    /\ UNCHANGED <<written, called, troubles>>

\* an error of the worker itself leaves the row as it is, ended or not
WorkerError ==
    /\ working /\ troubles < MaxTroubles
    /\ working' = FALSE /\ troubles' = troubles + 1
    /\ \E status \in {"executing", "delivered", "awaiting_approval"} :
          record' = status
    /\ Publish([kind |-> "error", of |-> "worker"])
    /\ UNCHANGED <<written, called>>

Review(status) ==
    /\ record = "awaiting_approval" /\ record' = status
    /\ UNCHANGED <<working, written, called, recent, conn, inbox, threadVars, reads, lost, troubles>>

\* the service ends; when it starts again it closes the run out
RestartService ==
    /\ troubles < MaxTroubles /\ troubles' = troubles + 1
    /\ working' = FALSE /\ recent' = <<>> /\ conn' = "none" /\ inbox' = <<>>
    /\ record' = IF record = "executing" THEN "failed" ELSE record
    /\ UNCHANGED <<written, called, threadVars, reads, lost>>

-----------------------------------------------------------------------------
(* The stream: what is remembered is replayed first, then the subscription *)
(* begins.                                                                 *)
Connect ==
    /\ following /\ conn = "none"
    /\ conn' = "replaying" /\ inbox' = recent
    /\ UNCHANGED <<runVars, threadVars, reads, lost, troubles>>

Subscribe ==
    /\ conn = "replaying" /\ inbox = <<>>
    /\ conn' = "subscribed"
    /\ UNCHANGED <<runVars, inbox, threadVars, reads, lost, troubles>>

LoseConnection ==
    /\ conn # "none" /\ troubles < MaxTroubles
    /\ conn' = "none" /\ inbox' = <<>> /\ troubles' = troubles + 1
    /\ UNCHANGED <<runVars, threadVars, reads, lost>>

-----------------------------------------------------------------------------
(* The thread. *)
Asked(why) == [why |-> why, status |-> "asked"]

ShowFrame(e) == turn' = IF turn.stream = "live" THEN [turn EXCEPT !.draft = e.of] ELSE turn

ShowEvent(e) ==
    /\ seen' = seen \cup {e}
    /\ turn' = IF e.kind = "choice" /\ e \notin seen THEN [turn EXCEPT !.choices = Append(@, e.of)] ELSE turn
    /\ reads' = CASE e.kind = "end" /\ e \notin seen /\ e.of \in TERMINAL -> reads \cup {Asked("settle")}
                  [] e.kind = "error" /\ e \notin seen                   -> reads \cup {Asked("failure")}
                  [] OTHER                                               -> reads

Receive ==
    /\ following /\ conn \in {"replaying", "subscribed"} /\ inbox # <<>>
    /\ inbox' = Tail(inbox)
    /\ IF Head(inbox).kind = "frame"
       THEN ShowFrame(Head(inbox)) /\ UNCHANGED <<seen, reads>>
       ELSE ShowEvent(Head(inbox))
    /\ UNCHANGED <<runVars, conn, following, polling, lost, troubles>>

\* A poll that finds the run over clears itself and reads the record again to show it.
PollUnless(connected) ==
    /\ following /\ polling /\ record \in TERMINAL
    /\ ~connected
    /\ polling' = FALSE /\ reads' = reads \cup {Asked("settle")}
    /\ UNCHANGED <<runVars, conn, inbox, turn, following, seen, lost, troubles>>

\* Mutation: only while the stream is down.
PollDisconnected == PollUnless(conn # "none")

Poll == PollUnless(FALSE)

\* a held run is read again, on focus and every 30 seconds
Reread ==
    /\ turn.stream = "closed" /\ turn.outcome = "held"
    /\ Asked("reread") \notin reads
    /\ reads' = reads \cup {Asked("reread")}
    /\ UNCHANGED <<runVars, conn, inbox, threadVars, lost, troubles>>

Answer(r) ==
    /\ r.status = "asked"
    /\ reads' = (reads \ {r}) \cup {[r EXCEPT !.status = record]}
    /\ UNCHANGED <<runVars, conn, inbox, threadVars, lost, troubles>>

\* A failed read is left to the poll, which by then may have cleared itself.
Fail(r) ==
    /\ r.status = "asked" /\ troubles < MaxTroubles
    /\ troubles' = troubles + 1
    /\ reads' = reads \ {r}
    /\ lost' = (lost \/ (r.why # "reread" /\ ~polling))
    /\ UNCHANGED <<runVars, conn, inbox, threadVars>>

\* the turn as the record has it
FromRecord(t, status) ==
    [t EXCEPT !.stream = "closed", !.outcome = OutcomeFor(status), !.draft = {},
              !.choices = [i \in 1..called |-> i]]

Detach == following' = FALSE /\ conn' = "none" /\ inbox' = <<>>

Show(shown) ==
    /\ turn' = shown /\ Detach
    /\ UNCHANGED <<runVars, polling, seen, lost, troubles>>

ApplySettle(r) ==
    /\ r.why \in {"settle", "failure"} /\ r.status # "asked"
    /\ reads' = reads \ {r}
    /\ CASE r.status \in TERMINAL -> Show(FromRecord(turn, r.status))
         [] r.status \notin TERMINAL /\ r.why = "failure" ->
              Show([turn EXCEPT !.stream = "closed", !.outcome = "failed", !.draft = {}])
         [] OTHER -> UNCHANGED <<runVars, conn, inbox, threadVars, lost, troubles>>

ApplyReread(r) ==
    /\ r.why = "reread" /\ r.status # "asked"
    /\ reads' = reads \ {r}
    /\ turn' = IF turn.outcome = "held" /\ turn.stream = "closed"
               THEN [FromRecord(turn, r.status) EXCEPT !.stream = turn.stream] ELSE turn
    /\ UNCHANGED <<runVars, conn, inbox, following, polling, seen, lost, troubles>>

\* the page is loaded again and opens the run its address names
Reload ==
    /\ troubles < MaxTroubles /\ troubles' = troubles + 1
    /\ turn' = NoTurn /\ following' = FALSE /\ polling' = FALSE /\ seen' = {}
    /\ reads' = {Asked("open")}
    /\ conn' = "none" /\ inbox' = <<>>
    /\ UNCHANGED <<runVars, lost>>

ApplyOpen(r) ==
    /\ r.why = "open" /\ r.status # "asked"
    /\ reads' = reads \ {r}
    /\ LET inFlight == r.status \notin TERMINAL
       IN  /\ turn' = [FromRecord(NoTurn, r.status) EXCEPT !.stream = IF inFlight THEN "live" ELSE "closed",
                                                          !.opened = TRUE]
           /\ following' = inFlight /\ polling' = inFlight
    /\ UNCHANGED <<runVars, conn, inbox, seen, lost, troubles>>

-----------------------------------------------------------------------------
\* the run has just been submitted from this thread
LiveInit ==
    /\ record = "executing" /\ working = TRUE /\ written = 0 /\ called = 0 /\ recent = <<>>
    /\ conn = "none" /\ inbox = <<>>
    /\ turn = [NoTurn EXCEPT !.stream = "live"] /\ following = TRUE /\ polling = TRUE /\ seen = {}
    /\ reads = {} /\ lost = FALSE /\ troubles = 0

RunNext ==
    \/ CallModel \/ Flush \/ WorkerError \/ RestartService
    \/ \E status \in {"awaiting_approval", "delivered", "failed", "cancelled"} : EndRun(status)
    \/ \E status \in Decided : Review(status)

ApplyRead == \E r \in reads : ApplySettle(r) \/ ApplyReread(r) \/ ApplyOpen(r)

LiveNext ==
    \/ RunNext
    \/ Connect \/ Subscribe \/ LoseConnection \/ Receive \/ Poll \/ Reread \/ Reload
    \/ \E r \in reads : Answer(r) \/ Fail(r)
    \/ ApplyRead

Answered == \E r \in reads : Answer(r)

\* Timers fire and requests are answered; nothing is assumed of the stream, the run or people.
LiveFairness ==
    /\ WF_liveVars(Poll) /\ WF_liveVars(Reread)
    /\ WF_liveVars(Answered) /\ WF_liveVars(ApplyRead)

LiveSpec == LiveInit /\ [][LiveNext]_liveVars /\ LiveFairness

-----------------------------------------------------------------------------
(* What a turn shows is the run: a draft is a whole beginning of it, gone  *)
(* once the turn closes; a call is listed once, unless the thread was      *)
(* opened on a run under way; an end shown is one the record has had, or   *)
(* the failure a worker reported.                                          *)
HasHad(outcome) ==
    CASE outcome = "running" -> TRUE
      [] outcome = "held"    -> record \in {"awaiting_approval"} \cup Decided
      [] outcome = "failed"  -> record = "failed" \/ ~working
      [] OTHER               -> OutcomeFor(record) = outcome

ThreadShowsTheRun ==
    /\ turn.draft = 1..Cardinality(turn.draft)
    /\ turn.stream # "live" => turn.draft = {}
    /\ ~turn.opened => \A i, j \in DOMAIN turn.choices : turn.choices[i] = turn.choices[j] => i = j
    /\ HasHad(turn.outcome)

(* However many events are lost, how a run ended is shown in the end       *)
(* ("a floor under it": the poll).  Two cases apart: the read by which     *)
(* a finished run is shown fails after the poll cleared itself; a run is   *)
(* returned for revision before the thread has shown it as held.           *)
RunEndIsShown ==
    \A status \in Statuses \ {"executing"} :
        record = status ~> \/ turn.outcome = OutcomeFor(status)
                           \/ record # status
                           \/ lost
                           \/ status = "revision_requested" /\ turn.outcome # "held"
=============================================================================
