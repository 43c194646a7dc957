-------------------------- MODULE LiveThreadProofs ---------------------------
(***************************************************************************)
(* What a turn shows is the run, for any length of the draft, any number   *)
(* of calls and troubles and any size of the queues.                       *)
(*                                                                         *)
(* A read answers with what the record was when it was asked, and is       *)
(* applied later; an error is received after the worker has gone.  So the  *)
(* invariant says of every read under way that the record has had the      *)
(* status it carries, and of every event on its way or kept for replay     *)
(* that what it reports is so: both stay true because a record never goes  *)
(* back and a worker never returns.                                        *)
(***************************************************************************)
EXTENDS LiveThread, FiniteSetTheorems, SequenceTheorems, TLAPS

FrameEvents == {FrameOf(n) : n \in Nat}
CallEvents  == [kind : {"choice"}, of : Nat]
EndEvents   == [kind : {"end"}, of : Statuses]
ErrorEvents == [kind : {"error"}, of : {"worker"}]
Events      == FrameEvents \cup CallEvents \cup EndEvents \cup ErrorEvents

Outcomes == {"running", "held", "failed", "cancelled"} \cup Decided
TurnRows == [stream : {"none", "live", "closed"}, outcome : Outcomes, draft : SUBSET Nat,
             choices : Seq(Nat), opened : BOOLEAN]
ReadRows == [why : {"settle", "failure", "reread", "open"}, status : Statuses \cup {"asked"}]

LiveTypes ==
    /\ record \in Statuses /\ working \in BOOLEAN /\ called \in Nat /\ written \in Nat
    /\ inbox \in Seq(Events) /\ recent \in Seq(Events)
    /\ turn \in TurnRows /\ following \in BOOLEAN
    /\ reads \subseteq ReadRows

\* an error is reported by a worker that has gone
Reported(events, busy) == \A i \in 1..Len(events) : events[i].kind = "error" => ~ busy

\* the record has had this status, if a status it is
HadBeen(status) ==
    \/ status \in {"asked", "executing"}
    \/ status = record
    \/ status = "awaiting_approval" /\ record \in Decided

ReadIsTrue(r) == HadBeen(r.status) /\ (r.why = "failure" => ~working)

WholeDraft(t) == t.draft = 1..Cardinality(t.draft) /\ (t.stream # "live" => t.draft = {})

Distinct(s) == \A i, j \in 1..Len(s) : s[i] = s[j] => i = j

ChoiceOf(n) == [kind |-> "choice", of |-> n]

\* while events are received, each call listed is one of an event received
Received(t, on, received) ==
    on => /\ t.stream = "live"
          /\ ~ t.opened => \A i \in 1..Len(t.choices) : ChoiceOf(t.choices[i]) \in received

TurnIsTrue(t) ==
    /\ t \in TurnRows /\ WholeDraft(t) /\ HasHad(t.outcome)
    /\ ~ t.opened => Distinct(t.choices)

LiveInv ==
    /\ LiveTypes
    /\ working => record = "executing"
    /\ Reported(inbox, working) /\ Reported(recent, working)
    /\ \A r \in reads : ReadIsTrue(r)
    /\ TurnIsTrue(turn) /\ Received(turn, following, seen)

-----------------------------------------------------------------------------
(* The record and the worker. *)

RecordMoves ==
    /\ record' \in Statuses /\ working' \in BOOLEAN /\ (working' => working)
    /\ \/ record' = record
       \/ record = "executing" /\ (working' => record' = "executing")
       \/ record = "awaiting_approval" /\ record' \in Decided

(* What a record has had it goes on having had, and so for what is shown   *)
(* and what is reported.                                                   *)
LEMMA HadBeenStays ==
    ASSUME RecordMoves, NEW status, HadBeen(status)
    PROVE  HadBeen(status)'
BY DEF RecordMoves, HadBeen, Statuses, Decided

LEMMA HasHadStays ==
    ASSUME RecordMoves, record \in Statuses, NEW o \in Outcomes, HasHad(o)
    PROVE  HasHad(o)'
BY DEF RecordMoves, HasHad, OutcomeFor, Outcomes, Statuses, Decided

LEMMA OutcomeIsTrue ==
    ASSUME record \in Statuses, NEW status \in Statuses, HadBeen(status)
    PROVE  OutcomeFor(status) \in Outcomes /\ HasHad(OutcomeFor(status))
<1>1. OutcomeFor(status) \in Outcomes
  BY DEF OutcomeFor, Outcomes, Statuses, Decided
<1>2. HasHad(OutcomeFor(status))
  BY DEF HasHad, HadBeen, OutcomeFor, Statuses, Decided
<1> QED  BY <1>1, <1>2

LEMMA ReadStays ==
    ASSUME RecordMoves, NEW r, ReadIsTrue(r)
    PROVE  ReadIsTrue(r)'
<1>1. HadBeen(r.status)'
  BY HadBeenStays DEF ReadIsTrue
<1> QED  BY <1>1 DEF ReadIsTrue, RecordMoves

LEMMA TurnStays ==
    ASSUME RecordMoves, record \in Statuses, NEW t, TurnIsTrue(t)
    PROVE  TurnIsTrue(t)'
<1>1. t \in TurnRows /\ t.outcome \in Outcomes /\ HasHad(t.outcome)
  BY DEF TurnIsTrue, TurnRows
<1>2. HasHad(t.outcome)'
  BY <1>1, HasHadStays
<1> QED  BY <1>2 DEF TurnIsTrue, WholeDraft, Distinct

-----------------------------------------------------------------------------
(* Events. *)

LEMMA FrameIs ==
    ASSUME NEW n \in Nat
    PROVE  FrameOf(n) \in Events /\ FrameOf(n).kind = "frame"
BY DEF FrameOf, Events, FrameEvents

LEMMA FrameOfEvents ==
    ASSUME NEW e \in Events, e.kind = "frame"
    PROVE  \E n \in Nat : e.of = 1..n
BY DEF Events, FrameEvents, CallEvents, EndEvents, ErrorEvents, FrameOf

LEMMA ChoiceOfEvents ==
    ASSUME NEW e \in Events, e.kind = "choice"
    PROVE  e.of \in Nat /\ e = ChoiceOf(e.of)
BY DEF Events, FrameEvents, CallEvents, EndEvents, ErrorEvents, FrameOf, ChoiceOf

LEMMA OtherEvents ==
    /\ \A n \in Nat : [kind |-> "choice", of |-> n] \in Events
    /\ \A status \in Statuses : [kind |-> "end", of |-> status] \in Events
    /\ [kind |-> "error", of |-> "worker"] \in Events
BY DEF Events, CallEvents, EndEvents, ErrorEvents

LEMMA EmptyQueue == <<>> \in Seq(Events) /\ \A busy : Reported(<<>>, busy)
BY EmptySeq DEF Reported

LEMMA AppendReported ==
    ASSUME NEW q \in Seq(Events), NEW e \in Events, NEW busy,
           Reported(q, busy), e.kind = "error" => ~ busy
    PROVE  Append(q, e) \in Seq(Events) /\ Reported(Append(q, e), busy)
<1>1. /\ Append(q, e) \in Seq(Events) /\ Len(Append(q, e)) = Len(q) + 1 /\ Len(q) \in Nat
      /\ \A i \in 1..(Len(q) + 1) : Append(q, e)[i] = IF i <= Len(q) THEN q[i] ELSE e
  BY AppendProperties, LenProperties
<1> QED  BY <1>1 DEF Reported

LEMMA TailReported ==
    ASSUME NEW q \in Seq(Events), q # <<>>, NEW busy, Reported(q, busy)
    PROVE  /\ Tail(q) \in Seq(Events) /\ Reported(Tail(q), busy)
           /\ Head(q) \in Events /\ (Head(q).kind = "error" => ~ busy)
<1>1. /\ Tail(q) \in Seq(Events) /\ Len(Tail(q)) = Len(q) - 1 /\ Len(q) \in Nat /\ Len(q) # 0
      /\ \A i \in 1..(Len(q) - 1) : Tail(q)[i] = q[i + 1]
      /\ Head(q) \in Events /\ Head(q) = q[1]
  BY HeadTailProperties, LenProperties, EmptySeq
<1>2. \A i \in 1..(Len(q) - 1) : i + 1 \in 1..Len(q)
  BY <1>1
<1> QED  BY <1>1, <1>2 DEF Reported

-----------------------------------------------------------------------------
(* The run's side: it writes the record and publishes, and the turn waits. *)

LEMMA RunKeeps ==
    ASSUME LiveInv, RecordMoves, UNCHANGED <<turn, following, seen, reads>>,
           called' \in Nat, written' \in Nat, working' => record' = "executing",
           inbox' \in Seq(Events), recent' \in Seq(Events),
           Reported(inbox', working'), Reported(recent', working')
    PROVE  LiveInv'
<1>1. LiveTypes'
  BY DEF LiveInv, LiveTypes, RecordMoves
<1>2. \A r \in reads' : ReadIsTrue(r)'
  BY ReadStays DEF LiveInv
<1>3. TurnIsTrue(turn)'
  <2>1. TurnIsTrue(turn) /\ record \in Statuses /\ turn' = turn
    BY DEF LiveInv, LiveTypes
  <2>2. \A t : TurnIsTrue(t) => TurnIsTrue(t)'
    BY <2>1, TurnStays
  <2> QED  BY <2>1, <2>2
<1>4. Received(turn, following, seen)'
  BY DEF LiveInv, Received
<1> QED  BY <1>1, <1>2, <1>3, <1>4 DEF LiveInv

LEMMA PublishedKeeps ==
    ASSUME LiveInv, RecordMoves, NEW e \in Events, e.kind = "error" => ~ working', Publish(e)
    PROVE  /\ inbox' \in Seq(Events) /\ Reported(inbox', working')
           /\ recent' \in Seq(Events) /\ Reported(recent', working')
           /\ UNCHANGED <<turn, following, seen, reads>>
<1>1. /\ inbox \in Seq(Events) /\ Reported(inbox, working')
      /\ recent \in Seq(Events) /\ Reported(recent, working')
  BY DEF LiveInv, LiveTypes, Reported, RecordMoves
<1>2. inbox' = inbox \/ inbox' = Append(inbox, e)
  BY DEF Publish
<1>3. inbox' \in Seq(Events) /\ Reported(inbox', working')
  <2>1. Append(inbox, e) \in Seq(Events) /\ Reported(Append(inbox, e), working')
    BY <1>1, AppendReported
  <2> QED  BY <1>1, <1>2, <2>1
<1>4. recent' = recent \/ recent' = Append(recent, e) \/ (recent # <<>> /\ recent' = Append(Tail(recent), e))
  <2>1. Len(recent) < ReplayLimit \/ recent # <<>>
    BY LiveThreadAssumption, EmptySeq
  <2> QED  BY <2>1 DEF Publish
<1>5. recent' \in Seq(Events) /\ Reported(recent', working')
  <2>1. Append(recent, e) \in Seq(Events) /\ Reported(Append(recent, e), working')
    BY <1>1, AppendReported
  <2>2. CASE recent # <<>> /\ recent' = Append(Tail(recent), e)
    <3>1. Tail(recent) \in Seq(Events) /\ Reported(Tail(recent), working')
      BY <1>1, <2>2, TailReported
    <3>2. Append(Tail(recent), e) \in Seq(Events) /\ Reported(Append(Tail(recent), e), working')
      BY <3>1, AppendReported
    <3> QED  BY <2>2, <3>2
  <2> QED  BY <1>1, <1>4, <2>1, <2>2
<1> QED  BY <1>3, <1>5 DEF Publish, threadVars

LEMMA RunNextKeeps ==
    ASSUME LiveInv, RunNext
    PROVE  LiveInv'
<1>0. record \in Statuses /\ working \in BOOLEAN /\ called \in Nat /\ written \in Nat
      /\ (working => record = "executing")
  BY DEF LiveInv, LiveTypes
<1>1. CASE CallModel
  <2> DEFINE e == [kind |-> "choice", of |-> called + 1]
  <2>1. /\ RecordMoves /\ called' \in Nat /\ written' \in Nat /\ (working' => record' = "executing")
        /\ Publish(e)
    BY <1>0, <1>1 DEF CallModel, RecordMoves
  <2>2. e \in Events /\ e.kind # "error"
    BY <1>0, OtherEvents
  <2> HIDE DEF e
  <2> QED  BY <2>1, <2>2, PublishedKeeps, RunKeeps
<1>2. CASE Flush
  <2>1. /\ RecordMoves /\ called' \in Nat /\ written' \in Nat /\ (working' => record' = "executing")
        /\ Publish(FrameOf(written + 1)) /\ written + 1 \in Nat
    BY <1>0, <1>2 DEF Flush, RecordMoves
  <2>2. FrameOf(written + 1) \in Events /\ FrameOf(written + 1).kind # "error"
    BY <2>1, FrameIs
  <2> QED  BY <2>1, <2>2, PublishedKeeps, RunKeeps
<1>3. CASE WorkerError
  <2> DEFINE e == [kind |-> "error", of |-> "worker"]
  <2>1. /\ RecordMoves /\ called' \in Nat /\ written' \in Nat /\ working' = FALSE
        /\ Publish(e)
    BY <1>0, <1>3 DEF WorkerError, RecordMoves, Statuses, Decided
  <2>2. e \in Events
    BY OtherEvents
  <2> HIDE DEF e
  <2> QED  BY <2>1, <2>2, PublishedKeeps, RunKeeps
<1>4. ASSUME NEW status \in {"awaiting_approval", "delivered", "failed", "cancelled"}, EndRun(status)
      PROVE  LiveInv'
  <2> DEFINE e == [kind |-> "end", of |-> status]
  <2>1. /\ RecordMoves /\ called' \in Nat /\ written' \in Nat /\ working' = FALSE
        /\ Publish(e) /\ status \in Statuses
    BY <1>0, <1>4 DEF EndRun, RecordMoves, Statuses, Decided
  <2>2. e \in Events
    BY <2>1, OtherEvents
  <2> HIDE DEF e
  <2> QED  BY <2>1, <2>2, PublishedKeeps, RunKeeps
<1>5. ASSUME NEW status \in Decided, Review(status)
      PROVE  LiveInv'
  <2>1. /\ RecordMoves /\ called' \in Nat /\ written' \in Nat /\ (working' => record' = "executing")
        /\ UNCHANGED <<turn, following, seen, reads, inbox, recent, working>>
    BY <1>0, <1>5 DEF Review, RecordMoves, Statuses, threadVars
  <2> QED  BY <2>1, RunKeeps DEF LiveInv, LiveTypes
<1>6. CASE RestartService
  <2>1. /\ RecordMoves /\ called' \in Nat /\ written' \in Nat /\ working' = FALSE
        /\ UNCHANGED <<turn, following, seen, reads>> /\ inbox' = <<>> /\ recent' = <<>>
    BY <1>0, <1>6 DEF RestartService, RecordMoves, Statuses, threadVars
  <2> QED  BY <2>1, EmptyQueue, RunKeeps
<1> QED  BY <1>1, <1>2, <1>3, <1>4, <1>5, <1>6 DEF RunNext

-----------------------------------------------------------------------------
(* The browser's side: the record waits, and the turn, the events on their *)
(* way and the reads under way are what a step makes of them.              *)

LEMMA ThreadKeeps ==
    ASSUME LiveInv, UNCHANGED runVars,
           inbox' \in Seq(Events), Reported(inbox', working),
           reads' \subseteq ReadRows, \A r \in reads' \ reads : ReadIsTrue(r),
           NEW t, TurnIsTrue(t), turn' = t,
           following' \in BOOLEAN, Received(t, following', seen')
    PROVE  LiveInv'
<1>0. /\ record' = record /\ working' = working /\ called' = called /\ written' = written
      /\ recent' = recent
  BY DEF runVars
<1>1. LiveTypes'
  BY <1>0 DEF LiveInv, LiveTypes, TurnIsTrue
<1>2. RecordMoves
  BY <1>0 DEF LiveInv, LiveTypes, RecordMoves
<1>3. \A r \in reads' : ReadIsTrue(r)'
  BY <1>2, ReadStays DEF LiveInv
<1>4. TurnIsTrue(turn)'
  <2>1. \A u : TurnIsTrue(u) => TurnIsTrue(u)'
    BY <1>2, TurnStays DEF LiveInv, LiveTypes
  <2> QED  BY <2>1
<1>5. Received(turn, following, seen)'
  BY DEF Received
<1> QED  BY <1>0, <1>1, <1>3, <1>4, <1>5 DEF LiveInv

\* What a step that leaves the turn alone has to see to.
LEMMA TurnWaits ==
    ASSUME LiveInv, UNCHANGED runVars, UNCHANGED <<turn, following, seen>>,
           inbox' \in Seq(Events), Reported(inbox', working),
           reads' \subseteq ReadRows, \A r \in reads' \ reads : ReadIsTrue(r)
    PROVE  LiveInv'
<1>1. TurnIsTrue(turn) /\ Received(turn, following, seen) /\ following \in BOOLEAN
  BY DEF LiveInv, LiveTypes
<1> QED  BY <1>1, ThreadKeeps

LEMMA AskedIsTrue ==
    ASSUME NEW why \in {"settle", "reread", "open"}
    PROVE  Asked(why) \in ReadRows /\ ReadIsTrue(Asked(why))
BY DEF Asked, ReadRows, ReadIsTrue, HadBeen

LEMMA FailureIsTrue ==
    ASSUME ~ working
    PROVE  Asked("failure") \in ReadRows /\ ReadIsTrue(Asked("failure"))
BY DEF Asked, ReadRows, ReadIsTrue, HadBeen

LEMMA AnsweredIsTrue ==
    ASSUME NEW r \in ReadRows, ReadIsTrue(r), record \in Statuses
    PROVE  [r EXCEPT !.status = record] \in ReadRows /\ ReadIsTrue([r EXCEPT !.status = record])
<1> DEFINE a == [r EXCEPT !.status = record]
<1>1. a \in ReadRows /\ a.status = record /\ a.why = r.why
  BY DEF ReadRows
<1> HIDE DEF a
<1>2. ReadIsTrue(a)
  BY <1>1 DEF ReadIsTrue, HadBeen
<1> QED  BY <1>1, <1>2 DEF a

LEMMA QuietKeeps ==
    ASSUME LiveInv,
           \/ Connect \/ Subscribe \/ LoseConnection \/ Poll \/ Reread
           \/ \E r \in reads : Answer(r) \/ Fail(r)
    PROVE  LiveInv'
<1>0. /\ inbox \in Seq(Events) /\ Reported(inbox, working) /\ recent \in Seq(Events)
      /\ Reported(recent, working) /\ reads \subseteq ReadRows /\ record \in Statuses
      /\ \A r \in reads : ReadIsTrue(r)
  BY DEF LiveInv, LiveTypes
<1>1. CASE Connect
  BY <1>0, <1>1, TurnWaits DEF Connect, threadVars
<1>2. CASE Subscribe
  BY <1>0, <1>2, TurnWaits DEF Subscribe, threadVars
<1>3. CASE LoseConnection
  BY <1>0, <1>3, TurnWaits, EmptyQueue DEF LoseConnection, threadVars
<1>4. CASE Poll
  <2>1. Asked("settle") \in ReadRows /\ ReadIsTrue(Asked("settle"))
    BY AskedIsTrue
  <2> QED  BY <1>0, <1>4, <2>1, TurnWaits DEF Poll, PollUnless
<1>5. CASE Reread
  <2>1. Asked("reread") \in ReadRows /\ ReadIsTrue(Asked("reread"))
    BY AskedIsTrue
  <2> QED  BY <1>0, <1>5, <2>1, TurnWaits DEF Reread, threadVars
<1>6. ASSUME NEW r \in reads, Answer(r) PROVE LiveInv'
  <2> DEFINE a == [r EXCEPT !.status = record]
  <2>1. a \in ReadRows /\ ReadIsTrue(a)
    BY <1>0, AnsweredIsTrue
  <2>2. /\ reads' = (reads \ {r}) \cup {a}
        /\ UNCHANGED runVars /\ UNCHANGED <<turn, following, seen>> /\ inbox' = inbox
    BY <1>6 DEF Answer, threadVars
  <2> HIDE DEF a
  <2> QED  BY <1>0, <2>1, <2>2, TurnWaits
<1>7. ASSUME NEW r \in reads, Fail(r) PROVE LiveInv'
  BY <1>0, <1>7, TurnWaits DEF Fail, threadVars
<1> QED  BY <1>1, <1>2, <1>3, <1>4, <1>5, <1>6, <1>7

-----------------------------------------------------------------------------
(* What an event makes of the turn. *)

LEMMA DraftIsWhole ==
    ASSUME NEW t, TurnIsTrue(t), t.stream = "live", NEW n \in Nat
    PROVE  /\ TurnIsTrue([t EXCEPT !.draft = 1..n])
           /\ \A on, received : Received(t, on, received) => Received([t EXCEPT !.draft = 1..n], on, received)
<1> DEFINE u == [t EXCEPT !.draft = 1..n]
<1>1. /\ u \in TurnRows /\ u.draft = 1..n /\ u.stream = t.stream /\ u.outcome = t.outcome
      /\ u.choices = t.choices /\ u.opened = t.opened
  <2> SUFFICES ASSUME NEW v \in TurnRows
               PROVE  LET w == [v EXCEPT !.draft = 1..n]
                      IN  /\ w \in TurnRows /\ w.draft = 1..n /\ w.stream = v.stream /\ w.outcome = v.outcome
                          /\ w.choices = v.choices /\ w.opened = v.opened
    BY DEF TurnIsTrue
  <2> QED  BY DEF TurnRows
<1>2. Cardinality(1..n) = n
  BY FS_Interval
<1> HIDE DEF u
<1>3. WholeDraft(u)
  BY <1>1, <1>2 DEF WholeDraft
<1>4. TurnIsTrue(u)
  BY <1>1, <1>3 DEF TurnIsTrue
<1>5. \A on, received : Received(t, on, received) => Received(u, on, received)
  BY <1>1 DEF Received
<1> QED  BY <1>4, <1>5 DEF u

LEMMA ChoiceIsListed ==
    ASSUME NEW t, TurnIsTrue(t), NEW n \in Nat, NEW received, ChoiceOf(n) \notin received,
           Received(t, TRUE, received)
    PROVE  /\ TurnIsTrue([t EXCEPT !.choices = Append(@, n)])
           /\ Received([t EXCEPT !.choices = Append(@, n)], TRUE, received \cup {ChoiceOf(n)})
<1> DEFINE u == [t EXCEPT !.choices = Append(@, n)]
           c == Append(t.choices, n)
<1>0. t \in TurnRows /\ t.choices \in Seq(Nat)
  BY DEF TurnIsTrue, TurnRows
<1>1. /\ c \in Seq(Nat) /\ Len(c) = Len(t.choices) + 1 /\ Len(t.choices) \in Nat
      /\ \A i \in 1..(Len(t.choices) + 1) : c[i] = IF i <= Len(t.choices) THEN t.choices[i] ELSE n
  BY <1>0, AppendProperties, LenProperties
<1>2. /\ u \in TurnRows /\ u.draft = t.draft /\ u.stream = t.stream /\ u.outcome = t.outcome
      /\ u.choices = c /\ u.opened = t.opened
  <2>1. u = [t EXCEPT !.choices = c]
    OBVIOUS
  <2> HIDE DEF c, u
  <2> SUFFICES ASSUME NEW v \in TurnRows, NEW d \in Seq(Nat)
               PROVE  LET w == [v EXCEPT !.choices = d]
                      IN  /\ w \in TurnRows /\ w.draft = v.draft /\ w.stream = v.stream /\ w.outcome = v.outcome
                          /\ w.choices = d /\ w.opened = v.opened
    BY <1>0, <1>1, <2>1
  <2> QED  BY DEF TurnRows
<1> HIDE DEF c, u
<1>3. t.stream = "live" /\ (~ t.opened => \A i \in 1..Len(t.choices) : ChoiceOf(t.choices[i]) \in received)
  BY DEF Received
<1>4. ASSUME ~ t.opened PROVE Distinct(c)
  <2>1. \A i \in 1..Len(t.choices) : t.choices[i] # n
    BY <1>3, <1>4
  <2>2. Distinct(t.choices)
    BY <1>4 DEF TurnIsTrue
  <2> DEFINE k == Len(t.choices)
             old == t.choices
  <2>3. /\ k \in Nat /\ c[k + 1] = n /\ Len(c) = k + 1
        /\ \A i \in 1..k : c[i] = old[i] /\ old[i] # n
    <3>1. /\ k \in Nat /\ Len(c) = k + 1 /\ \A i \in 1..k : old[i] # n
          /\ \A i \in 1..(k + 1) : c[i] = IF i <= k THEN old[i] ELSE n
      BY <1>1, <2>1
    <3> HIDE DEF k, old
    <3>2. /\ k + 1 \in 1..(k + 1) /\ ~ (k + 1 <= k)
          /\ \A i \in 1..k : i \in 1..(k + 1) /\ i <= k
      BY <3>1
    <3> QED  BY <3>1, <3>2
  <2>4. \A i, j \in 1..k : old[i] = old[j] => i = j
    BY <2>2 DEF Distinct
  <2> HIDE DEF k, old
  <2>5. \A i \in 1..(k + 1) : i \in 1..k \/ i = k + 1
    BY <2>3
  <2>6. \A i, j \in 1..(k + 1) : c[i] = c[j] => i = j
    BY <2>3, <2>4, <2>5
  <2> QED  BY <2>3, <2>6 DEF Distinct
<1>5. TurnIsTrue(u)
  BY <1>2, <1>4 DEF TurnIsTrue, WholeDraft
<1>6. Received(u, TRUE, received \cup {ChoiceOf(n)})
  <2>1. ASSUME ~ t.opened, NEW i \in 1..Len(c) PROVE ChoiceOf(c[i]) \in received \cup {ChoiceOf(n)}
    BY <1>1, <1>3, <2>1
  <2> QED  BY <1>2, <1>3, <2>1 DEF Received
<1> QED  BY <1>5, <1>6 DEF u

LEMMA ReceiveKeeps ==
    ASSUME LiveInv, Receive
    PROVE  LiveInv'
<1> DEFINE e == Head(inbox)
<1>0. /\ inbox \in Seq(Events) /\ inbox # <<>> /\ Reported(inbox, working) /\ reads \subseteq ReadRows
      /\ TurnIsTrue(turn) /\ Received(turn, TRUE, seen) /\ following = TRUE
  BY DEF LiveInv, LiveTypes, Receive
<1>1. /\ Tail(inbox) \in Seq(Events) /\ Reported(Tail(inbox), working)
      /\ e \in Events /\ (e.kind = "error" => ~ working)
  BY <1>0, TailReported
<1>2. UNCHANGED runVars /\ inbox' = Tail(inbox) /\ following' = following
  BY DEF Receive
<1>3. CASE e.kind = "frame"
  <2>1. ShowFrame(e) /\ seen' = seen /\ reads' = reads
    BY <1>3 DEF Receive
  <2>2. PICK n \in Nat : e.of = 1..n
    BY <1>1, <1>3, FrameOfEvents
  <2>3. turn.stream = "live"
    BY <1>0 DEF Received
  <2> DEFINE t == [turn EXCEPT !.draft = 1..n]
  <2>4. turn' = t
    BY <2>1, <2>2, <2>3 DEF ShowFrame
  <2>5. TurnIsTrue(t) /\ Received(t, TRUE, seen)
    BY <1>0, <2>3, DraftIsWhole
  <2> HIDE DEF t, e
  <2> QED  BY <1>0, <1>1, <1>2, <2>1, <2>4, <2>5, ThreadKeeps
<1>4. CASE e.kind # "frame"
  <2>1. ShowEvent(e)
    BY <1>4 DEF Receive
  <2>2. /\ Asked("settle") \in ReadRows /\ ReadIsTrue(Asked("settle"))
        /\ (e.kind = "error" => Asked("failure") \in ReadRows /\ ReadIsTrue(Asked("failure")))
    BY <1>1, AskedIsTrue, FailureIsTrue
  <2> HIDE DEF e
  <2>3. /\ \/ reads' = reads
           \/ reads' = reads \cup {Asked("settle")}
           \/ (e.kind = "error" /\ reads' = reads \cup {Asked("failure")})
        /\ seen' = seen \cup {e}
        /\ turn' = IF e.kind = "choice" /\ e \notin seen THEN [turn EXCEPT !.choices = Append(@, e.of)] ELSE turn
    BY <2>1 DEF ShowEvent
  <2>4. reads' \subseteq ReadRows /\ \A r \in reads' \ reads : ReadIsTrue(r)
    BY <1>0, <2>2, <2>3
  <2>5. CASE e.kind = "choice" /\ e \notin seen
    <3> DEFINE t == [turn EXCEPT !.choices = Append(@, e.of)]
    <3>1. e.of \in Nat /\ e = ChoiceOf(e.of)
      BY <1>1, <2>5, ChoiceOfEvents
    <3>2. TurnIsTrue(t) /\ Received(t, TRUE, seen')
      BY <1>0, <2>3, <2>5, <3>1, ChoiceIsListed
    <3>3. turn' = t
      BY <2>3, <2>5
    <3> HIDE DEF t
    <3> QED  BY <1>0, <1>1, <1>2, <2>4, <3>2, <3>3, ThreadKeeps
  <2>6. CASE ~ (e.kind = "choice" /\ e \notin seen)
    <3>1. turn' = turn
      BY <2>3, <2>6
    <3>2. Received(turn, TRUE, seen')
      BY <1>0, <2>3 DEF Received
    <3> QED  BY <1>0, <1>1, <1>2, <2>4, <3>1, <3>2, ThreadKeeps
  <2> QED  BY <2>5, <2>6
<1> QED  BY <1>3, <1>4

-----------------------------------------------------------------------------
(* What a read makes of the turn. *)

\* a turn that shows a status the record has had, and as many calls as the row lists
LEMMA RecordIsShown ==
    ASSUME LiveInv, NEW t \in TurnRows, NEW status \in Statuses, HadBeen(status)
    PROVE  LET u == FromRecord(t, status)
           IN  TurnIsTrue(u) /\ u \in TurnRows /\ u.stream = "closed" /\ u.draft = {}
<1> DEFINE o == OutcomeFor(status)
           c == [i \in 1..called |-> i]
           u == [t EXCEPT !.stream = "closed", !.outcome = o, !.draft = {}, !.choices = c]
<1>1. o \in Outcomes /\ HasHad(o)
  BY OutcomeIsTrue DEF LiveInv, LiveTypes
<1>2. called \in Nat
  BY DEF LiveInv, LiveTypes
<1>3. c \in Seq(Nat) /\ Len(c) = called /\ \A i \in 1..called : c[i] = i
  BY <1>2, IsASeq, LenProperties
<1> HIDE DEF o, c
<1>4. /\ u \in TurnRows /\ u.stream = "closed" /\ u.outcome = o /\ u.draft = {} /\ u.choices = c
  BY <1>1, <1>3 DEF TurnRows
<1> HIDE DEF u
<1>5. WholeDraft(u)
  <2>1. Cardinality({}) = 0
    BY FS_EmptySet
  <2>2. 1..0 = {}
    OBVIOUS
  <2> QED  BY <1>4, <2>1, <2>2 DEF WholeDraft
<1>6. Distinct(c)
  BY <1>3 DEF Distinct
<1>7. TurnIsTrue(u)
  BY <1>1, <1>4, <1>5, <1>6 DEF TurnIsTrue
<1> QED  BY <1>4, <1>7 DEF FromRecord, u, o, c

\* closing it as the failure a worker has reported
LEMMA FailureIsShown ==
    ASSUME NEW t \in TurnRows, TurnIsTrue(t), ~ working
    PROVE  TurnIsTrue([t EXCEPT !.stream = "closed", !.outcome = "failed", !.draft = {}])
<1> DEFINE u == [t EXCEPT !.stream = "closed", !.outcome = "failed", !.draft = {}]
<1>1. /\ u \in TurnRows /\ u.stream = "closed" /\ u.outcome = "failed" /\ u.draft = {}
      /\ u.choices = t.choices /\ u.opened = t.opened
  BY DEF TurnRows, Outcomes
<1> HIDE DEF u
<1>2. WholeDraft(u)
  <2>1. Cardinality({}) = 0
    BY FS_EmptySet
  <2>2. 1..0 = {}
    OBVIOUS
  <2> QED  BY <1>1, <2>1, <2>2 DEF WholeDraft
<1>3. HasHad("failed")
  BY DEF HasHad
<1>4. TurnIsTrue(u)
  BY <1>1, <1>2, <1>3 DEF TurnIsTrue
<1> QED  BY <1>4 DEF u

\* a turn no event is received for
LEMMA NothingIsReceived == \A t, received : Received(t, FALSE, received)
BY DEF Received

LEMMA ReadIs ==
    ASSUME LiveInv, NEW r \in reads, r.status # "asked"
    PROVE  /\ r.status \in Statuses /\ HadBeen(r.status) /\ (r.why = "failure" => ~ working)
           /\ reads \ {r} \subseteq ReadRows /\ turn \in TurnRows /\ TurnIsTrue(turn)
           /\ inbox \in Seq(Events) /\ Reported(inbox, working)
BY DEF LiveInv, LiveTypes, ReadRows, ReadIsTrue

LEMMA SettleKeeps ==
    ASSUME LiveInv, NEW r \in reads, ApplySettle(r)
    PROVE  LiveInv'
<1>0. /\ r.why \in {"settle", "failure"} /\ r.status # "asked" /\ reads' = reads \ {r}
  BY DEF ApplySettle
<1>1. /\ r.status \in Statuses /\ HadBeen(r.status) /\ (r.why = "failure" => ~ working)
      /\ reads \ {r} \subseteq ReadRows /\ turn \in TurnRows /\ TurnIsTrue(turn)
      /\ inbox \in Seq(Events) /\ Reported(inbox, working)
  BY <1>0, ReadIs
<1>2. ASSUME NEW t, TurnIsTrue(t), Show(t) PROVE LiveInv'
  <2>1. /\ turn' = t /\ following' = FALSE /\ inbox' = <<>> /\ UNCHANGED runVars
    BY <1>2 DEF Show, Detach
  <2>2. Received(t, following', seen')
    BY <2>1, NothingIsReceived
  <2> QED  BY <1>0, <1>1, <1>2, <2>1, <2>2, EmptyQueue, ThreadKeeps
<1>3. CASE r.status \in TERMINAL
  <2>1. Show(FromRecord(turn, r.status))
    BY <1>3 DEF ApplySettle
  <2>2. TurnIsTrue(FromRecord(turn, r.status))
    BY <1>1, RecordIsShown
  <2> QED  BY <1>2, <2>1, <2>2
<1>4. CASE r.status \notin TERMINAL /\ r.why = "failure"
  <2> DEFINE t == [turn EXCEPT !.stream = "closed", !.outcome = "failed", !.draft = {}]
  <2>1. Show(t)
    BY <1>4 DEF ApplySettle
  <2>2. TurnIsTrue(t)
    BY <1>1, <1>4, FailureIsShown
  <2> HIDE DEF t
  <2> QED  BY <1>2, <2>1, <2>2
<1>5. CASE r.status \notin TERMINAL /\ r.why # "failure"
  <2>1. UNCHANGED runVars /\ UNCHANGED <<turn, following, seen>> /\ inbox' = inbox
    BY <1>5 DEF ApplySettle, threadVars
  <2> QED  BY <1>0, <1>1, <2>1, TurnWaits
<1> QED  BY <1>3, <1>4, <1>5

LEMMA RereadKeeps ==
    ASSUME LiveInv, NEW r \in reads, ApplyReread(r)
    PROVE  LiveInv'
<1>0. /\ r.status # "asked" /\ reads' = reads \ {r}
      /\ UNCHANGED runVars /\ UNCHANGED <<following, seen>> /\ inbox' = inbox
  BY DEF ApplyReread
<1>1. /\ r.status \in Statuses /\ HadBeen(r.status) /\ reads \ {r} \subseteq ReadRows
      /\ turn \in TurnRows /\ TurnIsTrue(turn)
      /\ inbox \in Seq(Events) /\ Reported(inbox, working)
  BY <1>0, ReadIs
<1>2. CASE turn.outcome = "held" /\ turn.stream = "closed"
  <2> DEFINE f == FromRecord(turn, r.status)
             t == [f EXCEPT !.stream = turn.stream]
  <2>1. TurnIsTrue(f) /\ f \in TurnRows /\ f.stream = "closed"
    BY <1>1, RecordIsShown
  <2>2. turn' = t
    BY <1>2 DEF ApplyReread
  <2> HIDE DEF f
  <2>3. t = f
    BY <1>2, <2>1 DEF TurnRows
  <2>4. following = FALSE
    BY <1>2 DEF LiveInv, LiveTypes, Received
  <2>5. Received(f, following', seen')
    BY <1>0, <2>4, NothingIsReceived
  <2> HIDE DEF t
  <2> QED  BY <1>0, <1>1, <2>1, <2>2, <2>3, <2>4, <2>5, ThreadKeeps
<1>3. CASE ~ (turn.outcome = "held" /\ turn.stream = "closed")
  <2>1. turn' = turn
    BY <1>3 DEF ApplyReread
  <2> QED  BY <1>0, <1>1, <2>1, TurnWaits
<1> QED  BY <1>2, <1>3

LEMMA NoTurnIsTrue == NoTurn \in TurnRows /\ TurnIsTrue(NoTurn)
<1>1. NoTurn \in TurnRows /\ NoTurn.draft = {} /\ NoTurn.choices = <<>> /\ NoTurn.outcome = "running"
  BY EmptySeq DEF NoTurn, TurnRows, Outcomes
<1>2. WholeDraft(NoTurn)
  <2>1. Cardinality({}) = 0
    BY FS_EmptySet
  <2>2. 1..0 = {}
    OBVIOUS
  <2> QED  BY <1>1, <2>1, <2>2 DEF WholeDraft
<1>3. HasHad("running")
  BY DEF HasHad
<1>4. Distinct(NoTurn.choices)
  BY <1>1, EmptySeq DEF Distinct
<1> QED  BY <1>1, <1>2, <1>3, <1>4 DEF TurnIsTrue

LEMMA OpenKeeps ==
    ASSUME LiveInv, NEW r \in reads, ApplyOpen(r)
    PROVE  LiveInv'
<1> DEFINE s == IF r.status \notin TERMINAL THEN "live" ELSE "closed"
           f == FromRecord(NoTurn, r.status)
           t == [f EXCEPT !.stream = s, !.opened = TRUE]
<1>0. /\ r.status # "asked" /\ reads' = reads \ {r}
      /\ UNCHANGED runVars /\ seen' = seen /\ inbox' = inbox
      /\ turn' = t /\ following' = (r.status \notin TERMINAL)
  BY DEF ApplyOpen
<1>1. /\ r.status \in Statuses /\ HadBeen(r.status) /\ reads \ {r} \subseteq ReadRows
      /\ inbox \in Seq(Events) /\ Reported(inbox, working)
  BY <1>0, ReadIs
<1>2. TurnIsTrue(f) /\ f \in TurnRows /\ f.draft = {}
  BY <1>1, NoTurnIsTrue, RecordIsShown
<1>3. s \in {"live", "closed"} /\ (following' => s = "live")
  BY <1>0
<1> HIDE DEF s, f
<1>4. /\ t \in TurnRows /\ t.stream = s /\ t.opened = TRUE /\ t.draft = f.draft
      /\ t.outcome = f.outcome /\ t.choices = f.choices
  BY <1>2, <1>3 DEF TurnRows
<1> HIDE DEF t
<1>5. TurnIsTrue(t)
  BY <1>2, <1>4 DEF TurnIsTrue, WholeDraft
<1>6. Received(t, following', seen')
  BY <1>3, <1>4 DEF Received
<1>7. following' \in BOOLEAN
  BY <1>0
<1> QED  BY <1>0, <1>1, <1>5, <1>6, <1>7, ThreadKeeps

LEMMA ReloadKeeps ==
    ASSUME LiveInv, Reload
    PROVE  LiveInv'
<1>1. /\ turn' = NoTurn /\ following' = FALSE /\ inbox' = <<>> /\ UNCHANGED runVars
      /\ reads' = {Asked("open")}
  BY DEF Reload
<1>2. Asked("open") \in ReadRows /\ ReadIsTrue(Asked("open"))
  BY AskedIsTrue
<1>3. Received(NoTurn, following', seen')
  BY <1>1, NothingIsReceived
<1> QED  BY <1>1, <1>2, <1>3, NoTurnIsTrue, EmptyQueue, ThreadKeeps

-----------------------------------------------------------------------------
LEMMA LiveStart == LiveInit => LiveInv
<1> SUFFICES ASSUME LiveInit PROVE LiveInv
  OBVIOUS
<1> DEFINE t == [NoTurn EXCEPT !.stream = "live"]
<1>1. /\ record = "executing" /\ working = TRUE /\ written = 0 /\ called = 0 /\ recent = <<>>
      /\ inbox = <<>> /\ turn = t /\ following = TRUE /\ seen = {} /\ reads = {}
  BY DEF LiveInit
<1>2. /\ t \in TurnRows /\ t.stream = "live" /\ t.opened = NoTurn.opened /\ t.draft = NoTurn.draft
      /\ t.outcome = NoTurn.outcome /\ t.choices = NoTurn.choices
  BY NoTurnIsTrue DEF TurnRows
<1> HIDE DEF t
<1>3. TurnIsTrue(t)
  BY <1>2, NoTurnIsTrue DEF TurnIsTrue, WholeDraft
<1>4. Received(t, TRUE, {})
  <2>1. NoTurn.choices = <<>> /\ Len(<<>>) = 0
    BY EmptySeq DEF NoTurn
  <2> QED  BY <1>2, <2>1 DEF Received
<1>5. LiveTypes
  BY <1>1, <1>2, EmptyQueue DEF LiveTypes, Statuses
<1> QED  BY <1>1, <1>3, <1>4, <1>5, EmptyQueue DEF LiveInv

LEMMA LiveKept == LiveInv /\ [LiveNext]_liveVars => LiveInv'
<1> SUFFICES ASSUME LiveInv, [LiveNext]_liveVars PROVE LiveInv'
  OBVIOUS
<1>1. CASE RunNext
  BY <1>1, RunNextKeeps
<1>2. CASE Connect \/ Subscribe \/ LoseConnection \/ Poll \/ Reread \/ (\E r \in reads : Answer(r) \/ Fail(r))
  BY <1>2, QuietKeeps
<1>3. CASE Receive \/ Reload
  BY <1>3, ReceiveKeeps, ReloadKeeps
<1>4. CASE ApplyRead
  BY <1>4, SettleKeeps, RereadKeeps, OpenKeeps DEF ApplyRead
<1>5. CASE UNCHANGED liveVars
  <2>1. /\ UNCHANGED runVars /\ UNCHANGED <<turn, following, seen>> /\ inbox' = inbox /\ reads' = reads
    BY <1>5 DEF liveVars, threadVars
  <2>2. inbox \in Seq(Events) /\ Reported(inbox, working) /\ reads \subseteq ReadRows
    BY DEF LiveInv, LiveTypes
  <2> QED  BY <2>1, <2>2, TurnWaits
<1> QED  BY <1>1, <1>2, <1>3, <1>4, <1>5 DEF LiveNext

\* ThreadShowsTheRun for a draft of any length, any number of calls and any bounds on queues
\* and replay: however events are lost, replayed twice or received late, and however old an
\* answer is when it is applied, the turn shows a whole beginning of the draft and no end that
\* the record has not had.
THEOREM TurnShowsTheRun == LiveSpec => []ThreadShowsTheRun
<1>1. LiveInv => ThreadShowsTheRun
  <2> SUFFICES ASSUME LiveInv PROVE ThreadShowsTheRun
    OBVIOUS
  <2>1. WholeDraft(turn) /\ HasHad(turn.outcome) /\ turn.choices \in Seq(Nat)
        /\ (~ turn.opened => Distinct(turn.choices))
    BY DEF LiveInv, TurnIsTrue, TurnRows
  <2>2. DOMAIN turn.choices = 1..Len(turn.choices)
    BY <2>1, LenProperties
  <2> QED  BY <2>1, <2>2 DEF ThreadShowsTheRun, WholeDraft, Distinct
<1> QED  BY <1>1, LiveStart, LiveKept, PTL DEF LiveSpec
=============================================================================
