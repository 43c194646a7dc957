------------------------- MODULE HarnessRunnerProofs -------------------------
(***************************************************************************)
(* Theorems about HarnessRunner for any definitions, corpora, people and   *)
(* children, any number of restarts, and with writes that may fail.        *)
(*                                                                         *)
(* A record exists twice, in memory and stored, and either may be the one  *)
(* that lasts: the invariant states what is good of a record by itself,    *)
(* asks it of both, and says by where the runner stands how they differ.   *)
(***************************************************************************)
EXTENDS HarnessRunner, FiniteSetTheorems, WellFoundedInduction, TLAPS

Pages ==
    {[definition |-> d, lines |-> lines, rows |-> PlanRows(d, lines, indexed, Scope)] :
        d \in Definitions, lines \in Lines, indexed \in SUBSET Sections}

Version(r) == IF r.report = None THEN 0 ELSE r.report.version

(* It asks what the page showed. *)
Previewed(r, shown) ==
    /\ shown # None
    /\ \A n \in DOMAIN r.items : [key |-> n, asks |-> r.items[n].asks] \in shown.rows

(* Its report is in its files and in the log; at most one later version    *)
(* was begun, and none later than it was approved.                         *)
Filed(r, written, logged, signed) ==
    /\ Len(written) \in {Version(r), Version(r) + 1}
    /\ r.report # None => /\ written[r.report.version] = r.report.content
                          /\ <<r.report.version, r.report.content>> \in logged
    /\ \A a \in signed : a[1] <= Version(r)

(* Its report was written when nothing in it could change any more but the *)
(* children, and is released as it should be.                              *)
Cleared(r, signed) ==
    /\ r.status \in ActiveRun => r.report = None
    /\ r.report # None => DOMAIN r.report.statuses = Submitted(r)
    /\ r.report # None /\ r.report.released =>
          \/ ~r.definition.approval /\ ~Classified(r.report.content)
          \/ \E u \in Deciders \ {Owner} : <<r.report.version, u>> \in signed

(* What it calls unsubmitted never ran, and one item at most is in flight. *)
Accounted(r, executed) ==
    /\ \A n \in DOMAIN r.items :
          r.items[n].state \notin {"submitted", "settled"} => n \notin executed
    /\ \A n, m \in InFlight(r) : n = m

Good(r) ==
    /\ Previewed(r, page)
    /\ Filed(r, files, log, approved)
    /\ Cleared(r, approved)
    /\ Accounted(r, ran)

(* What was not pending is as it was. *)
Follows(r, s) ==
    /\ DOMAIN r.items = DOMAIN s.items
    /\ \A n \in DOMAIN s.items :
          s.items[n].state # "pending" => r.items[n].state = s.items[n].state

(* Where the runner stands decides how the two records differ. *)
Stands ==
    /\ pc # "none" => stored # None
    /\ ~built => pc = "none"
    /\ pc \in {"ready", "loop", "waiting", "closing"} => run = stored
    /\ pc = "created" => \E n \in Pending(stored) : run = Mark(stored, n, "submitted")
    /\ pc = "written" => Follows(run, stored)
    /\ pc \in {"ready", "loop", "created"} => InFlight(stored) = {}
    /\ pc \in {"ready", "loop", "created", "waiting"} => run.status \in ActiveRun
    /\ pc \in {"closing", "written"} => run.status \notin ActiveRun
    /\ built /\ pc = "none" /\ stored # None => stored.status \notin ActiveRun

(* A child that is active is in flight, or its submission is on record as  *)
(* failed; one with a worker is active.                                    *)
Attended ==
    /\ \A n \in Children : child[n] = "active" =>
          /\ stored # None
          /\ n \in DOMAIN stored.items
          /\ \/ stored.items[n].state \in {"submitted", "submit_failed"}
             \/ pc = "created" /\ n \in InFlight(run)
    /\ running \subseteq ran
    /\ \A n \in running : child[n] = "active"

IInv ==
    /\ TypeOK
    /\ page \in Pages \cup {None}
    /\ stored = None => files = <<>> /\ approved = {} /\ ran = {}
    /\ stored # None => Good(stored)
    /\ run # None => Good(run)
    /\ Stands
    /\ Attended

-----------------------------------------------------------------------------
(* The record and its operators. *)

LEMMA PerChildIs ==
    ASSUME NEW S, NEW f
    PROVE  f \in PerChild(S) <=> DOMAIN f \subseteq Children /\ f \in [DOMAIN f -> S]
BY DEF PerChild

LEMMA RecordIs ==
    ASSUME NEW r \in Records
    PROVE  /\ r = [status |-> r.status, definition |-> r.definition, cancel |-> r.cancel,
                   report |-> r.report, items |-> r.items]
           /\ r # None
           /\ r.status \in ActiveRun \cup EndedRun
           /\ r.definition \in Definitions
           /\ r.cancel \in BOOLEAN
           /\ r.report \in Reports \cup {None}
           /\ DOMAIN r.items \subseteq Children
           /\ r.items \in [DOMAIN r.items -> [asks : Asked, state : ItemStates]]
<1>1. r.items \in PerChild([asks : Asked, state : ItemStates])
  BY DEF Records
<1>2. DOMAIN r.items \subseteq Children /\ r.items \in [DOMAIN r.items -> [asks : Asked, state : ItemStates]]
  BY <1>1, PerChildIs
<1>. QED  BY <1>2, HarnessAssumption DEF Records

LEMMA RecordFrom ==
    ASSUME NEW status \in ActiveRun \cup EndedRun, NEW definition \in Definitions,
           NEW cancel \in BOOLEAN, NEW report \in Reports \cup {None}, NEW items,
           DOMAIN items \subseteq Children,
           items \in [DOMAIN items -> [asks : Asked, state : ItemStates]]
    PROVE  [status |-> status, definition |-> definition, cancel |-> cancel,
            report |-> report, items |-> items] \in Records
<1>1. items \in PerChild([asks : Asked, state : ItemStates])
  BY PerChildIs
<1>. QED  BY <1>1 DEF Records

LEMMA ItemIs ==
    ASSUME NEW r \in Records, NEW n \in DOMAIN r.items
    PROVE  /\ n \in Children
           /\ r.items[n] = [asks |-> r.items[n].asks, state |-> r.items[n].state]
           /\ r.items[n].asks \in Asked
           /\ r.items[n].state \in ItemStates
<1>1. r.items[n] \in [asks : Asked, state : ItemStates]
  BY RecordIs
<1>. QED  BY <1>1, RecordIs

LEMMA ItemExcept ==
    ASSUME NEW i \in [asks : Asked, state : ItemStates], NEW s
    PROVE  [i EXCEPT !.state = s] = [asks |-> i.asks, state |-> s]
<1>1. i = [asks |-> i.asks, state |-> i.state]
  OBVIOUS
<1>2. DOMAIN [i EXCEPT !.state = s] = DOMAIN i
  OBVIOUS
<1>3. [i EXCEPT !.state = s] = [f \in DOMAIN i |-> IF f = "state" THEN s ELSE i[f]]
  BY Zenon
<1>. QED  BY <1>1, <1>3

LEMMA RecordExcept ==
    ASSUME NEW r \in Records, NEW s, NEW items
    PROVE  [r EXCEPT !.status = s, !.items = items]
              = [status |-> s, definition |-> r.definition, cancel |-> r.cancel,
                 report |-> r.report, items |-> items]
<1>. DEFINE q == [r EXCEPT !.status = s]
<1>1. q = [status |-> s, definition |-> r.definition, cancel |-> r.cancel,
           report |-> r.report, items |-> r.items]
  BY RecordIs
<1>. HIDE DEF q
<1>2. [q EXCEPT !.items = items]
         = [status |-> s, definition |-> r.definition, cancel |-> r.cancel,
            report |-> r.report, items |-> items]
  BY <1>1
<1>. QED  BY <1>2 DEF q

LEMMA CancelExcept ==
    ASSUME NEW r \in Records, NEW c, NEW s
    PROVE  [r EXCEPT !.cancel = c, !.status = s]
              = [status |-> s, definition |-> r.definition, cancel |-> c,
                 report |-> r.report, items |-> r.items]
<1>. DEFINE q == [r EXCEPT !.cancel = c]
<1>1. q = [status |-> r.status, definition |-> r.definition, cancel |-> c,
           report |-> r.report, items |-> r.items]
  BY RecordIs
<1>. HIDE DEF q
<1>2. [q EXCEPT !.status = s]
         = [status |-> s, definition |-> r.definition, cancel |-> c,
            report |-> r.report, items |-> r.items]
  BY <1>1
<1>. QED  BY <1>2 DEF q

LEMMA ReportExcept ==
    ASSUME NEW r \in Records, NEW report
    PROVE  [r EXCEPT !.report = report]
              = [status |-> r.status, definition |-> r.definition, cancel |-> r.cancel,
                 report |-> report, items |-> r.items]
BY RecordIs

(* Marking an item changes its state and nothing else. *)
LEMMA MarkIs ==
    ASSUME NEW r \in Records, NEW k \in DOMAIN r.items, NEW s \in ItemStates
    PROVE  LET m == Mark(r, k, s) IN
           /\ m \in Records
           /\ m.status = r.status /\ m.definition = r.definition /\ m.cancel = r.cancel
           /\ m.report = r.report
           /\ DOMAIN m.items = DOMAIN r.items
           /\ \A n \in DOMAIN r.items :
                 /\ m.items[n].asks = r.items[n].asks
                 /\ m.items[n].state = IF n = k THEN s ELSE r.items[n].state
<1>. DEFINE items == [r.items EXCEPT ![k] = [asks |-> r.items[k].asks, state |-> s]]
<1>1. Mark(r, k, s) = [status |-> r.status, definition |-> r.definition, cancel |-> r.cancel,
                       report |-> r.report, items |-> items]
  <2>1. [r.items[k] EXCEPT !.state = s] = [asks |-> r.items[k].asks, state |-> s]
    BY ItemExcept, RecordIs
  <2>. QED  BY <2>1, RecordIs DEF Mark
<1>2. DOMAIN items = DOMAIN r.items
  OBVIOUS
<1>3. items \in [DOMAIN items -> [asks : Asked, state : ItemStates]]
  BY RecordIs, ItemIs
<1>4. Mark(r, k, s) \in Records
  BY <1>1, <1>2, <1>3, RecordFrom, RecordIs
<1>5. ASSUME NEW n \in DOMAIN r.items
      PROVE  /\ items[n].asks = r.items[n].asks
             /\ items[n].state = IF n = k THEN s ELSE r.items[n].state
  OBVIOUS
<1>. HIDE DEF items
<1>. QED  BY <1>1, <1>2, <1>4, <1>5

(* A run that ends gives up what is pending and keeps the rest. *)
LEMMA EndedIs ==
    ASSUME NEW r \in Records, NEW s \in EndedRun
    PROVE  LET e == Ended(r, s) IN
           /\ e \in Records
           /\ e.status = s /\ e.definition = r.definition /\ e.cancel = r.cancel
           /\ e.report = r.report
           /\ DOMAIN e.items = DOMAIN r.items
           /\ \A n \in DOMAIN r.items :
                 /\ e.items[n].asks = r.items[n].asks
                 /\ e.items[n].state =
                       IF r.items[n].state = "pending" THEN "not_submitted" ELSE r.items[n].state
<1>. DEFINE state(n) == IF r.items[n].state = "pending" THEN "not_submitted" ELSE r.items[n].state
            items == [n \in DOMAIN r.items |-> [asks |-> r.items[n].asks, state |-> state(n)]]
<1>. DEFINE kept(n) == IF n \in Pending(r) THEN [r.items[n] EXCEPT !.state = "not_submitted"]
                       ELSE r.items[n]
<1>1. [n \in DOMAIN r.items |-> kept(n)] = items
  <2>1. ASSUME NEW n \in DOMAIN r.items
        PROVE  [r.items[n] EXCEPT !.state = "not_submitted"]
                  = [asks |-> r.items[n].asks, state |-> "not_submitted"]
    BY ItemExcept, RecordIs
  <2>2. ASSUME NEW n \in DOMAIN r.items
        PROVE  kept(n) = [asks |-> r.items[n].asks, state |-> state(n)]
    BY <2>1, ItemIs DEF Pending
  <2>. HIDE DEF kept, state
  <2>. QED  BY <2>2
<1>2. Ended(r, s) = [status |-> s, definition |-> r.definition, cancel |-> r.cancel,
                     report |-> r.report, items |-> items]
  <2>. DEFINE all == [n \in DOMAIN r.items |-> kept(n)]
  <2>1. Ended(r, s) = [r EXCEPT !.status = s, !.items = all]
    BY Zenon DEF Ended
  <2>2. all = items
    BY <1>1
  <2>. HIDE DEF all, items, kept
  <2>. QED  BY <2>1, <2>2, RecordExcept, Zenon
<1>3. DOMAIN items = DOMAIN r.items
  OBVIOUS
<1>4. items \in [DOMAIN items -> [asks : Asked, state : ItemStates]]
  BY RecordIs, ItemIs DEF ItemStates
<1>5. Ended(r, s) \in Records
  <2>. HIDE DEF items
  <2>. QED  BY <1>2, <1>3, <1>4, RecordFrom, RecordIs
<1>6. ASSUME NEW n \in DOMAIN r.items
      PROVE  items[n].asks = r.items[n].asks /\ items[n].state = state(n)
  OBVIOUS
<1>. HIDE DEF items
<1>. QED  BY <1>2, <1>3, <1>5, <1>6

LEMMA OutcomeType ==
    ASSUME NEW r \in Records, NEW n \in DOMAIN r.items, child \in [Children -> L!States]
    PROVE  Outcome(r, n) \in Outcomes
<1>1. n \in Children /\ child[n] \in L!States /\ r.items[n].state \in ItemStates
  BY ItemIs
<1>. QED  BY <1>1 DEF Outcome, Outcomes, ItemStates, L!States

LEMMA ContentType ==
    ASSUME NEW r \in Records, child \in [Children -> L!States]
    PROVE  Content(r) \in Contents
<1>. DEFINE outcomes == [n \in DOMAIN r.items |-> Outcome(r, n)]
            answers == {n \in DOMAIN r.items : Outcome(r, n) = "delivered"}
<1>1. DOMAIN outcomes = DOMAIN r.items /\ DOMAIN r.items \subseteq Children
  BY RecordIs
<1>2. outcomes \in [DOMAIN outcomes -> Outcomes]
  BY OutcomeType
<1>3. outcomes \in PerChild(Outcomes)
  <2>. HIDE DEF outcomes
  <2>. QED  BY <1>1, <1>2, PerChildIs
<1>4. answers \in SUBSET Children
  BY <1>1
<1>5. Content(r) = [outcomes |-> outcomes, answers |-> answers]
  BY DEF Content
<1>. HIDE DEF outcomes, answers
<1>. QED  BY <1>3, <1>4, <1>5 DEF Contents

(* A new report is the next version, of the children as they stand, and    *)
(* released at once only if nothing asks for an approval.                  *)
LEMMA ReportedIs ==
    ASSUME NEW r \in Records, child \in [Children -> L!States]
    PROVE  LET q == Reported(r) IN
           /\ q \in Records
           /\ q.status = r.status /\ q.definition = r.definition /\ q.items = r.items
           /\ q.report \in Reports
           /\ q.report.version = Version(r) + 1
           /\ q.report.content = Content(r)
           /\ DOMAIN q.report.statuses = Submitted(r)
           /\ q.report.released = ~NeedsApproval(r)
           /\ Version(r) \in Nat
<1>. DEFINE rep == [version |-> VersionOf(r), content |-> Content(r), statuses |-> Statuses(r),
                    decision |-> IF NeedsApproval(r) THEN "pending" ELSE "none",
                    released |-> ~NeedsApproval(r)]
<1>1. Version(r) \in Nat /\ VersionOf(r) = Version(r) + 1
  BY RecordIs DEF Version, VersionOf, Reports
<1>2. Submitted(r) \subseteq DOMAIN r.items /\ Submitted(r) \subseteq Children
  BY RecordIs DEF Submitted
<1>3. DOMAIN Statuses(r) = Submitted(r) /\ Statuses(r) \in [Submitted(r) -> L!States]
  BY <1>2 DEF Statuses
<1>4. Statuses(r) \in PerChild(L!States)
  BY <1>2, <1>3, PerChildIs
<1>5. rep \in Reports
  <2>1. (IF NeedsApproval(r) THEN "pending" ELSE "none") \in {"none", "pending", "approved", "rejected"}
    OBVIOUS
  <2>2. (~NeedsApproval(r)) \in BOOLEAN
    BY DEF NeedsApproval
  <2>3. VersionOf(r) \in Nat \ {0}
    BY <1>1
  <2>. QED  BY <2>1, <2>2, <2>3, <1>4, ContentType DEF Reports
<1>6. Reported(r) = [status |-> r.status, definition |-> r.definition, cancel |-> r.cancel,
                     report |-> rep, items |-> r.items]
  <2>1. Reported(r) = [r EXCEPT !.report = rep]
    BY DEF Reported
  <2>. HIDE DEF rep
  <2>. QED  BY <2>1, ReportExcept
<1>7. Reported(r) \in Records
  <2>. HIDE DEF rep
  <2>. QED  BY <1>5, <1>6, RecordFrom, RecordIs
<1>8. /\ rep.version = VersionOf(r)
      /\ rep.content = Content(r)
      /\ rep.statuses = Statuses(r)
      /\ rep.released = ~NeedsApproval(r)
  OBVIOUS
<1>. HIDE DEF rep
<1>. QED  BY <1>1, <1>3, <1>5, <1>6, <1>7, <1>8

LEMMA NextIsPending ==
    ASSUME NEW r \in Records, Pending(r) # {}
    PROVE  NextItem(r) \in Pending(r)
<1>1. Pending(r) \subseteq Nat
  <2>1. DOMAIN r.items \subseteq Children /\ Children \subseteq Nat
    BY RecordIs, HarnessAssumption
  <2>. QED  BY <2>1 DEF Pending
<1>2. PICK n \in Pending(r) : \A m \in Pending(r) : ~(<<m, n>> \in OpToRel(<, Nat))
  BY <1>1, NatLessThanWellFounded, WFMin
<1>3. \A m \in Pending(r) : n <= m
  <2>. SUFFICES ASSUME NEW m \in Pending(r), ~(n <= m)
                PROVE  FALSE
    OBVIOUS
  <2>1. m \in Nat /\ n \in Nat /\ m < n
    BY <1>1
  <2>2. <<m, n>> \in OpToRel(<, Nat)
    BY <2>1 DEF OpToRel
  <2>. QED  BY <1>2, <2>2
<1>. QED  BY <1>3 DEF NextItem

(* A row is what its key says: the same for the same input lines, and for  *)
(* the same section whatever else is indexed.                              *)
LEMMA RowsAgree ==
    ASSUME NEW d \in Definitions, NEW lines \in Lines,
           NEW now \in SUBSET Sections, NEW before \in SUBSET Sections,
           NEW key \in Keys(PlanRows(d, lines, now, Scope)),
           key \in Keys(PlanRows(d, lines, before, Scope))
    PROVE  LET asks == RowOf(PlanRows(d, lines, now, Scope), key).asks IN
           /\ key \in Children
           /\ asks \in Asked
           /\ [key |-> key, asks |-> asks] \in PlanRows(d, lines, before, Scope)
<1>. DEFINE rows == PlanRows(d, lines, now, Scope)
            row == RowOf(rows, key)
<1>1. row \in rows /\ row.key = key
  <2>1. \E q \in rows : q.key = key
    BY DEF Keys
  <2>. QED  BY <2>1 DEF RowOf
<1>2. CASE d.source = "input_lines"
  <2>1. /\ rows = {[key |-> Number(lines, n), asks |-> lines[n]] : n \in Unique(lines)}
        /\ PlanRows(d, lines, before, Scope) = rows
        /\ PlanRows(d, lines, Sections, Scope) = rows
    BY <1>2 DEF PlanRows
  <2>2. PICK n \in Unique(lines) : row = [key |-> Number(lines, n), asks |-> lines[n]]
    BY <1>1, <2>1
  <2>3. row.asks \in Asked /\ [key |-> key, asks |-> row.asks] = row
    BY <1>1, <2>2 DEF Asked, Unique
  <2>4. key \in Keys(PlanRows(d, lines, Sections, Scope))
    BY <2>1
  <2>5. key \in Children
    BY <2>4, HarnessAssumption
  <2>. QED  BY <1>1, <2>1, <2>3, <2>5
<1>3. CASE d.source # "input_lines"
  <2>1. \A c : PlanRows(d, lines, c, Scope) = {[key |-> s, asks |-> s] : s \in c \cap Scope}
    BY <1>3 DEF PlanRows, ListSections
  <2>2. PICK s \in now \cap Scope : row = [key |-> s, asks |-> s]
    BY <1>1, <2>1
  <2>3. PICK t \in before \cap Scope : key = t
    BY <2>1 DEF Keys
  <2>4. row.asks = key
    BY <1>1, <2>2
  <2>5. row.asks \in Asked
    BY <2>2 DEF Asked
  <2>6. [key |-> key, asks |-> key] \in PlanRows(d, lines, Sections, Scope)
    BY <2>1, <2>3
  <2>7. key \in Keys(PlanRows(d, lines, Sections, Scope))
    BY <2>6 DEF Keys
  <2>8. key \in Children
    BY <2>7, HarnessAssumption
  <2>9. [key |-> key, asks |-> key] \in PlanRows(d, lines, before, Scope)
    BY <2>1, <2>3
  <2>. QED  BY <2>4, <2>5, <2>8, <2>9
<1>. QED  BY <1>2, <1>3

(* What a start makes of the page before the owner.                        *)
LEMMA NewRunIs ==
    ASSUME page \in Pages, corpus \subseteq Sections, NEW wanted \in SUBSET Keys(page.rows),
           NEW selected,
           selected = Selected(page.definition,
                               PlanRows(page.definition, page.lines, corpus, Scope), wanted)
    PROVE  LET r == NewRun(page.definition,
                           PlanRows(page.definition, page.lines, corpus, Scope), selected) IN
           /\ r \in Records
           /\ r.status = "running" /\ r.report = None
           /\ \A n \in DOMAIN r.items :
                 /\ r.items[n].state = "pending"
                 /\ [key |-> n, asks |-> r.items[n].asks] \in page.rows
<1>1. PICK d \in Definitions, lines \in Lines, before \in SUBSET Sections :
         page = [definition |-> d, lines |-> lines, rows |-> PlanRows(d, lines, before, Scope)]
  BY DEF Pages
<1>. DEFINE rows == PlanRows(d, lines, corpus, Scope)
            items == [n \in selected |-> [asks |-> RowOf(rows, n).asks, state |-> "pending"]]
<1>2. /\ page.definition = d /\ page.lines = lines
      /\ page.rows = PlanRows(d, lines, before, Scope)
  BY <1>1
<1>3. selected \subseteq Keys(rows) /\ selected \subseteq Keys(page.rows)
  BY <1>2 DEF Selected
<1>4. ASSUME NEW n \in selected
      PROVE  /\ n \in Children
             /\ RowOf(rows, n).asks \in Asked
             /\ [key |-> n, asks |-> RowOf(rows, n).asks] \in page.rows
  <2>1. n \in Keys(rows) /\ n \in Keys(PlanRows(d, lines, before, Scope))
    BY <1>2, <1>3
  <2>. QED  BY <2>1, <1>2, RowsAgree
<1>5. DOMAIN items = selected /\ selected \subseteq Children
  BY <1>4
<1>6. items \in [DOMAIN items -> [asks : Asked, state : ItemStates]]
  BY <1>4 DEF ItemStates
<1>7. \A n \in selected : items[n].asks = RowOf(rows, n).asks /\ items[n].state = "pending"
  OBVIOUS
<1>8. NewRun(d, rows, selected) = [status |-> "running", definition |-> d, cancel |-> FALSE,
                                   report |-> None, items |-> items]
  BY DEF NewRun
<1>. HIDE DEF items
<1>9. NewRun(d, rows, selected) \in Records
  <2>1. "running" \in ActiveRun \cup EndedRun /\ FALSE \in BOOLEAN /\ None \in Reports \cup {None}
    BY DEF ActiveRun
  <2>2. items \in PerChild([asks : Asked, state : ItemStates])
    BY <1>5, <1>6, PerChildIs
  <2>. HIDE DEF rows
  <2>. QED  BY <1>8, <2>1, <2>2 DEF Records
<1>10. PlanRows(page.definition, page.lines, corpus, Scope) = rows
  BY <1>2
<1>. HIDE DEF rows
<1>11. LET r == NewRun(d, rows, selected) IN
       /\ r.status = "running" /\ r.report = None /\ r.items = items
  BY <1>8
<1>12. \A n \in DOMAIN items :
         items[n].state = "pending" /\ [key |-> n, asks |-> items[n].asks] \in page.rows
  BY <1>4, <1>5, <1>7
<1>. QED  BY <1>2, <1>9, <1>10, <1>11, <1>12

-----------------------------------------------------------------------------
(* What keeps a record good. *)

(* Items may settle until there is a report. *)
LEMMA CarriedOver ==
    ASSUME NEW r \in Records, NEW q \in Records, NEW shown, NEW written, NEW logged,
           NEW signed,
           q.report = r.report, q.definition = r.definition,
           DOMAIN q.items = DOMAIN r.items,
           \A n \in DOMAIN r.items : q.items[n].asks = r.items[n].asks,
           r.report # None => q.items = r.items,
           q.status \in ActiveRun => r.report = None
    PROVE  /\ Previewed(r, shown) => Previewed(q, shown)
           /\ Filed(r, written, logged, signed) => Filed(q, written, logged, signed)
           /\ Cleared(r, signed) => Cleared(q, signed)
<1>1. Version(q) = Version(r)
  BY DEF Version
<1>2. Previewed(r, shown) => Previewed(q, shown)
  BY DEF Previewed
<1>3. Filed(r, written, logged, signed) => Filed(q, written, logged, signed)
  BY <1>1 DEF Filed
<1>4. r.report # None => Submitted(q) = Submitted(r)
  BY DEF Submitted
<1>5. Cleared(r, signed) => Cleared(q, signed)
  BY <1>4 DEF Cleared
<1>. QED  BY <1>2, <1>3, <1>5

(* A pending item is decided without being submitted. *)
LEMMA AccountedMark ==
    ASSUME NEW r \in Records, NEW k \in DOMAIN r.items, NEW s \in ItemStates, NEW executed,
           Accounted(r, executed),
           s \notin {"submitted", "settled"} => k \notin executed,
           s = "submitted" => InFlight(r) = {}
    PROVE  Accounted(Mark(r, k, s), executed)
<1>. DEFINE q == Mark(r, k, s)
<1>1. /\ DOMAIN q.items = DOMAIN r.items
      /\ \A n \in DOMAIN r.items : q.items[n].state = IF n = k THEN s ELSE r.items[n].state
  BY MarkIs
<1>. HIDE DEF q
<1>2. \A n \in DOMAIN q.items :
         q.items[n].state \notin {"submitted", "settled"} => n \notin executed
  BY <1>1 DEF Accounted
<1>3. ASSUME NEW n \in InFlight(q)
      PROVE  n \in InFlight(r) \/ (s = "submitted" /\ n = k)
  <2>1. n \in DOMAIN r.items /\ q.items[n].state = "submitted"
    BY <1>1 DEF InFlight
  <2>2. n # k => r.items[n].state = "submitted"
    BY <1>1, <2>1
  <2>3. n = k => s = "submitted"
    BY <1>1, <2>1
  <2>4. n # k => n \in {m \in DOMAIN r.items : r.items[m].state = "submitted"}
    BY <2>1, <2>2
  <2>. QED  BY <2>3, <2>4, Zenon DEF InFlight
<1>4. \A n, m \in InFlight(q) : n = m
  BY <1>3 DEF Accounted
<1>. QED  BY <1>2, <1>4 DEF Accounted, q

LEMMA AccountedEnded ==
    ASSUME NEW r \in Records, NEW s \in EndedRun, NEW executed, Accounted(r, executed)
    PROVE  Accounted(Ended(r, s), executed)
<1>. DEFINE q == Ended(r, s)
<1>1. /\ DOMAIN q.items = DOMAIN r.items
      /\ \A n \in DOMAIN r.items :
            q.items[n].state =
               IF r.items[n].state = "pending" THEN "not_submitted" ELSE r.items[n].state
  BY EndedIs
<1>. HIDE DEF q
<1>2. InFlight(q) \subseteq InFlight(r)
  BY <1>1 DEF InFlight
<1>. QED  BY <1>1, <1>2 DEF Accounted, q

(* The files of version v are written, over those a writer that died left. *)
Overwrite(written, v, c) ==
    IF v \in DOMAIN written THEN [written EXCEPT ![v] = c] ELSE Append(written, c)

(* What the writing of a report leaves in the files is right for the new   *)
(* record, and for the one stored while the process may still die.         *)
LEMMA FiledByWriting ==
    ASSUME NEW r \in Records, NEW s \in Records, NEW q \in Records,
           NEW written \in Seq(Contents), NEW logged, NEW signed, NEW v, NEW c,
           s.report = r.report, Filed(r, written, logged, signed),
           q.report \in Reports, q.report.version = v, q.report.content = c,
           v = Version(r) + 1, Version(r) \in Nat, c \in Contents,
           \A a \in signed : a[1] \in Nat
    PROVE  /\ Filed(q, Overwrite(written, v, c), logged \cup {<<v, c>>}, signed)
           /\ Filed(s, Overwrite(written, v, c), logged \cup {<<v, c>>}, signed)
           /\ Overwrite(written, v, c) \in Seq(Contents)
<1>. DEFINE after == Overwrite(written, v, c)
<1>1. /\ Version(s) = Version(r) /\ Version(q) = v /\ q.report # None
  BY RecordIs, HarnessAssumption DEF Version
<1>2. Len(written) \in Nat /\ DOMAIN written = 1..Len(written)
  OBVIOUS
<1>3. Len(written) = v - 1 \/ Len(written) = v
  BY DEF Filed
<1>4. /\ after \in Seq(Contents)
      /\ Len(after) = v
      /\ after[v] = c
      /\ \A w \in 1..v - 1 : after[w] = written[w]
  <2>1. CASE Len(written) = v
    BY <1>2, <2>1 DEF Overwrite
  <2>2. CASE Len(written) = v - 1
    BY <1>2, <2>2 DEF Overwrite
  <2>. QED  BY <1>3, <2>1, <2>2
<1>. HIDE DEF after
<1>5. Filed(q, after, logged \cup {<<v, c>>}, signed)
  <2>1. \A a \in signed : a[1] <= v
    BY DEF Filed
  <2>. QED  BY <1>1, <1>4, <2>1 DEF Filed
<1>6. Filed(s, after, logged \cup {<<v, c>>}, signed)
  <2>1. ASSUME s.report # None
        PROVE  /\ after[s.report.version] = s.report.content
               /\ <<s.report.version, s.report.content>> \in logged
    <3>1. s.report \in Reports
      BY <2>1, RecordIs
    <3>2. s.report.version \in Nat \ {0}
      BY <3>1 DEF Reports
    <3>3. s.report.version = Version(s)
      BY <2>1 DEF Version
    <3>4. s.report.version \in 1..v - 1 /\ s.report = r.report /\ r.report # None
      BY <1>1, <2>1, <3>2, <3>3
    <3>. QED  BY <1>4, <3>4 DEF Filed
  <2>2. Len(after) = Version(s) + 1
    BY <1>1, <1>4
  <2>. QED  BY <1>1, <2>1, <2>2 DEF Filed
<1>. QED  BY <1>4, <1>5, <1>6 DEF after

-----------------------------------------------------------------------------
(* The initial states, and steps of people and of the world. *)

LEMMA InitSafe == Init => IInv
<1>. SUFFICES ASSUME Init
              PROVE  IInv
  OBVIOUS
<1>. USE DEF Init, L!RInit
<1>1. TypeOK
  <2>1. child \in [Children -> L!States]
    BY DEF L!States
  <2>2. /\ files \in Seq(Contents)
        /\ log \subseteq (Nat \ {0}) \X Contents
        /\ 0 \in 0..MaxDisruptions
    BY HarnessAssumption
  <2>3. directory \subseteq Definitions /\ corpus \subseteq Sections
    OBVIOUS
  <2>. QED  BY <2>1, <2>2, <2>3 DEF TypeOK
<1>2. Stands /\ Attended
  BY DEF Stands, Attended
<1>. QED  BY <1>1, <1>2 DEF IInv

LEMMA PreviewSafe == IInv /\ Preview => IInv'
<1>. SUFFICES ASSUME IInv, Preview
              PROVE  IInv'
  OBVIOUS
<1>. USE DEF Preview
<1>1. /\ stored = None /\ pc = "none" /\ run = None
      /\ UNCHANGED <<world, built, pc, run, stored, reports, memory, children>>
  BY DEF IInv, Stands, TypeOK
<1>2. page' \in Pages
  <2>1. PICK d \in Loaded(directory), lines \in Lines :
           page' = [definition |-> d, lines |-> lines, rows |-> PlanRows(d, lines, corpus, Scope)]
    OBVIOUS
  <2>2. d \in Definitions /\ corpus \in SUBSET Sections
    BY DEF Loaded, IInv, TypeOK
  <2>. QED  BY <2>1, <2>2 DEF Pages
<1>. HIDE DEF Preview
<1>3. TypeOK'
  BY <1>1 DEF IInv, TypeOK, world, reports, memory, children
<1>4. Stands' /\ Attended'
  BY <1>1 DEF IInv, Stands, Attended, world, reports, memory, children
<1>. QED  BY <1>1, <1>2, <1>3, <1>4 DEF IInv, reports, children

LEMMA StartSafe ==
    ASSUME IInv, page # None, NEW wanted \in SUBSET Keys(page.rows), Start(wanted)
    PROVE  IInv'
<1>. DEFINE rows == PlanRows(page.definition, page.lines, corpus, Scope)
            selected == Selected(page.definition, rows, wanted)
            r == NewRun(page.definition, rows, selected)
<1>1. /\ built /\ stored = None /\ pc = "none" /\ run = None
      /\ run' = r /\ stored' = r /\ pc' = "ready"
      /\ UNCHANGED <<world, page, built, reports, memory, children>>
  BY DEF IInv, Stands, TypeOK, Start, Serving, Save
<1>2. page \in Pages /\ corpus \subseteq Sections
  BY DEF IInv, TypeOK
<1>3. /\ r \in Records /\ r # None
      /\ r.status = "running" /\ r.report = None
      /\ \A n \in DOMAIN r.items : /\ r.items[n].state = "pending"
                                   /\ [key |-> n, asks |-> r.items[n].asks] \in page.rows
  <2>. HIDE DEF rows, selected
  <2>1. r \in Records /\ r.status = "running" /\ r.report = None
        /\ \A n \in DOMAIN r.items : /\ r.items[n].state = "pending"
                                     /\ [key |-> n, asks |-> r.items[n].asks] \in page.rows
    BY <1>2, NewRunIs DEF rows, selected
  <2>2. r # None
    BY <2>1, HarnessAssumption
  <2>. QED  BY <2>1, <2>2
<1>. HIDE DEF r
<1>4. TypeOK'
  BY <1>1, <1>3 DEF IInv, TypeOK, world, reports, memory, children
<1>5. \A n \in Children : child[n] # "active"
  BY <1>1 DEF IInv, Attended
<1>6. files = <<>> /\ approved = {} /\ ran = {}
  BY <1>1 DEF IInv
<1>7. Good(r)
  <2>1. Previewed(r, page)
    BY <1>3 DEF Previewed
  <2>2. Filed(r, files, log, approved)
    BY <1>3, <1>6 DEF Filed, Version
  <2>3. Cleared(r, approved)
    BY <1>3 DEF Cleared
  <2>4. InFlight(r) = {}
    BY <1>3 DEF InFlight
  <2>5. Accounted(r, ran)
    BY <1>6, <2>4 DEF Accounted
  <2>. QED  BY <2>1, <2>2, <2>3, <2>5 DEF Good
<1>8. Good(stored)' /\ Good(run)'
  BY <1>1, <1>7 DEF Good, reports, children
<1>9. Stands'
  <2>1. InFlight(r) = {}
    BY <1>3 DEF InFlight
  <2>. QED  BY <1>1, <1>3, <2>1 DEF Stands, ActiveRun
<1>10. Attended'
  BY <1>1, <1>5 DEF IInv, Attended, children
<1>. QED  BY <1>1, <1>2, <1>3, <1>4, <1>8, <1>9, <1>10 DEF IInv

(* A stop leaves no child active that was not, and none with a worker      *)
(* otherwise than it was.                                                  *)
Calmed ==
    /\ child' \in [Children -> L!States]
    /\ asked' \subseteq Children
    /\ UNCHANGED <<running, ran>>
    /\ \A n \in Children : child'[n] = "active" => child[n] = "active"
    /\ \A n \in running : child'[n] = child[n]

LEMMA Unchanged == IInv /\ UNCHANGED children => Calmed
  BY DEF IInv, TypeOK, Calmed, children

LEMMA StopCalms ==
    ASSUME IInv, NEW n \in Children, StopRun(n)
    PROVE  Calmed
<1>1. child \in [Children -> L!States] /\ asked \subseteq Children
  BY DEF IInv, TypeOK
<1>2. CASE UNCHANGED children
  BY <1>2, Unchanged
<1>3. CASE child[n] \notin L!Settled /\ n \in running
  BY <1>1, <1>3 DEF StopRun, L!AskStop, Calmed
<1>4. CASE child[n] \notin L!Settled /\ n \notin running
  <2>1. child' = [child EXCEPT ![n] = "cancelled"] /\ UNCHANGED <<asked, running, ran>>
    BY <1>4 DEF StopRun
  <2>. QED  BY <1>1, <1>4, <2>1 DEF Calmed, L!States
<1>. QED  BY <1>2, <1>3, <1>4 DEF StopRun

LEMMA StopChildCalms ==
    ASSUME IInv, NEW n \in Children, StopChild(n)
    PROVE  Calmed /\ sent' \subseteq Children
<1>1. sent' \subseteq Children
  BY DEF StopChild, IInv, TypeOK
<1>. QED  BY <1>1, Unchanged, StopCalms DEF StopChild

(* Steps that touch no record, no file and no runner.                      *)
LEMMA CalmSafe ==
    ASSUME IInv, Calmed,
           UNCHANGED <<directory, corpus, permitted, page, built, pc, run, stored, reports,
                       disruptions>>,
           {started', fired'} \subseteq BOOLEAN, sent' \subseteq Children
    PROVE  IInv'
<1>1. TypeOK'
  BY DEF IInv, TypeOK, Calmed, reports
<1>2. Attended'
  BY DEF IInv, TypeOK, Attended, Calmed
<1>3. Stands'
  BY DEF IInv, Stands
<1>4. (stored # None => Good(stored)') /\ (run # None => Good(run)')
  BY DEF IInv, Good, Calmed, reports
<1>. QED  BY <1>1, <1>2, <1>3, <1>4 DEF IInv, reports, Calmed

LEMMA CancelSafe == IInv /\ Cancel => IInv'
<1>. SUFFICES ASSUME IInv, Cancel
              PROVE  IInv'
  OBVIOUS
<1>. DEFINE r == [run EXCEPT !.cancel = TRUE, !.status = "cancelling"]
<1>1. /\ built /\ pc \in {"ready", "waiting"} /\ run = stored /\ run # None /\ run \in Records
      /\ run.status \in ActiveRun /\ Good(run)
      /\ run' = r /\ stored' = r
      /\ UNCHANGED <<world, page, built, pc, reports, started, fired>>
  BY DEF IInv, Stands, TypeOK, Cancel, Serving, Free, Save
<1>2. /\ r = [status |-> "cancelling", definition |-> run.definition, cancel |-> TRUE,
              report |-> run.report, items |-> run.items]
      /\ r \in Records /\ r # None
  <2>1. r = [status |-> "cancelling", definition |-> run.definition, cancel |-> TRUE,
             report |-> run.report, items |-> run.items]
    <3>1. run \in Records
      BY <1>1
    <3>. QED  BY <3>1, CancelExcept, Zenon
  <2>2. "cancelling" \in ActiveRun \cup EndedRun /\ TRUE \in BOOLEAN
    BY DEF ActiveRun
  <2>. HIDE DEF r
  <2>3. r \in Records
    <3>1. /\ run.definition \in Definitions /\ run.report \in Reports \cup {None}
          /\ run.items \in PerChild([asks : Asked, state : ItemStates])
      BY <1>1 DEF Records
    <3>. QED  BY <2>1, <2>2, <3>1 DEF Records
  <2>. QED  BY <2>1, <2>3, HarnessAssumption
<1>. HIDE DEF r
<1>3. Calmed /\ sent' \subseteq Children
  <2>1. CASE InFlight(run) # {}
    <3>1. PICK n \in InFlight(run) : StopChild(n)
      BY <2>1 DEF Cancel
    <3>2. n \in Children
      BY <1>1, RecordIs DEF InFlight
    <3>. QED  BY <3>1, <3>2, StopChildCalms
  <2>2. CASE InFlight(run) = {}
    <3>1. UNCHANGED <<sent, children>>
      BY <2>2 DEF Cancel
    <3>. QED  BY <3>1, Unchanged DEF IInv, TypeOK
  <2>. QED  BY <2>1, <2>2
<1>4. TypeOK'
  BY <1>1, <1>2, <1>3 DEF IInv, TypeOK, world, reports, Calmed
<1>5. /\ r.status = "cancelling" /\ r.report = run.report /\ r.definition = run.definition
      /\ r.items = run.items /\ InFlight(r) = InFlight(run) /\ Submitted(r) = Submitted(run)
  BY <1>2 DEF InFlight, Submitted
<1>6. Good(r)
  <2>1. run.report = None
    BY <1>1 DEF Good, Cleared
  <2>2. Previewed(r, page) /\ Filed(r, files, log, approved) /\ Cleared(r, approved)
    BY <1>1, <1>2, <1>5, <2>1, CarriedOver DEF Good
  <2>3. Accounted(r, ran)
    BY <1>1, <1>5 DEF Good, Accounted
  <2>. QED  BY <2>2, <2>3 DEF Good
<1>7. Good(stored)' /\ Good(run)'
  BY <1>1, <1>3, <1>6 DEF Good, reports, Calmed
<1>8. Stands'
  BY <1>1, <1>2, <1>5 DEF IInv, Stands, ActiveRun
<1>9. Attended'
  BY <1>1, <1>2, <1>3, <1>5 DEF IInv, TypeOK, Attended, Calmed
<1>10. page' \in Pages \cup {None}
  BY <1>1 DEF IInv
<1>. QED  BY <1>1, <1>2, <1>4, <1>7, <1>8, <1>9, <1>10 DEF IInv

-----------------------------------------------------------------------------
(* Reports. *)

(* A report is written of a record that differs from the stored one in the *)
(* items that were given up, at most.                                      *)
LEMMA Written ==
    ASSUME IInv, NEW r \in Records, stored # None, r.report = stored.report,
           r.status \notin ActiveRun, Good(r), WriteReport(r), UNCHANGED <<page, ran>>
    PROVE  /\ run' \in Records /\ run' # None
           /\ run'.status = r.status /\ run'.items = r.items
           /\ Good(stored)' /\ Good(run)'
           /\ files' \in Seq(Contents) /\ log' \subseteq (Nat \ {0}) \X Contents
           /\ pc' = "written" /\ stored' = stored /\ approved' = approved
<1>. DEFINE q == Reported(r)
            c == Content(r)
            v == q.report.version
<1>1. /\ stored \in Records /\ Good(stored) /\ child \in [Children -> L!States]
      /\ files \in Seq(Contents) /\ log \subseteq (Nat \ {0}) \X Contents
      /\ \A a \in approved : a[1] \in Nat
  BY DEF IInv, TypeOK
<1>2. /\ q \in Records /\ q.status = r.status /\ q.definition = r.definition /\ q.items = r.items
      /\ q.report \in Reports /\ v = Version(r) + 1 /\ q.report.content = c
      /\ DOMAIN q.report.statuses = Submitted(r)
      /\ q.report.released = ~NeedsApproval(r)
      /\ Version(r) \in Nat
  BY <1>1, ReportedIs
<1>3. c \in Contents
  BY <1>1, ContentType
<1>4. /\ run' = q /\ pc' = "written" /\ stored' = stored /\ approved' = approved
      /\ files' = IF v \in DOMAIN files THEN [files EXCEPT ![v] = c] ELSE Append(files, c)
      /\ log' = log \cup {<<v, c>>}
  BY <1>2 DEF WriteReport
<1>5. NeedsApproval(r) <=> r.definition.approval \/ Classified(c)
  BY DEF NeedsApproval
<1>. HIDE DEF q, c, v
<1>6. /\ Filed(q, files', log', approved) /\ Filed(stored, files', log', approved)
      /\ files' \in Seq(Contents)
  <2>1. Filed(r, files, log, approved) /\ stored.report = r.report
    BY DEF Good
  <2>2. /\ stored \in Records /\ q \in Records /\ files \in Seq(Contents)
        /\ q.report \in Reports /\ q.report.content = c /\ q.report.version = v
    BY <1>1, <1>2 DEF v
  <2>3. v = Version(r) + 1 /\ Version(r) \in Nat /\ \A a \in approved : a[1] \in Nat
    BY <1>1, <1>2
  <2>4. files' = Overwrite(files, v, c)
    BY <1>4 DEF Overwrite
  <2>5. /\ Filed(q, Overwrite(files, v, c), log \cup {<<v, c>>}, approved)
        /\ Filed(stored, Overwrite(files, v, c), log \cup {<<v, c>>}, approved)
        /\ Overwrite(files, v, c) \in Seq(Contents)
    BY <1>3, <2>1, <2>2, <2>3, FiledByWriting
  <2>. QED  BY <1>4, <2>4, <2>5
<1>7. log' \subseteq (Nat \ {0}) \X Contents
  BY <1>1, <1>2, <1>3, <1>4
<1>8. Previewed(q, page)
  BY <1>2 DEF Good, Previewed
<1>9. Accounted(q, ran)
  BY <1>2 DEF Good, Accounted, InFlight
<1>10. Cleared(q, approved)
  <2>1. Submitted(q) = Submitted(r)
    BY <1>2 DEF Submitted
  <2>2. q.report.released => ~q.definition.approval /\ ~Classified(q.report.content)
    BY <1>2, <1>5
  <2>. QED  BY <1>2, <2>1, <2>2 DEF Cleared
<1>11. Good(run)'
  BY <1>4, <1>6, <1>8, <1>9, <1>10 DEF Good
<1>12. Good(stored)'
  BY <1>1, <1>4, <1>6 DEF Good
<1>13. run' \in Records /\ run' # None
  BY <1>2, <1>4, HarnessAssumption
<1>. QED  BY <1>2, <1>4, <1>6, <1>7, <1>11, <1>12, <1>13

(* After a report is written its writer is about to store it.              *)
LEMMA WriteSafe ==
    ASSUME IInv, NEW r \in Records, stored # None, r.report = stored.report,
           r.status \notin ActiveRun, Good(r), WriteReport(r), Follows(r, stored),
           pc \in {"none", "closing"}, built',
           UNCHANGED <<world, page, memory, children>>
    PROVE  IInv'
<1>1. /\ run' \in Records /\ run' # None
      /\ run'.status = r.status /\ run'.items = r.items
      /\ Good(stored)' /\ Good(run)'
      /\ files' \in Seq(Contents) /\ log' \subseteq (Nat \ {0}) \X Contents
      /\ pc' = "written" /\ stored' = stored /\ approved' = approved
  BY Written DEF children
<1>2. TypeOK'
  <2>1. built' \in BOOLEAN
    OBVIOUS
  <2>. QED  BY <1>1, <2>1 DEF IInv, TypeOK, world, memory, children
<1>3. Follows(run', stored')
  BY <1>1 DEF Follows
<1>4. Stands'
  BY <1>1, <1>3 DEF IInv, Stands
<1>5. Attended'
  BY <1>1 DEF IInv, Attended, children
<1>. QED  BY <1>1, <1>2, <1>4, <1>5 DEF IInv

LEMMA RegenerateSafe == IInv /\ Regenerate => IInv'
<1>. SUFFICES ASSUME IInv, Regenerate
              PROVE  IInv'
  OBVIOUS
<1>1. /\ stored # None /\ stored \in Records /\ Good(stored)
      /\ stored.status \notin ActiveRun /\ WriteReport(stored)
      /\ pc = "none" /\ built'
      /\ UNCHANGED <<world, page, memory, children>>
  BY DEF Regenerate, IInv, TypeOK, Serving
<1>2. Follows(stored, stored)
  BY DEF Follows
<1>. QED  BY <1>1, <1>2, WriteSafe

LEMMA ReportSafe == IInv /\ Report => IInv'
<1>. SUFFICES ASSUME IInv, Report
              PROVE  IInv'
  OBVIOUS
<1>1. /\ pc = "closing" /\ stored # None /\ run = stored /\ stored \in Records /\ Good(run)
      /\ run.status \notin ActiveRun /\ WriteReport(run) /\ built'
      /\ UNCHANGED <<world, page, memory, children>>
  BY DEF Report, IInv, Stands, TypeOK
<1>2. Follows(run, stored)
  BY <1>1 DEF Follows
<1>. QED  BY <1>1, <1>2, WriteSafe

LEMMA EndedGood ==
    ASSUME NEW r \in Records, NEW s \in EndedRun, Good(r), r.report = None
    PROVE  /\ Ended(r, s) \in Records /\ Good(Ended(r, s)) /\ Ended(r, s).report = None
           /\ Ended(r, s).status \notin ActiveRun
           /\ Follows(Ended(r, s), r)
<1>. DEFINE e == Ended(r, s)
<1>1. /\ e \in Records /\ e.status = s /\ e.definition = r.definition /\ e.report = r.report
      /\ DOMAIN e.items = DOMAIN r.items
      /\ \A n \in DOMAIN r.items : e.items[n].asks = r.items[n].asks
  BY EndedIs
<1>2. Accounted(e, ran)
  BY AccountedEnded DEF Good
<1>3. e.status \notin ActiveRun /\ Follows(e, r)
  <2>1. e.status \notin ActiveRun
    BY <1>1 DEF EndedRun, ActiveRun
  <2>2. Follows(e, r)
    BY EndedIs DEF Follows
  <2>. QED  BY <2>1, <2>2
<1>. HIDE DEF e
<1>4. Previewed(e, page) /\ Filed(e, files, log, approved) /\ Cleared(e, approved)
  BY <1>1, <1>3, CarriedOver DEF Good
<1>. QED  BY <1>1, <1>2, <1>3, <1>4 DEF Good, e

LEMMA BuildSafe == IInv /\ Build => IInv'
<1>. SUFFICES ASSUME IInv, Build
              PROVE  IInv'
  OBVIOUS
<1>1. /\ pc = "none" /\ run = None /\ built'
      /\ UNCHANGED <<world, page, memory, children>>
  BY DEF Build, IInv, Stands, TypeOK
<1>2. CASE stored # None /\ stored.status \in ActiveRun
  <2>. DEFINE e == Ended(stored, "interrupted")
  <2>1. WriteReport(e) /\ stored \in Records /\ Good(stored) /\ stored.report = None
    BY <1>2 DEF Build, IInv, TypeOK, Good, Cleared
  <2>2. /\ e \in Records /\ Good(e) /\ e.report = stored.report /\ e.status \notin ActiveRun
        /\ Follows(e, stored)
    BY <2>1, EndedGood DEF EndedRun
  <2>. HIDE DEF e
  <2>. QED  BY <1>1, <1>2, <2>1, <2>2, WriteSafe
<1>3. CASE ~(stored # None /\ stored.status \in ActiveRun)
  <2>1. UNCHANGED <<pc, run, stored, reports>>
    BY <1>3 DEF Build
  <2>2. TypeOK'
    BY <1>1, <2>1 DEF IInv, TypeOK, world, reports, memory, children
  <2>3. Stands' /\ Attended'
    BY <1>1, <1>3, <2>1 DEF IInv, Stands, Attended, children
  <2>4. stored # None => Good(stored)'
    BY <1>1, <2>1 DEF IInv, Good, reports, children
  <2>. QED  BY <1>1, <2>1, <2>2, <2>3, <2>4 DEF IInv, reports, children
<1>. QED  BY <1>2, <1>3

LEMMA VerdictExcept ==
    ASSUME NEW p \in Reports, NEW d, NEW b
    PROVE  [p EXCEPT !.decision = d, !.released = b]
              = [version |-> p.version, content |-> p.content, statuses |-> p.statuses,
                 decision |-> d, released |-> b]
<1>. DEFINE q == [p EXCEPT !.decision = d]
<1>1. q = [version |-> p.version, content |-> p.content, statuses |-> p.statuses,
           decision |-> d, released |-> p.released]
  BY DEF Reports
<1>. HIDE DEF q
<1>2. [q EXCEPT !.released = b]
         = [version |-> p.version, content |-> p.content, statuses |-> p.statuses,
            decision |-> d, released |-> b]
  BY <1>1
<1>. QED  BY <1>2 DEF q

Verdict(p, verdict, b) ==
    [version |-> p.version, content |-> p.content, statuses |-> p.statuses,
     decision |-> verdict, released |-> b]

LEMMA DecideExcept ==
    ASSUME NEW r \in Records, r.report \in Reports, NEW verdict, NEW b
    PROVE  [r EXCEPT !.report.decision = verdict, !.report.released = b]
              = [status |-> r.status, definition |-> r.definition, cancel |-> r.cancel,
                 report |-> Verdict(r.report, verdict, b), items |-> r.items]
<1>. DEFINE x == [r EXCEPT !.report = [@ EXCEPT !.decision = verdict]]
            y == [r.report EXCEPT !.decision = verdict]
<1>1. x = [status |-> r.status, definition |-> r.definition, cancel |-> r.cancel,
           report |-> y, items |-> r.items]
  BY RecordIs
<1>2. [r EXCEPT !.report.decision = verdict, !.report.released = b]
         = [x EXCEPT !.report = [@ EXCEPT !.released = b]]
  BY Zenon
<1>3. [y EXCEPT !.released = b] = Verdict(r.report, verdict, b)
  BY VerdictExcept, Zenon DEF Verdict
<1>. HIDE DEF x, y
<1>4. [x EXCEPT !.report = [@ EXCEPT !.released = b]]
         = [status |-> r.status, definition |-> r.definition, cancel |-> r.cancel,
            report |-> [y EXCEPT !.released = b], items |-> r.items]
  BY <1>1
<1>. QED  BY <1>2, <1>3, <1>4

(* A decision changes the decision and the release, and nothing else.      *)
LEMMA DecideIs ==
    ASSUME NEW r \in Records, r.report # None, NEW verdict \in {"approved", "rejected"},
           NEW b \in BOOLEAN, NEW q,
           q = [status |-> r.status, definition |-> r.definition, cancel |-> r.cancel,
                report |-> Verdict(r.report, verdict, b), items |-> r.items]
    PROVE  /\ q \in Records
           /\ q.status = r.status /\ q.definition = r.definition /\ q.items = r.items
           /\ q.report # None
           /\ q.report.version = r.report.version /\ q.report.content = r.report.content
           /\ q.report.statuses = r.report.statuses
           /\ q.report.released = b
           /\ Version(q) = r.report.version
<1>1. r.report \in Reports
  BY RecordIs
<1>2. Verdict(r.report, verdict, b) \in Reports
  BY <1>1 DEF Reports, Verdict
<1>3. q \in Records
  <2>1. /\ r.status \in ActiveRun \cup EndedRun /\ r.definition \in Definitions
        /\ r.cancel \in BOOLEAN
        /\ r.items \in PerChild([asks : Asked, state : ItemStates])
    BY DEF Records
  <2>. QED  BY <1>2, <2>1 DEF Records
<1>4. q.report = Verdict(r.report, verdict, b)
  OBVIOUS
<1>5. q.report # None
  BY <1>2, <1>4, HarnessAssumption
<1>6. /\ q.report.version = r.report.version /\ q.report.content = r.report.content
      /\ q.report.statuses = r.report.statuses /\ q.report.released = b
  BY <1>4 DEF Verdict
<1>. QED  BY <1>3, <1>5, <1>6 DEF Version

LEMMA DecideSafe ==
    ASSUME IInv, NEW u \in Deciders, NEW verdict \in {"approved", "rejected"}, Decide(u, verdict)
    PROVE  IInv'
<1>. DEFINE q == stored'
            b == verdict = "approved"
            v == stored.report.version
<1>1. /\ stored \in Records /\ stored # None /\ stored.report # None /\ u # Owner /\ Free
      /\ stored.report.decision = "pending"
      /\ Good(stored)
      /\ UNCHANGED <<world, page, built, pc, run, files, log, memory, children>>
  BY DEF IInv, TypeOK, Decide, Serving
<1>2. pc = "none" /\ run = None /\ stored.status \notin ActiveRun
  BY <1>1 DEF IInv, Stands, TypeOK, Free, Good, Cleared
<1>3. q = [status |-> stored.status, definition |-> stored.definition, cancel |-> stored.cancel,
           report |-> Verdict(stored.report, verdict, b), items |-> stored.items]
  <2>1. q = [stored EXCEPT !.report.decision = verdict, !.report.released = b]
    BY DEF Decide
  <2>2. stored.report \in Reports
    BY <1>1, RecordIs
  <2>3. stored \in Records
    BY <1>1
  <2>4. [stored EXCEPT !.report.decision = verdict, !.report.released = b]
           = [status |-> stored.status, definition |-> stored.definition, cancel |-> stored.cancel,
              report |-> Verdict(stored.report, verdict, b), items |-> stored.items]
    BY <2>2, <2>3, DecideExcept, ZenonT(30)
  <2>. QED  BY <2>1, <2>4, Zenon
<1>4. b \in BOOLEAN
  OBVIOUS
<1>5. approved' = IF b THEN approved \cup {<<v, u>>} ELSE approved
  BY DEF Decide
<1>. HIDE DEF b
<1>6. /\ q \in Records /\ q # None
      /\ q.status = stored.status /\ q.definition = stored.definition /\ q.items = stored.items
      /\ q.report # None
      /\ q.report.version = v /\ q.report.content = stored.report.content
      /\ q.report.statuses = stored.report.statuses
      /\ q.report.released = b
      /\ Version(q) = v
  <2>1. stored \in Records /\ stored.report # None
    BY <1>1
  <2>. HIDE DEF q
  <2>. QED  BY <1>3, <1>4, <2>1, DecideIs, HarnessAssumption
<1>. HIDE DEF q
<1>7. v \in Nat \ {0} /\ Version(stored) = v
  BY <1>1, RecordIs DEF Reports, Version
<1>8. approved \subseteq approved' /\ \A a \in approved' : a \in approved \/ a = <<v, u>>
  BY <1>5
<1>9. Previewed(q, page) /\ Accounted(q, ran)
  BY <1>1, <1>6 DEF Good, Previewed, Accounted, InFlight
<1>10. Filed(q, files, log, approved')
  <2>1. Filed(stored, files, log, approved)
    BY <1>1 DEF Good
  <2>2. \A a \in approved' : a[1] <= v
    BY <1>7, <1>8, <2>1 DEF Filed
  <2>. QED  BY <1>1, <1>6, <1>7, <2>1, <2>2 DEF Filed
<1>11. Cleared(q, approved')
  <2>1. Submitted(q) = Submitted(stored)
    BY <1>6 DEF Submitted
  <2>2. b => <<v, u>> \in approved'
    BY <1>5
  <2>. QED  BY <1>1, <1>2, <1>6, <2>1, <2>2 DEF Good, Cleared
<1>12. Good(stored)'
  BY <1>1, <1>9, <1>10, <1>11 DEF Good, children, q
<1>13. TypeOK'
  <2>1. approved' \subseteq (Nat \ {0}) \X Deciders
    BY <1>5, <1>7 DEF IInv, TypeOK
  <2>. QED  BY <1>1, <1>6, <2>1 DEF IInv, TypeOK, world, memory, children, q
<1>14. Stands' /\ Attended'
  BY <1>1, <1>2, <1>6 DEF IInv, Stands, Attended, children, q
<1>. QED  BY <1>1, <1>2, <1>6, <1>12, <1>13, <1>14 DEF IInv, q

-----------------------------------------------------------------------------
(* The runner. *)

LEMMA MarkGood ==
    ASSUME NEW r \in Records, Good(r), r.report = None, NEW k \in DOMAIN r.items,
           NEW s \in ItemStates,
           s \notin {"submitted", "settled"} => k \notin ran,
           s = "submitted" => InFlight(r) = {}
    PROVE  LET m == Mark(r, k, s) IN
           /\ m \in Records /\ m # None /\ Good(m)
           /\ m.status = r.status /\ m.report = None
           /\ DOMAIN m.items = DOMAIN r.items
           /\ \A n \in DOMAIN r.items : m.items[n].state = IF n = k THEN s ELSE r.items[n].state
           /\ s # "submitted" => InFlight(m) \subseteq InFlight(r) \ {k}
<1>. DEFINE m == Mark(r, k, s)
<1>1. /\ m \in Records
      /\ m.status = r.status /\ m.definition = r.definition /\ m.report = r.report
      /\ DOMAIN m.items = DOMAIN r.items
      /\ \A n \in DOMAIN r.items :
            /\ m.items[n].asks = r.items[n].asks
            /\ m.items[n].state = IF n = k THEN s ELSE r.items[n].state
  BY MarkIs
<1>2. Accounted(m, ran)
  BY AccountedMark DEF Good
<1>. HIDE DEF m
<1>3. Previewed(m, page) /\ Filed(m, files, log, approved) /\ Cleared(m, approved)
  BY <1>1, CarriedOver DEF Good
<1>4. Good(m)
  BY <1>2, <1>3 DEF Good
<1>5. s # "submitted" => InFlight(m) \subseteq InFlight(r) \ {k}
  BY <1>1 DEF InFlight
<1>6. m # None
  BY <1>1, HarnessAssumption
<1>. QED  BY <1>1, <1>4, <1>5, <1>6 DEF m

(* In the loop the record on disk is the one in memory, with no report, no *)
(* item in flight, and no child of a pending item at work.                 *)
LEMMA InLoop ==
    ASSUME IInv, pc = "loop"
    PROVE  /\ run \in Records /\ run # None /\ run = stored /\ Good(run)
           /\ run.status \in ActiveRun /\ run.report = None /\ InFlight(run) = {}
           /\ built
           /\ \A n \in Pending(run) : n \in Children /\ child[n] # "active" /\ n \notin ran
<1>1. /\ run \in Records /\ run # None /\ run = stored /\ Good(run)
      /\ run.status \in ActiveRun /\ InFlight(run) = {} /\ built
  BY DEF IInv, TypeOK, Stands
<1>2. run.report = None
  BY <1>1 DEF Good, Cleared
<1>3. ASSUME NEW n \in Pending(run)
      PROVE  n \in Children /\ child[n] # "active" /\ n \notin ran
  <2>1. n \in DOMAIN run.items /\ run.items[n].state = "pending"
    BY DEF Pending
  <2>2. n \in Children
    BY <1>1, <2>1, RecordIs
  <2>3. n \notin ran
    BY <1>1, <2>1 DEF Good, Accounted
  <2>4. child[n] # "active"
    BY <1>1, <2>1, <2>2 DEF IInv, Attended
  <2>. QED  BY <2>2, <2>3, <2>4
<1>. QED  BY <1>1, <1>2, <1>3

(* An item is given up in the loop, while its child may have come about.   *)
LEMMA GivenUp ==
    ASSUME IInv, pc = "loop", Pending(run) # {},
           NEW s \in {"submit_refused", "submit_failed"},
           Save(Mark(run, NextItem(run), s)),
           child' \in [Children -> L!States], asked' \subseteq Children,
           UNCHANGED <<world, page, built, pc, reports, memory, running, ran>>,
           \A n \in Children : child'[n] # child[n] => n = NextItem(run) /\ s = "submit_failed"
    PROVE  IInv'
<1>. DEFINE k == NextItem(run)
            m == Mark(run, k, s)
<1>1. /\ run \in Records /\ run # None /\ run = stored /\ Good(run)
      /\ run.status \in ActiveRun /\ run.report = None /\ InFlight(run) = {} /\ built
      /\ \A n \in Pending(run) : n \in Children /\ child[n] # "active" /\ n \notin ran
  BY InLoop
<1>2. k \in Pending(run) /\ k \in DOMAIN run.items /\ k \notin ran
  BY <1>1, NextIsPending DEF Pending
<1>3. /\ m \in Records /\ m # None /\ Good(m)
      /\ m.status = run.status
      /\ DOMAIN m.items = DOMAIN run.items
      /\ \A n \in DOMAIN run.items : m.items[n].state = IF n = k THEN s ELSE run.items[n].state
      /\ InFlight(m) = {}
  <2>1. s \in ItemStates
    BY DEF ItemStates
  <2>. HIDE DEF k
  <2>. QED  BY <1>1, <1>2, <2>1, MarkGood
<1>4. run' = m /\ stored' = m
  BY DEF Save
<1>. HIDE DEF k, m
<1>5. TypeOK'
  BY <1>1, <1>3, <1>4 DEF IInv, TypeOK, world, reports, memory
<1>6. Good(run)' /\ Good(stored)'
  BY <1>3, <1>4 DEF Good, reports
<1>7. Stands'
  BY <1>1, <1>3, <1>4 DEF IInv, Stands
<1>8. Attended'
  <2>1. ASSUME NEW n \in Children, child'[n] = "active"
        PROVE  n \in DOMAIN m.items /\ m.items[n].state \in {"submitted", "submit_failed"}
    <3>1. CASE n = k
      <4>1. child[n] # "active"
        BY <1>1, <1>2, <3>1
      <4>2. s = "submit_failed"
        BY <2>1, <4>1 DEF k
      <4>. QED  BY <1>2, <1>3, <3>1, <4>2
    <3>2. CASE n # k
      <4>1. child[n] = "active"
        BY <2>1, <3>2 DEF k
      <4>2. n \in DOMAIN run.items /\ run.items[n].state \in {"submitted", "submit_failed"}
        BY <1>1, <4>1 DEF IInv, Attended
      <4>. QED  BY <1>3, <3>2, <4>2
    <3>. QED  BY <3>1, <3>2
  <2>2. \A n \in running : child'[n] = "active"
    <3>1. ASSUME NEW n \in running
          PROVE  child'[n] = "active"
      <4>1. n \in Children /\ child[n] = "active" /\ n \in ran
        BY DEF IInv, TypeOK, Attended
      <4>2. n # k
        BY <1>1, <1>2, <4>1
      <4>. QED  BY <4>1, <4>2 DEF k
    <3>. QED  BY <3>1
  <2>. QED  BY <1>3, <1>4, <2>1, <2>2 DEF IInv, Attended
<1>. QED  BY <1>3, <1>4, <1>5, <1>6, <1>7, <1>8 DEF IInv

LEMMA RefuseItemSafe == IInv /\ RefuseItem => IInv'
<1>. SUFFICES ASSUME IInv, RefuseItem
              PROVE  IInv'
  OBVIOUS
<1>1. /\ pc = "loop" /\ Pending(run) # {}
      /\ Save(Mark(run, NextItem(run), "submit_refused"))
      /\ UNCHANGED <<world, page, built, pc, reports, memory, children>>
  BY DEF RefuseItem
<1>2. child' \in [Children -> L!States] /\ asked' \subseteq Children /\ UNCHANGED <<child, running, ran>>
  BY <1>1 DEF IInv, TypeOK, children
<1>. QED  BY <1>1, <1>2, GivenUp

LEMMA SubmitFailsSafe == IInv /\ SubmitFails => IInv'
<1>. SUFFICES ASSUME IInv, SubmitFails
              PROVE  IInv'
  OBVIOUS
<1>1. /\ pc = "loop" /\ Pending(run) # {}
      /\ Save(Mark(run, NextItem(run), "submit_failed"))
      /\ UNCHANGED <<world, page, built, pc, reports, memory>>
  BY DEF SubmitFails
<1>2. CASE UNCHANGED children
  <2>1. child' \in [Children -> L!States] /\ asked' \subseteq Children /\ UNCHANGED <<child, running, ran>>
    BY <1>2 DEF IInv, TypeOK, children
  <2>. QED  BY <1>1, <2>1, GivenUp
<1>3. CASE L!Submit(NextItem(run)) /\ UNCHANGED <<running, ran>>
  <2>1. child \in [Children -> L!States] /\ asked \subseteq Children
    BY DEF IInv, TypeOK
  <2>2. /\ child' \in [Children -> L!States] /\ asked' \subseteq Children
        /\ \A n \in Children : child'[n] # child[n] => n = NextItem(run)
    BY <1>3, <2>1 DEF L!Submit, L!States
  <2>. QED  BY <1>1, <1>3, <2>2, GivenUp
<1>. QED  BY <1>2, <1>3 DEF SubmitFails

LEMMA SubmitSafe == IInv /\ Submit => IInv'
<1>. SUFFICES ASSUME IInv, Submit
              PROVE  IInv'
  OBVIOUS
<1>. DEFINE k == NextItem(run)
            m == Mark(run, k, "submitted")
<1>1. /\ run \in Records /\ run # None /\ run = stored /\ Good(run)
      /\ run.status \in ActiveRun /\ run.report = None /\ InFlight(run) = {} /\ built
      /\ \A n \in Pending(run) : n \in Children /\ child[n] # "active" /\ n \notin ran
  BY InLoop DEF Submit
<1>2. k \in Pending(run) /\ k \in DOMAIN run.items
  BY <1>1, NextIsPending DEF Pending, Submit
<1>3. /\ pc' = "created" /\ run' = m /\ L!Submit(k)
      /\ UNCHANGED <<world, page, built, stored, reports, memory, running, ran>>
  BY DEF Submit
<1>4. /\ m \in Records /\ m # None /\ Good(m)
      /\ m.status = run.status
      /\ DOMAIN m.items = DOMAIN run.items
      /\ \A n \in DOMAIN run.items :
            m.items[n].state = IF n = k THEN "submitted" ELSE run.items[n].state
  <2>1. "submitted" \in ItemStates
    BY DEF ItemStates
  <2>. HIDE DEF k
  <2>. QED  BY <1>1, <1>2, <2>1, MarkGood
<1>5. \E n \in Pending(stored) : m = Mark(stored, n, "submitted")
  BY <1>1, <1>2
<1>. HIDE DEF k, m
<1>6. /\ child' \in [Children -> L!States] /\ asked' \subseteq Children
      /\ \A n \in Children : child'[n] # child[n] => n = k
      /\ child[k] = "absent"
  <2>1. child \in [Children -> L!States] /\ asked \subseteq Children
    BY DEF IInv, TypeOK
  <2>. QED  BY <1>3, <2>1 DEF L!Submit, L!States
<1>7. TypeOK'
  BY <1>1, <1>3, <1>4, <1>6 DEF IInv, TypeOK, world, reports, memory
<1>8. Good(run)' /\ Good(stored)'
  BY <1>1, <1>3, <1>4 DEF Good, reports
<1>9. Stands'
  BY <1>1, <1>3, <1>4, <1>5 DEF IInv, Stands
<1>10. Attended'
  <2>1. k \in InFlight(m)
    BY <1>2, <1>4 DEF InFlight
  <2>2. ASSUME NEW n \in Children, child'[n] = "active"
        PROVE  /\ n \in DOMAIN stored.items
               /\ stored.items[n].state \in {"submitted", "submit_failed"} \/ n \in InFlight(m)
    <3>1. CASE n = k
      BY <1>1, <1>2, <2>1, <3>1
    <3>2. CASE n # k
      BY <1>1, <1>3, <1>6, <2>2, <3>2 DEF IInv, Attended, Submit
    <3>. QED  BY <3>1, <3>2
  <2>3. \A n \in running : child'[n] = "active"
    BY <1>6 DEF IInv, TypeOK, Attended
  <2>. QED  BY <1>1, <1>3, <2>2, <2>3 DEF IInv, Attended
<1>. QED  BY <1>1, <1>3, <1>4, <1>7, <1>8, <1>9, <1>10 DEF IInv

(* While an item is in flight, the record in memory knows of every child   *)
(* that is active.                                                         *)
LEMMA InMemory ==
    ASSUME IInv, pc \in {"created", "waiting"}
    PROVE  /\ run \in Records /\ run # None /\ Good(run) /\ built
           /\ run.status \in ActiveRun /\ run.report = None
           /\ \A n \in Children : child[n] = "active" =>
                 /\ n \in DOMAIN run.items
                 /\ run.items[n].state \in {"submitted", "submit_failed"}
<1>1. /\ run \in Records /\ run # None /\ Good(run) /\ built /\ stored # None
      /\ stored \in Records /\ run.status \in ActiveRun
  BY DEF IInv, TypeOK, Stands
<1>2. run.report = None
  BY <1>1 DEF Good, Cleared
<1>3. Follows(run, stored)
  <2>1. CASE pc = "waiting"
    BY <2>1 DEF IInv, Stands, Follows
  <2>2. CASE pc = "created"
    <3>1. PICK k \in Pending(stored) : run = Mark(stored, k, "submitted")
      BY <2>2 DEF IInv, Stands
    <3>2. k \in DOMAIN stored.items /\ stored.items[k].state = "pending"
      BY DEF Pending
    <3>3. "submitted" \in ItemStates
      BY DEF ItemStates
    <3>4. /\ DOMAIN run.items = DOMAIN stored.items
          /\ \A n \in DOMAIN stored.items :
                run.items[n].state = IF n = k THEN "submitted" ELSE stored.items[n].state
      BY <1>1, <3>1, <3>2, <3>3, MarkIs
    <3>. QED  BY <3>2, <3>4 DEF Follows
  <2>. QED  BY <2>1, <2>2
<1>4. ASSUME NEW n \in Children, child[n] = "active"
      PROVE  n \in DOMAIN run.items /\ run.items[n].state \in {"submitted", "submit_failed"}
  <2>1. /\ n \in DOMAIN stored.items
        /\ stored.items[n].state \in {"submitted", "submit_failed"} \/ n \in InFlight(run)
    BY <1>4 DEF IInv, Attended
  <2>. QED  BY <1>3, <2>1 DEF Follows, InFlight
<1>. QED  BY <1>1, <1>2, <1>4

LEMMA BeginSafe == IInv /\ Begin => IInv'
<1>. SUFFICES ASSUME IInv, Begin
              PROVE  IInv'
  OBVIOUS
<1>1. /\ pc = "ready" /\ pc' = "loop"
      /\ UNCHANGED <<world, page, built, run, stored, reports, memory, children>>
  BY DEF Begin
<1>2. TypeOK'
  BY <1>1 DEF IInv, TypeOK, world, reports, memory, children
<1>3. Stands' /\ Attended'
  BY <1>1 DEF IInv, TypeOK, Stands, Attended, children
<1>. QED  BY <1>1, <1>2, <1>3 DEF IInv, Good, reports, children

LEMMA SaveSubmittedSafe == IInv /\ SaveSubmitted => IInv'
<1>. SUFFICES ASSUME IInv, SaveSubmitted
              PROVE  IInv'
  OBVIOUS
<1>1. /\ pc = "created" /\ pc' = "waiting" /\ stored' = run
      /\ UNCHANGED <<world, page, built, run, reports, memory, children>>
  BY DEF SaveSubmitted
<1>2. /\ run \in Records /\ run # None /\ Good(run) /\ built
      /\ run.status \in ActiveRun
      /\ \A n \in Children : child[n] = "active" =>
            /\ n \in DOMAIN run.items
            /\ run.items[n].state \in {"submitted", "submit_failed"}
  BY <1>1, InMemory
<1>3. TypeOK'
  BY <1>1, <1>2 DEF IInv, TypeOK, world, reports, memory, children
<1>4. Stands'
  BY <1>1, <1>2 DEF IInv, Stands
<1>5. Attended'
  BY <1>1, <1>2 DEF IInv, Attended, children
<1>. QED  BY <1>1, <1>2, <1>3, <1>4, <1>5 DEF IInv, Good, reports, children

LEMMA PollSafe == IInv /\ Poll => IInv'
<1>. SUFFICES ASSUME IInv, Poll
              PROVE  IInv'
  OBVIOUS
<1>1. /\ pc = "waiting" /\ run = stored /\ UNCHANGED <<world, page, built, reports>>
  BY DEF Poll, IInv, Stands
<1>2. /\ run \in Records /\ run # None /\ Good(run) /\ built
      /\ run.status \in ActiveRun /\ run.report = None
      /\ \A n \in Children : child[n] = "active" =>
            /\ n \in DOMAIN run.items
            /\ run.items[n].state \in {"submitted", "submit_failed"}
  BY <1>1, InMemory
<1>3. PICK k \in InFlight(run) : Settle(k) \/ Watch(k)
  BY DEF Poll
<1>4. k \in DOMAIN run.items /\ k \in Children /\ InFlight(run) = {k}
  BY <1>2, RecordIs DEF InFlight, Good, Accounted
<1>5. CASE Settle(k)
  <2>. DEFINE m == Mark(run, k, "settled")
  <2>1. /\ child[k] # "active" /\ run' = m /\ stored' = m /\ pc' = "loop"
        /\ started' = FALSE /\ fired' = FALSE /\ UNCHANGED <<sent, children>>
    BY <1>5 DEF Settle, SettledStatuses, Save
  <2>2. /\ m \in Records /\ m # None /\ Good(m)
        /\ m.status = run.status
        /\ DOMAIN m.items = DOMAIN run.items
        /\ \A n \in DOMAIN run.items : m.items[n].state = IF n = k THEN "settled" ELSE run.items[n].state
        /\ InFlight(m) = {}
    <3>1. "settled" \in ItemStates
      BY DEF ItemStates
    <3>. QED  BY <1>2, <1>4, <3>1, MarkGood
  <2>. HIDE DEF m
  <2>3. TypeOK'
    BY <1>1, <2>1, <2>2 DEF IInv, TypeOK, world, reports, children
  <2>4. Good(run)' /\ Good(stored)'
    BY <1>1, <2>1, <2>2 DEF Good, reports, children
  <2>5. Stands'
    BY <1>1, <1>2, <2>1, <2>2 DEF IInv, Stands
  <2>6. Attended'
    BY <1>2, <2>1, <2>2 DEF IInv, Attended, children
  <2>. QED  BY <1>1, <2>1, <2>2, <2>3, <2>4, <2>5, <2>6 DEF IInv
<1>6. CASE Watch(k)
  <2>1. Calmed /\ sent' \subseteq Children
    <3>1. CASE StopChild(k)
      BY <1>4, <3>1, StopChildCalms
    <3>2. CASE UNCHANGED <<sent, children>>
      BY <3>2, Unchanged DEF IInv, TypeOK
    <3>. QED  BY <1>6, <3>1, <3>2 DEF Watch
  <2>2. {started', fired'} \subseteq BOOLEAN /\ UNCHANGED <<pc, run, stored>>
    <3>1. started \in BOOLEAN /\ fired \in BOOLEAN
      BY DEF IInv, TypeOK
    <3>2. started' \in BOOLEAN
      BY <1>6, <3>1 DEF Watch
    <3>3. fired' \in BOOLEAN
      BY <1>6, <3>1 DEF Watch
    <3>. QED  BY <1>6, <3>2, <3>3 DEF Watch
  <2>. QED  BY <1>1, <2>1, <2>2, CalmSafe DEF world
<1>. QED  BY <1>3, <1>5, <1>6

LEMMA CloseSafe == IInv /\ Close => IInv'
<1>. SUFFICES ASSUME IInv, Close
              PROVE  IInv'
  OBVIOUS
<1>1. PICK s \in {"cancelled", "finished"} : Save(Ended(run, s))
  BY DEF Close
<1>2. /\ pc = "loop" /\ pc' = "closing"
      /\ UNCHANGED <<world, page, built, reports, memory, children>>
  BY DEF Close
<1>. DEFINE e == Ended(run, s)
<1>3. /\ run \in Records /\ run # None /\ run = stored /\ Good(run)
      /\ run.report = None /\ built
  BY <1>2, InLoop
<1>4. /\ e \in Records /\ Good(e) /\ e.status \notin ActiveRun /\ Follows(e, run)
  BY <1>3, EndedGood DEF EndedRun
<1>5. run' = e /\ stored' = e /\ e # None
  BY <1>1, <1>4, HarnessAssumption DEF Save
<1>. HIDE DEF e
<1>6. TypeOK'
  BY <1>2, <1>4, <1>5 DEF IInv, TypeOK, world, reports, memory, children
<1>7. Good(run)' /\ Good(stored)'
  BY <1>2, <1>4, <1>5 DEF Good, reports, children
<1>8. Stands'
  BY <1>2, <1>3, <1>4, <1>5 DEF IInv, Stands
<1>9. Attended'
  BY <1>2, <1>3, <1>4, <1>5 DEF IInv, Attended, Follows, children
<1>. QED  BY <1>2, <1>5, <1>6, <1>7, <1>8, <1>9 DEF IInv

LEMMA ReportFailsSafe == IInv /\ ReportFails => IInv'
<1>. SUFFICES ASSUME IInv, ReportFails
              PROVE  IInv'
  OBVIOUS
<1>1. /\ pc = "closing" /\ pc' = "written"
      /\ UNCHANGED <<world, page, built, run, stored, reports, memory, children>>
  BY DEF ReportFails
<1>2. TypeOK'
  BY <1>1 DEF IInv, TypeOK, world, reports, memory, children
<1>3. Follows(stored, stored)
  BY DEF Follows
<1>4. Stands'
  BY <1>1, <1>3 DEF IInv, Stands
<1>5. Attended'
  BY <1>1 DEF IInv, Attended, children
<1>. QED  BY <1>1, <1>2, <1>4, <1>5 DEF IInv, Good, reports, children

(* The runner is over and leaves a record with no work left to do. *)
LEMMA LeftSafe ==
    ASSUME IInv, Leave, stored' \in Records, Good(stored'), stored'.status \notin ActiveRun,
           built,
           \A n \in Children : child[n] = "active" =>
              /\ n \in DOMAIN stored'.items
              /\ stored'.items[n].state \in {"submitted", "submit_failed"},
           UNCHANGED <<world, page, built, reports, children>>
    PROVE  IInv'
<1>. DEFINE s == stored'
<1>1. s # None /\ run' = None /\ pc' = "none"
  BY HarnessAssumption DEF Leave
<1>2. TypeOK'
  BY <1>1 DEF IInv, TypeOK, Leave, world, reports, children
<1>3. Good(stored)'
  BY DEF Good, reports, children
<1>4. Stands'
  BY <1>1 DEF IInv, Stands
<1>5. Attended'
  BY <1>1 DEF IInv, Attended, children
<1>. QED  BY <1>1, <1>2, <1>3, <1>4, <1>5 DEF IInv

LEMMA ConcludeSafe == IInv /\ Conclude => IInv'
<1>. SUFFICES ASSUME IInv, Conclude
              PROVE  IInv'
  OBVIOUS
<1>1. /\ run \in Records /\ Good(run) /\ run.status \notin ActiveRun /\ built
      /\ Follows(run, stored)
  BY DEF Conclude, IInv, TypeOK, Stands
<1>2. ASSUME NEW n \in Children, child[n] = "active"
      PROVE  n \in DOMAIN run.items /\ run.items[n].state \in {"submitted", "submit_failed"}
  <2>1. n \in DOMAIN stored.items /\ stored.items[n].state \in {"submitted", "submit_failed"}
    BY <1>2 DEF IInv, Attended, Conclude
  <2>. QED  BY <1>1, <2>1 DEF Follows
<1>3. stored' = run /\ Leave /\ UNCHANGED <<world, page, built, reports, children>>
  BY DEF Conclude
<1>. QED  BY <1>1, <1>2, <1>3, LeftSafe

LEMMA RunnerFailsSafe == IInv /\ RunnerFails => IInv'
<1>. SUFFICES ASSUME IInv, RunnerFails
              PROVE  IInv'
  OBVIOUS
<1>. DEFINE e == Ended(run, "failed")
<1>1. /\ run \in Records /\ Good(run) /\ built /\ run.report = None
      /\ \A n \in Children : child[n] = "active" =>
            /\ n \in DOMAIN run.items
            /\ run.items[n].state \in {"submitted", "submit_failed"}
  BY InMemory DEF RunnerFails
<1>2. /\ e \in Records /\ Good(e) /\ e.status \notin ActiveRun /\ Follows(e, run)
  BY <1>1, EndedGood DEF EndedRun
<1>3. stored' = e /\ Leave /\ UNCHANGED <<world, page, built, reports, children>>
  BY DEF RunnerFails
<1>. HIDE DEF e
<1>4. \A n \in Children : child[n] = "active" =>
         /\ n \in DOMAIN e.items
         /\ e.items[n].state \in {"submitted", "submit_failed"}
  BY <1>1, <1>2 DEF Follows
<1>. QED  BY <1>1, <1>2, <1>3, <1>4, LeftSafe

-----------------------------------------------------------------------------
(* The process, the world and the children. *)

LEMMA RestartSafe == IInv /\ Restart => IInv'
<1>. SUFFICES ASSUME IInv, Restart
              PROVE  IInv'
  OBVIOUS
<1>1. /\ built' = FALSE /\ pc' = "none" /\ run' = None
      /\ started' = FALSE /\ fired' = FALSE /\ sent' = {}
      /\ asked' = {} /\ running' = {}
      /\ UNCHANGED <<directory, corpus, permitted, page, stored, reports, ran>>
  BY DEF Restart, Leave
<1>2. child' \in [Children -> L!States] /\ \A n \in Children : child'[n] # "active"
  BY DEF Restart, IInv, TypeOK, L!States
<1>3. disruptions' \in 0..MaxDisruptions
  BY HarnessAssumption DEF Restart, IInv, TypeOK
<1>4. TypeOK'
  BY <1>1, <1>2, <1>3 DEF IInv, TypeOK, reports
<1>5. Good(stored)' <=> Good(stored)
  BY <1>1 DEF Good, reports
<1>6. Stands' /\ Attended'
  BY <1>1, <1>2 DEF IInv, Stands, Attended
<1>. QED  BY <1>1, <1>4, <1>5, <1>6 DEF IInv, reports

LEMMA DisturbSafe == IInv /\ Disturb => IInv'
<1>. SUFFICES ASSUME IInv, Disturb
              PROVE  IInv'
  OBVIOUS
<1>1. UNCHANGED <<page, built, pc, run, stored, reports, memory, children>>
  BY DEF Disturb
<1>2. /\ directory' \subseteq Definitions /\ corpus' \subseteq Sections /\ permitted' \in BOOLEAN
      /\ disruptions' \in 0..MaxDisruptions
  <2>1. disruptions' \in 0..MaxDisruptions
    BY HarnessAssumption DEF Disturb
  <2>2. directory \subseteq Definitions /\ corpus \subseteq Sections /\ permitted \in BOOLEAN
    BY DEF IInv, TypeOK
  <2>3. directory' \subseteq Definitions /\ corpus' \subseteq Sections
    BY <2>2 DEF Disturb
  <2>4. permitted' \in BOOLEAN
    BY <2>2 DEF Disturb
  <2>. QED  BY <2>1, <2>3, <2>4
<1>3. TypeOK'
  BY <1>1, <1>2 DEF IInv, TypeOK, reports, memory, children
<1>4. Stands' /\ Attended'
  BY <1>1 DEF IInv, Stands, Attended, children
<1>. QED  BY <1>1, <1>3, <1>4 DEF IInv, Good, reports, children

(* A worker takes a queued child, which is in flight on record. *)
LEMMA ChildTakenSafe ==
    ASSUME IInv, NEW n \in Children, ChildTaken(n)
    PROVE  IInv'
<1>1. /\ n \in Unsettled /\ n \notin running
      /\ running' = running \cup {n} /\ ran' = ran \cup {n}
      /\ UNCHANGED <<others, child, asked>> /\ Free
  BY DEF ChildTaken
<1>2. child[n] = "active" /\ stored # None /\ n \in DOMAIN stored.items
  BY <1>1 DEF Unsettled, IInv, Attended
<1>3. stored.items[n].state = "submitted"
  <2>1. pc # "created"
    BY <1>1 DEF Free
  <2>. QED  BY <1>1, <1>2, <2>1 DEF Unsettled, IInv, Attended
<1>4. run # None => run = stored
  BY <1>1 DEF Free, IInv, TypeOK, Stands
<1>5. Accounted(stored, ran')
  <2>1. Accounted(stored, ran)
    BY <1>2 DEF IInv, Good
  <2>. QED  BY <1>1, <1>3, <2>1 DEF Accounted
<1>6. Good(stored)' /\ (run' # None => Good(run)')
  BY <1>1, <1>2, <1>4, <1>5 DEF IInv, Good, others, reports
<1>7. TypeOK'
  BY <1>1 DEF IInv, TypeOK, others, world, reports, memory
<1>8. Stands' /\ Attended'
  BY <1>1, <1>2 DEF IInv, TypeOK, Stands, Attended, others
<1>. QED  BY <1>1, <1>2, <1>6, <1>7, <1>8 DEF IInv, others, reports

LEMMA ChildEndsSafe ==
    ASSUME IInv, NEW n \in Children, ChildEnds(n)
    PROVE  IInv'
<1>1. n \in running /\ running' = running \ {n} /\ UNCHANGED <<others, ran>>
  BY DEF ChildEnds
<1>2. child \in [Children -> L!States] /\ asked \subseteq Children
  BY DEF IInv, TypeOK
<1>3. /\ child' \in [Children -> L!States] /\ asked' \subseteq Children
      /\ \A m \in Children : child'[m] = "active" => child[m] = "active"
      /\ \A m \in Children : m # n => child'[m] = child[m]
  <2>1. PICK s \in {"delivered", "awaiting_approval", "failed", "blocked", "cancelled"} :
           child' = [child EXCEPT ![n] = s]
    BY DEF ChildEnds, L!Leave
  <2>2. asked' \in {asked, asked \ {n}}
    BY DEF ChildEnds, L!Leave
  <2>. QED  BY <1>2, <2>1, <2>2 DEF L!States
<1>4. TypeOK'
  BY <1>1, <1>3 DEF IInv, TypeOK, others, world, reports, memory
<1>5. Stands'
  BY <1>1 DEF IInv, Stands, others
<1>6. Attended'
  BY <1>1, <1>3 DEF IInv, TypeOK, Attended, others
<1>. QED  BY <1>1, <1>4, <1>5, <1>6 DEF IInv, Good, others, reports

LEMMA ChildReviewedSafe ==
    ASSUME IInv, NEW n \in Children, ChildReviewed(n)
    PROVE  IInv'
<1>1. UNCHANGED <<others, running, ran>>
  BY DEF ChildReviewed
<1>2. Calmed
  <2>1. child \in [Children -> L!States] /\ asked \subseteq Children
        /\ \A m \in running : child[m] = "active"
    BY DEF IInv, TypeOK, Attended
  <2>2. PICK s \in {"delivered", "rejected", "revision_requested"} :
           child' = [child EXCEPT ![n] = s]
    BY DEF ChildReviewed, L!Review
  <2>3. child[n] = "awaiting_approval" /\ asked' = asked
    BY DEF ChildReviewed, L!Review
  <2>. QED  BY <1>1, <2>1, <2>2, <2>3 DEF Calmed, L!States
<1>3. {started', fired'} \subseteq BOOLEAN /\ sent' \subseteq Children
  BY <1>1 DEF IInv, TypeOK, others, memory
<1>. QED  BY <1>1, <1>2, <1>3, CalmSafe DEF others, world

LEMMA ChildStoppedSafe ==
    ASSUME IInv, NEW n \in Children, ChildStopped(n)
    PROVE  IInv'
<1>1. UNCHANGED others /\ Calmed
  BY StopCalms DEF ChildStopped
<1>2. {started', fired'} \subseteq BOOLEAN /\ sent' \subseteq Children
  BY <1>1 DEF IInv, TypeOK, others, memory
<1>. QED  BY <1>1, <1>2, CalmSafe DEF others, world

LEMMA StutterSafe == IInv /\ UNCHANGED vars => IInv'
<1>. SUFFICES ASSUME IInv, UNCHANGED vars
              PROVE  IInv'
  OBVIOUS
<1>. USE DEF vars
<1>1. TypeOK'
  BY DEF IInv, TypeOK, world, reports, memory, children
<1>2. Stands' /\ Attended'
  BY DEF IInv, Stands, Attended, children
<1>. QED  BY <1>1, <1>2 DEF IInv, Good, reports, children

(* The invariant is inductive. *)
THEOREM Inductive == Spec => []IInv
<1>1. IInv /\ [Next]_vars => IInv'
  <2>. SUFFICES ASSUME IInv, [Next]_vars
                PROVE  IInv'
    OBVIOUS
  <2>1. CASE Preview
    BY <2>1, PreviewSafe
  <2>2. ASSUME page # None, NEW wanted \in SUBSET Keys(page.rows), Start(wanted)
        PROVE  IInv'
    BY <2>2, StartSafe
  <2>3. CASE Cancel \/ Regenerate
    BY <2>3, CancelSafe, RegenerateSafe
  <2>4. ASSUME NEW u \in Deciders, NEW verdict \in {"approved", "rejected"}, Decide(u, verdict)
        PROVE  IInv'
    BY <2>4, DecideSafe
  <2>5. CASE Runner
    BY <2>5, BeginSafe, RefuseItemSafe, SubmitSafe, SubmitFailsSafe, SaveSubmittedSafe,
       PollSafe, CloseSafe, ReportSafe, ReportFailsSafe, ConcludeSafe, RunnerFailsSafe DEF Runner
  <2>6. CASE Build \/ Restart \/ Disturb
    BY <2>6, BuildSafe, RestartSafe, DisturbSafe
  <2>7. ASSUME NEW n \in Children,
               ChildTaken(n) \/ ChildEnds(n) \/ ChildReviewed(n) \/ ChildStopped(n)
        PROVE  IInv'
    BY <2>7, ChildTakenSafe, ChildEndsSafe, ChildReviewedSafe, ChildStoppedSafe
  <2>8. CASE UNCHANGED vars
    BY <2>8, StutterSafe
  <2>. QED  BY <2>1, <2>2, <2>3, <2>4, <2>5, <2>6, <2>7, <2>8 DEF Next
<1>. QED  BY <1>1, InitSafe, PTL DEF Spec

-----------------------------------------------------------------------------
(* What follows from it. *)

(* Every variable keeps to its type. *)
THEOREM TypeCorrect == Spec => []TypeOK
<1>1. IInv => TypeOK
  BY DEF IInv
<1>. QED  BY <1>1, Inductive, PTL

(* What a run asks is what its owner saw in the preview. *)
THEOREM AskedAsPreviewed == Spec => []RunAsPreviewed
<1>1. IInv => RunAsPreviewed
  BY DEF IInv, Good, Previewed, RunAsPreviewed
<1>. QED  BY <1>1, Inductive, PTL

(* An item a stored record reports as never submitted never executed,      *)
(* whenever the process died and whatever failed.                          *)
THEOREM NothingRanUnseen == Spec => []NotSubmittedNeverRan
<1>1. IInv => NotSubmittedNeverRan
  BY DEF IInv, Good, Accounted, NotSubmittedNeverRan
<1>. QED  BY <1>1, Inductive, PTL

(* The report on record is the one in its files and in the audit log.      *)
THEOREM RecordedReportIsKept == Spec => []FilesMatchRecord
<1>1. IInv => FilesMatchRecord
  BY DEF IInv, Good, Filed, FilesMatchRecord, Intact
<1>. QED  BY <1>1, Inductive, PTL

(* A report that needs approval is released only when someone other than   *)
(* the owner approved that very version.                                   *)
THEOREM ReleaseIsSignedOff == Spec => []ReleasedIsApproved
<1>1. IInv => ReleasedIsApproved
  BY DEF IInv, Good, Cleared, ReleasedIsApproved
<1>. QED  BY <1>1, Inductive, PTL

(* While the service is up, a run that looks active has its runner. *)
THEOREM ActiveIsAttended == Spec => []ActiveHasRunner
<1>1. IInv => ActiveHasRunner
  BY DEF IInv, TypeOK, Stands, ActiveHasRunner
<1>. QED  BY <1>1, Inductive, PTL

(* While requests are served, the page shows the stored record. *)
LEMMA ShownIsStored ==
    ASSUME IInv, Serving, stored # None
    PROVE  /\ Shown = stored /\ stored \in Records /\ Good(stored) /\ built
           /\ pc = "none" => stored.status \notin ActiveRun
           /\ pc # "none" => stored.status \in ActiveRun /\ run = stored
BY DEF IInv, TypeOK, Stands, Serving, Free, Shown

(* What a run's page offers, the service accepts when it is asked.         *)
THEOREM PageKeepsItsWord == Spec => []OffersAreKept
<1>1. IInv => OffersAreKept
  <2>. SUFFICES ASSUME IInv, Serving, stored # None
                PROVE  /\ CanCancel => pc # "none" /\ ~run.cancel
                       /\ CanRegenerate =>
                             /\ pc = "none"
                             /\ stored.status \notin ActiveRun
                             /\ stored.report # None => stored.report.statuses # Statuses(stored)
                       /\ \A u \in Deciders :
                             CanDecide(u) => stored.report # None /\ stored.report.decision = "pending"
                       /\ \A u \in Deciders \cup {Owner} :
                             CanDownload(u) => /\ Intact(stored.report)
                                              /\ View(u).downloads = files[stored.report.version]
    BY DEF OffersAreKept
  <2>1. /\ Shown = stored /\ stored \in Records /\ Good(stored) /\ built
        /\ pc = "none" => stored.status \notin ActiveRun
        /\ pc # "none" => stored.status \in ActiveRun /\ run = stored
    BY ShownIsStored
  <2>2. CanCancel => pc # "none" /\ ~run.cancel
    BY <2>1 DEF CanCancel, Active
  <2>3. ASSUME CanRegenerate, stored.report # None
        PROVE  stored.report.statuses # Statuses(stored)
    <3>1. PICK n \in Submitted(stored) :
             n \in DOMAIN stored.report.statuses => stored.report.statuses[n] # child[n]
      BY <2>1, <2>3 DEF CanRegenerate, ChangedItems
    <3>2. DOMAIN Statuses(stored) = Submitted(stored) /\ Statuses(stored)[n] = child[n]
      BY DEF Statuses
    <3>. QED  BY <3>1, <3>2
  <2>4. CanRegenerate => pc = "none" /\ stored.status \notin ActiveRun
    BY <2>1 DEF CanRegenerate, Active
  <2>5. ASSUME NEW u \in Deciders \cup {Owner}, CanDownload(u)
        PROVE  /\ Intact(stored.report)
               /\ View(u).downloads = files[stored.report.version]
    <3>1. stored.report # None /\ files[stored.report.version] = stored.report.content
      BY <2>1, <2>5 DEF CanDownload, Good, Filed
    <3>2. View(u).downloads = stored.report.content
      BY <2>1, <2>5 DEF View
    <3>. QED  BY <3>1, <3>2 DEF Intact
  <2>6. ASSUME NEW u \in Deciders, CanDecide(u)
        PROVE  stored.report # None /\ stored.report.decision = "pending"
    BY <2>1, <2>6 DEF CanDecide
  <2>. QED  BY <2>2, <2>3, <2>4, <2>5, <2>6
<1>. QED  BY <1>1, Inductive, PTL

(* At most one child is being worked on, and then there is no report yet.  *)
THEOREM ChildrenGoOneByOne == Spec => []OneAtATime
<1>1. IInv => OneAtATime
  <2>. SUFFICES ASSUME IInv, Serving, stored # None,
                       NEW n \in Summary.current, NEW m \in Summary.current
                PROVE  n = m /\ Summary.version = 0 /\ ~Summary.released
    BY DEF OneAtATime
  <2>1. Shown = stored /\ Good(stored)
    BY ShownIsStored
  <2>2. /\ Summary.current = IF stored.status \in ActiveRun THEN InFlight(stored) ELSE {}
        /\ Summary.version = IF stored.report = None THEN 0 ELSE stored.report.version
        /\ Summary.released = (stored.report # None /\ stored.report.released)
    BY <2>1 DEF Summary
  <2>3. stored.status \in ActiveRun /\ n \in InFlight(stored) /\ m \in InFlight(stored)
    BY <2>2
  <2>4. stored.report = None
    BY <2>1, <2>3 DEF Good, Cleared
  <2>. QED  BY <2>1, <2>2, <2>3, <2>4 DEF Good, Accounted
<1>. QED  BY <1>1, Inductive, PTL

(* A child the page or the list counts as settled is with no worker.       *)
THEOREM SettledWorkIsOver == Spec => []SettledIsIdle
<1>1. IInv => SettledIsIdle
  <2>. SUFFICES ASSUME IInv, Serving, stored # None, NEW n \in DOMAIN Shown.items,
                       View(Owner).children.outcomes[n] \notin Unfinished, n \in running
                PROVE  FALSE
    BY DEF SettledIsIdle
  <2>1. Shown = stored /\ stored \in Records /\ Good(stored)
    BY ShownIsStored
  <2>2. View(Owner).children.outcomes[n] = Outcome(stored, n)
    BY <2>1 DEF View, Content
  <2>3. n \in ran /\ child[n] = "active"
    BY DEF IInv, Attended
  <2>4. stored.items[n].state \in {"submitted", "settled"}
    BY <2>1, <2>3 DEF Good, Accounted
  <2>5. Outcome(stored, n) = "running"
    BY <2>3, <2>4 DEF Outcome
  <2>. QED  BY <2>2, <2>5 DEF Unfinished
<1>. QED  BY <1>1, Inductive, PTL

LEMMA WritingKeepsSigned ==
    ASSUME IInv, NEW r \in Records, stored # None, r.report = stored.report, WriteReport(r),
           NEW a \in approved
    PROVE  files'[a[1]] = files[a[1]]
<1>. DEFINE v == Reported(r).report.version
            c == Reported(r).report.content
<1>1. Filed(stored, files, log, approved) /\ files \in Seq(Contents) /\ a[1] \in Nat \ {0}
  BY DEF IInv, TypeOK, Good
<1>2. v = Version(stored) + 1 /\ Version(stored) \in Nat /\ c \in Contents
  BY ReportedIs, ContentType DEF IInv, TypeOK, Version
<1>3. files' = IF v \in DOMAIN files THEN [files EXCEPT ![v] = c] ELSE Append(files, c)
  BY DEF WriteReport
<1>. HIDE DEF v, c
<1>4. a[1] < v /\ Len(files) \in {v - 1, v}
  BY <1>1, <1>2 DEF Filed
<1>5. CASE Len(files) = v
  <2>1. v \in DOMAIN files
    BY <1>1, <1>2, <1>5
  <2>2. files' = [files EXCEPT ![v] = c]
    BY <1>3, <2>1
  <2>. QED  BY <1>1, <1>4, <1>5, <2>2
<1>6. CASE Len(files) = v - 1
  <2>1. v \notin DOMAIN files
    BY <1>1, <1>2, <1>6
  <2>2. files' = Append(files, c)
    BY <1>3, <2>1
  <2>3. a[1] \in 1..Len(files) /\ files \in Seq(Contents)
    BY <1>1, <1>2, <1>4, <1>6
  <2>4. \A i \in 1..Len(files) : Append(files, c)[i] = files[i]
    BY <1>2, <2>3
  <2>. QED  BY <2>2, <2>3, <2>4
<1>. QED  BY <1>4, <1>5, <1>6

(* Files somebody signed are never written again, whoever dies or fails    *)
(* while a later version is written.                                       *)
THEOREM SignedFilesAreFinal == Spec => SignedIsFinal
<1>1. IInv /\ [Next]_vars => [\A a \in approved : files'[a[1]] = files[a[1]]]_vars
  <2>. SUFFICES ASSUME IInv, Next, NEW a \in approved
                PROVE  files'[a[1]] = files[a[1]]
    OBVIOUS
  <2>1. CASE files' = files
    BY <2>1
  <2>2. CASE Regenerate
    <3>1. stored \in Records
      BY <2>2 DEF Regenerate, IInv, TypeOK
    <3>. QED  BY <2>2, <3>1, WritingKeepsSigned DEF Regenerate
  <2>3. CASE Report
    <3>1. run = stored /\ stored \in Records /\ stored # None
      BY <2>3 DEF Report, IInv, Stands, TypeOK
    <3>. QED  BY <2>3, <3>1, WritingKeepsSigned DEF Report
  <2>4. CASE Build
    <3>1. CASE stored # None /\ stored.status \in ActiveRun
      <4>1. stored \in Records /\ WriteReport(Ended(stored, "interrupted"))
        BY <2>4, <3>1 DEF Build, IInv, TypeOK
      <4>2. /\ Ended(stored, "interrupted") \in Records
            /\ Ended(stored, "interrupted").report = stored.report
        BY <4>1, EndedIs DEF EndedRun
      <4>. QED  BY <3>1, <4>1, <4>2, WritingKeepsSigned
    <3>2. CASE ~(stored # None /\ stored.status \in ActiveRun)
      BY <2>4, <3>2 DEF Build, reports
    <3>. QED  BY <3>1, <3>2
  <2>5. CASE Preview \/ Cancel \/ Restart \/ Disturb
    BY <2>5 DEF Preview, Cancel, Restart, Disturb, reports
  <2>6. ASSUME NEW wanted, Start(wanted)
        PROVE  files' = files
    BY <2>6 DEF Start, reports
  <2>7. ASSUME NEW u, NEW verdict, Decide(u, verdict)
        PROVE  files' = files
    BY <2>7 DEF Decide
  <2>8. ASSUME Begin \/ RefuseItem \/ Submit \/ SubmitFails \/ SaveSubmitted \/ Poll
        PROVE  files' = files
    BY <2>8 DEF Begin, RefuseItem, Submit, SubmitFails, SaveSubmitted, Poll, reports
  <2>9. ASSUME Close \/ ReportFails \/ Conclude \/ RunnerFails
        PROVE  files' = files
    BY <2>9 DEF Close, ReportFails, Conclude, RunnerFails, reports
  <2>10. ASSUME NEW n \in Children,
                ChildTaken(n) \/ ChildEnds(n) \/ ChildReviewed(n) \/ ChildStopped(n)
         PROVE  files' = files
    BY <2>10 DEF ChildTaken, ChildEnds, ChildReviewed, ChildStopped, others, reports
  <2>. QED  BY <2>1, <2>2, <2>3, <2>4, <2>5, <2>6, <2>7, <2>8, <2>9, <2>10 DEF Next, Runner
<1>. QED  BY <1>1, Inductive, PTL DEF Spec, SignedIsFinal
=============================================================================
