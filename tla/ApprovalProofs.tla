---------------------------- MODULE ApprovalProofs ---------------------------
(***************************************************************************)
(* Theorems about Approval for any accounts, roles, policies, plans,       *)
(* conflicts and restarts, in either digest format.                        *)
(*                                                                         *)
(* A restart may leave any prefix of a handler's writes behind, so the     *)
(* invariant speaks of the row and of every row still to be written: each  *)
(* is good by itself.                                                      *)
(***************************************************************************)
EXTENDS Approval, SequenceTheorems, TLAPS

(* What releases a row: nothing in dispute, and every signature on the     *)
(* version that was decided.                                               *)
Good(r) ==
    /\ r.status = "awaiting_approval" => ~ r.released
    /\ r.released =>
          /\ OpenHighImpact(r) = {}
          /\ r.decided \in Signatures
          /\ \A s \in Range(r.signatures) \cup {r.decided} :
                /\ s.on.content = r.conflicts
                /\ s.on.version = 2 => s.on = r.decided.on

GoodRows   == {r \in Rows : Good(r)}
GoodEvents == {e \in Events : e.kind \notin {"signatures_voided", "cancelled"} => e.by # Runner}
GoodWrites == [row : GoodRows] \cup [event : GoodEvents] \cup [file : Contents]

IInv ==
    /\ row \in GoodRows
    /\ todo \in Seq(GoodWrites)
    /\ file \in Contents
    /\ log \subseteq GoodEvents
    /\ disk \in Policies
    /\ loaded \in Policies
    /\ seen \in [Users -> Digests \cup {None}]
    /\ disruptions \in Nat

-----------------------------------------------------------------------------
(* Types of the helpers. *)

LEMMA DigestType ==
    ASSUME NEW r \in Rows, disk \in Policies
    PROVE  /\ ReviewDigest(r, 2) \in Digests
           /\ ReviewDigest(r, 2).content = r.conflicts
           /\ ReviewDigest(r, 2).version = 2
BY DEF ReviewDigest, Digests, Rows

LEMMA RangeType ==
    ASSUME NEW S, NEW s \in Seq(S)
    PROVE  Range(s) = {s[i] : i \in 1..Len(s)} /\ Range(s) \subseteq S
BY DEF Range

LEMMA NothingSigned == Range(<<>>) = {}
<1>1. <<>> \in Seq(Nat) /\ Len(<<>>) = 0
  BY EmptySeq
<1>2. Range(<<>>) = {<<>>[i] : i \in 1..0}
  BY <1>1, RangeType
<1> QED  BY <1>2

LEMMA PersistType ==
    ASSUME NEW r \in GoodRows, disk \in Policies
    PROVE  Persist(r) \in Seq(GoodWrites)
<1>1. ReviewDigest(r, 2) \in Digests
  BY DigestType DEF GoodRows
<1>2. [r EXCEPT !.digest = ReviewDigest(r, 2)] \in Rows
  BY <1>1 DEF GoodRows, Rows
<1>3. Good([r EXCEPT !.digest = ReviewDigest(r, 2)])
  BY DEF GoodRows, Rows, Good, OpenHighImpact
<1>4. [row |-> [r EXCEPT !.digest = ReviewDigest(r, 2)]] \in GoodWrites
  BY <1>2, <1>3 DEF GoodRows, GoodWrites
<1> QED  BY <1>4 DEF Persist

LEMMA RecordType ==
    ASSUME NEW e \in GoodEvents
    PROVE  Record(e) \in Seq(GoodWrites)
BY DEF Record, GoodWrites

LEMMA ReplanType ==
    ASSUME NEW r \in Rows, loaded \in Policies
    PROVE  /\ Replan(r) \in Rows
           /\ Replan(r) = [r EXCEPT !.plan = Replan(r).plan, !.approvers = Replan(r).approvers]
<1> DEFINE plan == IF r.severity = None THEN r.plan ELSE RequiredSignatures(loaded, r.severity)
<1>1. plan \in Seq(Roles)
  BY ApprovalAssumption DEF RequiredSignatures, Rows
<1> HIDE DEF plan
<1>2. Range(plan) \in SUBSET Roles
  BY <1>1, RangeType
<1>3. Replan(r) = [r EXCEPT !.plan = plan, !.approvers = IF plan = <<>> THEN @ ELSE Range(plan)]
  BY DEF Replan, plan
<1> QED  BY <1>1, <1>2, <1>3 DEF Rows

(* Refreshing changes the plan and may void the signatures.  What it       *)
(* keeps is on the version the run now is.                                 *)
LEMMA RefreshFacts ==
    ASSUME NEW r \in Rows, loaded \in Policies
    PROVE  /\ Refresh(r) \in Rows
           /\ Refresh(r).status = r.status
           /\ Refresh(r).conflicts = r.conflicts
           /\ Refresh(r).released = r.released
           /\ Refresh(r).signatures \in {<<>>, r.signatures}
           /\ \A s \in Range(Refresh(r).signatures) : ~ IsStale(s, r)
<1>1. /\ Replan(r) \in Rows
      /\ Replan(r) = [r EXCEPT !.plan = Replan(r).plan, !.approvers = Replan(r).approvers]
  BY ReplanType
<1>2. \A s : IsStale(s, Replan(r)) <=> IsStale(s, r)
  BY <1>1 DEF IsStale, ReviewDigest, Rows
<1>3. CASE MustVoid(Replan(r))
  <2>1. Refresh(r) = [Replan(r) EXCEPT !.signatures = <<>>, !.voided = TRUE]
    BY <1>3 DEF Refresh
  <2>2. Refresh(r).signatures = <<>>
    BY <1>1, <2>1 DEF Rows
  <2>3. Range(Refresh(r).signatures) = {}
    BY <2>2, NothingSigned
  <2> QED  BY <1>1, <2>1, <2>2, <2>3, EmptySeq, ZenonT(30) DEF Rows
<1>4. CASE ~ MustVoid(Replan(r))
  <2>1. Refresh(r) = Replan(r)
    BY <1>4 DEF Refresh
  <2>2. \A s \in Range(Replan(r).signatures) : ~ IsStale(s, Replan(r))
    BY <1>4 DEF MustVoid, MustVoidIf
  <2> QED  BY <1>1, <1>2, <2>1, <2>2 DEF Rows
<1> QED  BY <1>3, <1>4

LEMMA UnreleasedIsGood ==
    ASSUME NEW r \in Rows, ~ r.released
    PROVE  r \in GoodRows
BY DEF Good, GoodRows

LEMMA RefreshWritesType ==
    ASSUME NEW r \in Rows, ~ r.released, loaded \in Policies, disk \in Policies
    PROVE  RefreshWrites(r) \in Seq(GoodWrites)
<1>1. Refresh(r) \in GoodRows
  BY RefreshFacts, UnreleasedIsGood
<1>2. [kind |-> "signatures_voided"] \in GoodEvents
  BY DEF GoodEvents, Events
<1>3. Persist(Refresh(r)) \o Record([kind |-> "signatures_voided"]) \in Seq(GoodWrites)
  BY <1>1, <1>2, PersistType, RecordType, ConcatProperties
<1> QED  BY <1>3, EmptySeq DEF RefreshWrites

-----------------------------------------------------------------------------
(* The handlers. *)

LEMMA ConcludeType ==
    ASSUME NEW r \in Rows, NEW u \in Users, NEW d \in Decisions, u # Runner, disk \in Policies,
           d = "approve" => OpenHighImpact(r) = {},
           \A s \in Range(r.signatures) :
              s.on.content = r.conflicts /\ (s.on.version = 2 => s.on = ReviewDigest(r, 2))
    PROVE  Conclude(u, d, r) \in Seq(GoodWrites)
<1> DEFINE by == [by |-> u, on |-> ReviewDigest(r, 2)]
           e  == [kind |-> d, by |-> u, on |-> ReviewDigest(r, 2)]
           n  == [r EXCEPT !.status = Outcome[d], !.released = (d = "approve"), !.decided = by]
<1>1. by \in Signatures /\ by.on.content = r.conflicts /\ by.on = ReviewDigest(r, 2)
  BY DigestType DEF Signatures
<1>2. e \in GoodEvents
  BY DigestType DEF GoodEvents, Events, Decisions
<1>3. Outcome[d] \in Statuses /\ Outcome[d] # "awaiting_approval"
  BY DEF Outcome, Statuses, Decisions
<1> HIDE DEF by
<1>4. n \in Rows
  BY <1>1, <1>3 DEF Rows
<1>5. /\ n.status # "awaiting_approval" /\ n.released = (d = "approve") /\ n.decided = by
      /\ n.conflicts = r.conflicts /\ n.signatures = r.signatures
  BY <1>3 DEF Rows
<1> HIDE DEF n
<1>6. Good(n)
  BY <1>1, <1>5 DEF Good, OpenHighImpact
<1>7. Persist(n) \o Record(e) \in Seq(GoodWrites)
  BY <1>2, <1>4, <1>6, PersistType, RecordType, ConcatProperties DEF GoodRows
<1> QED  BY <1>7 DEF Conclude, n, by

LEMMA SignWritesType ==
    ASSUME NEW r \in Rows, NEW u \in Users, u # Runner, disk \in Policies,
           ~ r.released, OpenHighImpact(r) = {},
           \A s \in Range(r.signatures) :
              s.on.content = r.conflicts /\ (s.on.version = 2 => s.on = ReviewDigest(r, 2))
    PROVE  SignWrites(u, r) \in Seq(GoodWrites)
<1> DEFINE by == [by |-> u, on |-> ReviewDigest(r, 2)]
           n  == Sign(u, r)
<1>1. by \in Signatures /\ by.on.content = r.conflicts /\ by.on = ReviewDigest(r, 2)
  BY DigestType DEF Signatures
<1> HIDE DEF by
<1>2. Append(r.signatures, by) \in Seq(Signatures)
  BY <1>1 DEF Rows
<1>3. \A s \in Range(Append(r.signatures, by)) : s \in Range(r.signatures) \/ s = by
  <2>1. r.signatures \in Seq(Signatures)
    BY DEF Rows
  <2> DEFINE longer == Append(r.signatures, by)
  <2>0. longer \in Seq(Signatures)
    BY <1>2
  <2>2. Range(r.signatures) = {r.signatures[j] : j \in 1..Len(r.signatures)}
    BY <2>1, RangeType
  <2>3. /\ Len(longer) = Len(r.signatures) + 1
        /\ \A j \in 1..Len(longer) :
              longer[j] = IF j <= Len(r.signatures) THEN r.signatures[j] ELSE by
    BY <1>1, <2>1, AppendProperties
  <2> HIDE DEF longer
  <2>6. Range(longer) = {longer[j] : j \in 1..Len(longer)}
    BY <2>0, RangeType
  <2>4. \A j \in 1..Len(longer) : longer[j] \in Range(r.signatures) \/ longer[j] = by
    <3> SUFFICES ASSUME NEW j \in 1..Len(longer), longer[j] # by
                 PROVE  longer[j] \in Range(r.signatures)
      OBVIOUS
    <3>1. j \in 1..Len(r.signatures) /\ longer[j] = r.signatures[j]
      BY <2>1, <2>3, LenProperties
    <3> QED  BY <2>2, <3>1
  <2>5. \A s \in Range(longer) : s \in Range(r.signatures) \/ s = by
    BY <2>4, <2>6
  <2> QED  BY <2>5 DEF longer
<1>4. n = [r EXCEPT !.signatures = Append(r.signatures, by)]
  BY DEF Sign, by
<1>5. /\ n \in Rows /\ n.signatures = Append(r.signatures, by)
      /\ n.conflicts = r.conflicts /\ ~ n.released
  BY <1>2, <1>4 DEF Rows
<1> HIDE DEF n
<1>6. /\ ReviewDigest(n, 2) = ReviewDigest(r, 2)
      /\ OpenHighImpact(n) = {}
  BY <1>5 DEF ReviewDigest, OpenHighImpact
<1>7. \A s \in Range(n.signatures) :
         s.on.content = n.conflicts /\ (s.on.version = 2 => s.on = ReviewDigest(n, 2))
  BY <1>1, <1>3, <1>5, <1>6
<1>8. Conclude(u, "approve", n) \in Seq(GoodWrites)
  BY <1>5, <1>6, <1>7, ConcludeType DEF Decisions
<1>9. Persist(n) \in Seq(GoodWrites)
  BY <1>5, UnreleasedIsGood, PersistType
<1>10. [kind |-> "signed", by |-> u, on |-> ReviewDigest(r, 2)] \in GoodEvents
  BY DigestType DEF GoodEvents, Events
<1> QED
  BY <1>8, <1>9, <1>10, RecordType, ConcatProperties DEF SignWrites, Consequence, n

(* A decision, or what is left of one that is refused. *)
LEMMA DecideStep ==
    ASSUME IInv, NEW u \in Users, NEW d \in Decisions, NEW commented \in BOOLEAN,
           DecideApproval(u, d, commented)
    PROVE  IInv'
<1> DEFINE r == Refresh(row)
           decision == IF ~ Permitted(u, d, commented, r) THEN <<>>
                       ELSE IF d = "approve" /\ r.plan # <<>> THEN SignWrites(u, r)
                       ELSE Conclude(u, d, r)
<1>1. row \in Rows /\ ~ row.released /\ disk \in Policies /\ loaded \in Policies
  BY DEF IInv, GoodRows, Good, DecideApproval, Handler
<1>2. /\ r \in Rows /\ ~ r.released /\ r.conflicts = row.conflicts
      /\ \A s \in Range(r.signatures) : ~ IsStale(s, row)
  BY <1>1, RefreshFacts
<1>3. ReviewDigest(r, 2) = ReviewDigest(row, 2)
  BY <1>2 DEF ReviewDigest
<1>4. ASSUME NEW s \in Range(r.signatures)
      PROVE  s.on.content = r.conflicts /\ (s.on.version = 2 => s.on = ReviewDigest(r, 2))
  BY <1>2, <1>3 DEF IsStale, ReviewDigest
<1>5. RefreshWrites(row) \in Seq(GoodWrites)
  BY <1>1, RefreshWritesType
<1> HIDE DEF r
<1>6. decision \in Seq(GoodWrites)
  <2>1. CASE ~ Permitted(u, d, commented, r)
    BY <2>1, EmptySeq
  <2>2. CASE Permitted(u, d, commented, r)
    <3>1. u # Runner /\ (d = "approve" => OpenHighImpact(r) = {})
      BY <2>2 DEF Permitted, MayAct
    <3>2. CASE d = "approve" /\ r.plan # <<>>
      <4>1. SignWrites(u, r) \in Seq(GoodWrites)
        BY <1>1, <1>2, <1>4, <3>1, <3>2, SignWritesType
      <4> QED  BY <2>2, <3>2, <4>1
    <3>3. CASE ~ (d = "approve" /\ r.plan # <<>>)
      <4>1. Conclude(u, d, r) \in Seq(GoodWrites)
        BY <1>1, <1>2, <1>4, <3>1, ConcludeType
      <4> QED  BY <2>2, <3>3, <4>1
    <3> QED  BY <3>2, <3>3
  <2> QED  BY <2>1, <2>2
<1>7. todo' = RefreshWrites(row) \o decision
      /\ UNCHANGED <<row, file, log, disk, loaded, seen, disruptions>>
  BY DEF DecideApproval, Handler, r
<1> HIDE DEF decision
<1>8. todo' \in Seq(GoodWrites)
  BY <1>5, <1>6, <1>7, ConcatProperties
<1>9. row' \in GoodRows
  BY <1>7 DEF IInv
<1> QED  BY <1>7, <1>8, <1>9 DEF IInv

LEMMA ResolveStep ==
    ASSUME IInv, NEW u \in Users, NEW c \in Conflicts, NEW found \in SUBSET Conflicts,
           NEW severity \in Severities \cup {None}, NEW rendered \in BOOLEAN,
           ResolveConflict(u, c, found, severity, rendered)
    PROVE  IInv'
<1> DEFINE r == Recomputed(c, found, severity, rendered)
           bytes == IF rendered THEN <<[file |-> r.conflicts]>> ELSE <<>>
           e == [kind |-> "resolved", by |-> u, on |-> ReviewDigest(r, 2)]
           contents == Settle(c, found)
<1>1. row \in Rows /\ ~ row.released /\ disk \in Policies /\ loaded \in Policies /\ u # Runner
  BY DEF IInv, GoodRows, Good, ResolveConflict, Handler, MayAct
<1>2. contents \in Contents
  BY <1>1 DEF Contents, Rows, Settle
<1> HIDE DEF contents
<1>3. r = [row EXCEPT !.conflicts = contents, !.severity = severity,
                      !.deliverable = IF rendered THEN contents ELSE None]
  BY DEF Recomputed, contents
<1> HIDE DEF r
<1>4. r \in Rows /\ ~ r.released /\ r.conflicts \in Contents
  BY <1>1, <1>2, <1>3 DEF Rows
<1>5. bytes \in Seq(GoodWrites)
  <2>1. [file |-> r.conflicts] \in GoodWrites
    BY <1>4 DEF GoodWrites
  <2>2. <<[file |-> r.conflicts]>> \in Seq(GoodWrites)
    BY <2>1
  <2> QED  BY <2>2, EmptySeq
<1>6. Persist(r) \in Seq(GoodWrites)
  BY <1>1, <1>4, UnreleasedIsGood, PersistType
<1>7. Record(e) \in Seq(GoodWrites)
  <2>1. e \in GoodEvents
    BY <1>1, <1>4, DigestType DEF GoodEvents, Events
  <2> QED  BY <2>1, RecordType
<1>8. RefreshWrites(r) \in Seq(GoodWrites)
  BY <1>1, <1>4, RefreshWritesType
<1>9. Persist(Refresh(r)) \in Seq(GoodWrites)
  BY <1>1, <1>4, RefreshFacts, UnreleasedIsGood, PersistType
<1>10. todo' = bytes \o Persist(r) \o Record(e) \o RefreshWrites(r) \o Persist(Refresh(r))
      /\ UNCHANGED <<row, file, log, disk, loaded, seen, disruptions>>
  BY DEF ResolveConflict, Handler, r
<1> HIDE DEF bytes, e
<1>11. todo' \in Seq(GoodWrites)
  BY <1>5, <1>6, <1>7, <1>8, <1>9, <1>10, ConcatProperties
<1>12. row' \in GoodRows
  BY <1>10 DEF IInv
<1> QED  BY <1>10, <1>11, <1>12 DEF IInv

LEMMA CancelStep ==
    ASSUME IInv, Cancel
    PROVE  IInv'
<1> DEFINE n == [row EXCEPT !.status = "cancelled"]
<1>1. row \in Rows /\ Good(row) /\ disk \in Policies
  BY DEF IInv, GoodRows
<1>2. /\ n \in Rows /\ n.status = "cancelled" /\ n.released = row.released
      /\ n.conflicts = row.conflicts /\ n.signatures = row.signatures /\ n.decided = row.decided
  BY <1>1 DEF Rows, Statuses
<1> HIDE DEF n
<1>3. n \in GoodRows
  BY <1>1, <1>2 DEF GoodRows, Good, OpenHighImpact
<1>4. [kind |-> "cancelled"] \in GoodEvents
  BY DEF GoodEvents, Events
<1>5. todo' = Persist(n) \o Record([kind |-> "cancelled"])
      /\ UNCHANGED <<row, file, log, disk, loaded, seen, disruptions>>
  BY DEF Cancel, n
<1>6. todo' \in Seq(GoodWrites)
  BY <1>1, <1>3, <1>4, <1>5, PersistType, RecordType, ConcatProperties
<1>7. row' \in GoodRows
  BY <1>5 DEF IInv
<1> QED  BY <1>5, <1>6, <1>7 DEF IInv

(* Whichever write is next, what it leaves is good. *)
LEMMA WriteStep ==
    ASSUME IInv, Write
    PROVE  IInv'
<1>1. Head(todo) \in GoodWrites /\ Tail(todo) \in Seq(GoodWrites)
  BY HeadTailProperties DEF IInv, Write
<1> DEFINE w == Head(todo)
<1>2. /\ todo' = Tail(todo)
      /\ row'  = IF "row" \in DOMAIN w THEN w.row ELSE row
      /\ file' = IF "file" \in DOMAIN w THEN w.file ELSE file
      /\ log'  = IF "event" \in DOMAIN w THEN log \cup {w.event} ELSE log
      /\ UNCHANGED <<disk, loaded, seen, disruptions>>
  BY DEF Write
<1> HIDE DEF w
<1>3. w \in GoodWrites
  BY <1>1 DEF w
<1>4. /\ "row" \in DOMAIN w => w.row \in GoodRows
      /\ "file" \in DOMAIN w => w.file \in Contents
      /\ "event" \in DOMAIN w => w.event \in GoodEvents
  BY <1>3 DEF GoodWrites
<1>5. row' \in GoodRows /\ file' \in Contents /\ log' \subseteq GoodEvents
  BY <1>2, <1>4 DEF IInv
<1> QED  BY <1>1, <1>2, <1>5 DEF IInv

LEMMA InitInv == Init => IInv
<1> SUFFICES ASSUME NEW version \in Formats, Gate(version)  PROVE IInv
  BY DEF Init
<1>1. disk \in Policies /\ loaded \in Policies
  BY DEF Gate
<1>2. PICK contents \in [Conflicts -> {"unseen", "unresolved"}], severity \in Severities \cup {None} :
        LET plan   == RequiredSignatures(loaded, severity)
            digest == IF version = 1 THEN [version |-> 1, content |-> contents]
                      ELSE [version |-> 2, content |-> contents, policy |-> disk]
            first  == {u \in Users \ {Runner} : plan # <<>> /\ RoleOf[u] = plan[1]}
        IN  /\ file = contents
            /\ \E signatures \in {<<>>} \cup
                  (IF version = 1 /\ Len(plan) > 1 THEN {<<[by |-> u, on |-> digest]>> : u \in first} ELSE {}) :
                 /\ row = [status |-> "awaiting_approval", conflicts |-> contents,
                           severity |-> severity, plan |-> plan,
                           approvers |-> IF plan = <<>> THEN ReviewRoles ELSE Range(plan),
                           signatures |-> signatures, voided |-> FALSE, digest |-> digest,
                           deliverable |-> contents, released |-> FALSE, decided |-> None]
                 /\ log = {[kind |-> "signed", by |-> s.by, on |-> s.on] : s \in Range(signatures)}
            /\ seen \in IF version = 1 THEN [Users -> {None, digest}] ELSE {[u \in Users |-> None]}
  BY DEF Gate
<1> DEFINE plan == RequiredSignatures(loaded, severity)
           digest == IF version = 1 THEN [version |-> 1, content |-> contents]
                     ELSE [version |-> 2, content |-> contents, policy |-> disk]
<1>3. contents \in Contents
  BY DEF Contents
<1>4. plan \in Seq(Roles)
  BY <1>1, ApprovalAssumption, EmptySeq DEF RequiredSignatures
<1>5. digest \in Digests
  BY <1>1, <1>3 DEF Digests
<1> HIDE DEF plan, digest
<1>6. (IF plan = <<>> THEN ReviewRoles ELSE Range(plan)) \in SUBSET Roles
  BY <1>4, RangeType, ApprovalAssumption
<1>7. PICK signatures \in {<<>>} \cup {<<[by |-> u, on |-> digest]>> : u \in Users \ {Runner}} :
        /\ row = [status |-> "awaiting_approval", conflicts |-> contents,
                  severity |-> severity, plan |-> plan,
                  approvers |-> IF plan = <<>> THEN ReviewRoles ELSE Range(plan),
                  signatures |-> signatures, voided |-> FALSE, digest |-> digest,
                  deliverable |-> contents, released |-> FALSE, decided |-> None]
        /\ log = {[kind |-> "signed", by |-> s.by, on |-> s.on] : s \in Range(signatures)}
  BY <1>2 DEF plan, digest
<1> DEFINE others == [by : Users \ {Runner}, on : Digests]
<1>8. \A u \in Users \ {Runner} : [by |-> u, on |-> digest] \in others
  BY <1>5
<1>9. signatures \in Seq(others)
  <2> HIDE DEF others
  <2>1. \A u \in Users \ {Runner} : <<[by |-> u, on |-> digest]>> \in Seq(others)
    BY <1>8
  <2>2. <<>> \in Seq(others)
    BY EmptySeq
  <2>3. CASE signatures = <<>>
    BY <2>2, <2>3
  <2>4. CASE signatures # <<>>
    <3>1. PICK u \in Users \ {Runner} : signatures = <<[by |-> u, on |-> digest]>>
      BY <1>7, <2>4
    <3> QED  BY <2>1, <3>1
  <2> QED  BY <2>3, <2>4
<1>10. signatures \in Seq(Signatures)
  <2>1. others \subseteq Signatures
    BY DEF Signatures
  <2> HIDE DEF others
  <2> QED  BY <1>9, <2>1
<1>11. log \subseteq GoodEvents
  <2>1. Range(signatures) \subseteq [by : Users \ {Runner}, on : Digests]
    BY <1>9, RangeType
  <2> QED  BY <1>7, <2>1 DEF GoodEvents, Events
<1>12. row \in Rows /\ ~ row.released
  BY <1>3, <1>4, <1>5, <1>6, <1>7, <1>10 DEF Rows, Statuses
<1>13. seen \in [Users -> Digests \cup {None}] /\ file \in Contents
  BY <1>2, <1>3, <1>5 DEF digest
<1>14. todo = <<>> /\ disruptions = 0
  BY DEF Gate
<1> QED
  BY <1>1, <1>11, <1>12, <1>13, <1>14, UnreleasedIsGood, EmptySeq DEF IInv

LEMMA NextStep == IInv /\ [Next]_vars => IInv'
<1> SUFFICES ASSUME IInv, [Next]_vars  PROVE IInv'
  OBVIOUS
<1>1. ASSUME NEW u \in Users, Open(u)  PROVE IInv'
  <2>1. ReviewDigest(row, 2) \in Digests
    BY DigestType DEF IInv, GoodRows
  <2> QED  BY <1>1, <2>1 DEF Open, IInv
<1>2. ASSUME NEW policy \in Policies, Restart(policy)  PROVE IInv'
  <2>1. disruptions' \in Nat
    BY <1>2 DEF Restart, IInv
  <2>2. todo' \in Seq(GoodWrites)
    BY <1>2, EmptySeq DEF Restart
  <2>3. row' = row /\ file' = file /\ log' = log /\ seen' = seen /\ disk' = policy /\ loaded' = policy
    BY <1>2 DEF Restart
  <2> QED  BY <2>1, <2>2, <2>3 DEF IInv
<1>4. ASSUME NEW policy \in Policies, EditPolicy(policy)  PROVE IInv'
  BY <1>4 DEF EditPolicy, IInv
<1>3. CASE UNCHANGED vars
  BY <1>3 DEF vars, IInv
<1> QED
  BY <1>1, <1>2, <1>3, <1>4, DecideStep, ResolveStep, CancelStep, WriteStep DEF Next

LEMMA Inductive == Spec => []IInv
BY InitInv, NextStep, PTL DEF Spec

(* Every variable keeps its type. *)
THEOREM TypeCorrect == Spec => []TypeOK
<1>1. IInv => TypeOK
  <2>1. GoodWrites \subseteq Writes
    BY DEF GoodWrites, GoodRows, GoodEvents, Writes
  <2>2. ASSUME NEW s \in Seq(GoodWrites)  PROVE s \in Seq(Writes)
    BY <2>1
  <2> QED  BY <2>2 DEF IInv, TypeOK, GoodRows, GoodEvents
<1> QED  BY <1>1, Inductive, PTL

(* Whatever crashes, resolutions, edits of the policy files and page views *)
(* come between the signatures of a run, the ones that release it, and the *)
(* last decision, are all on one version of its content (and of the policy *)
(* files, for signatures that bind them): the check _refresh_signatures    *)
(* makes of each under the digest version it was given under.              *)
THEOREM ReleasedOnOneVersion == Spec => []OneVersionSigned
<1>1. IInv => OneVersionSigned
  BY DEF IInv, GoodRows, Good, OneVersionSigned
<1> QED  BY <1>1, Inductive, PTL

(* No run is released while its sources disagree on an input its decision  *)
(* depends on, even when the settling of one dispute uncovers another.     *)
THEOREM NoReleaseInDispute == Spec => []NothingReleasedInDispute
<1>1. IInv => NothingReleasedInDispute
  BY DEF IInv, GoodRows, Good, NothingReleasedInDispute
<1> QED  BY <1>1, Inductive, PTL

(* Separation of duties: no signature, decision or resolution in the audit *)
(* log is by the account that ran the task.                                *)
THEOREM RunnerNeverDecides == Spec => []RunnerStaysOut
<1>1. IInv => RunnerStaysOut
  BY DEF IInv, GoodEvents, RunnerStaysOut
<1> QED  BY <1>1, Inductive, PTL

-----------------------------------------------------------------------------
(***************************************************************************)
(* Whose signature fills which place.  A row, stored or still to be        *)
(* stored, is read against the policy files d, the rules l the process     *)
(* runs by and the number n of disruptions so far: a signature that is     *)
(* still good sits in the place its role has in the plan it was asked by.  *)
(***************************************************************************)

(* What a run says only ever moves forward. *)
Before(a, b) ==
    \A c \in Conflicts : a[c] = b[c] \/ a[c] = "unseen" \/ (a[c] = "unresolved" /\ b[c] = "resolved")

PlanUnder(r, p) == IF r.severity = None THEN r.plan ELSE RequiredSignatures(p, r.severity)

BoundAt(s, n) == IF s.on.version = 1 THEN n = 0 ELSE ~HotEdits \/ n <= 1

(* Signature s holds place i: of the plan of the files its digest names,   *)
(* or, while the process still runs by other rules, of theirs.             *)
Placed(s, r, i, d, l, n) ==
    s.on.content = r.conflicts /\ BoundAt(s, n) =>
        /\ s.on.version = 1 => RoleOf[s.by] = PlanUnder(r, l)[i]
        /\ s.on.version = 2 /\ l = d => RoleOf[s.by] = PlanUnder(r, s.on.policy)[i]
        /\ s.on.version = 2 /\ l # d /\ s.on.policy = d => RoleOf[s.by] = PlanUnder(r, l)[i]
        /\ s.on.version = 2 /\ n = 0 => s.on.policy = d

Signers(r, d, l, n) ==
    \A i \in 1..Len(r.signatures) :
        /\ r.signatures[i].by # Runner
        /\ Before(r.signatures[i].on.content, r.conflicts)
        /\ Placed(r.signatures[i], r, i, d, l, n)
        /\ \A j \in 1..Len(r.signatures) : r.signatures[i].by = r.signatures[j].by => i = j

(* A released row has all its signatures. *)
Filled(r, n) ==
    r.released =>
        /\ r.status = "delivered"
        /\ Len(r.signatures) = Len(r.plan)
        /\ \A i \in 1..Len(r.signatures) :
              BoundAt(r.signatures[i], n) => RoleOf[r.signatures[i].by] = r.plan[i]
        /\ r.decided.by # Runner
        /\ r.approvers # {} => RoleOf[r.decided.by] \in r.approvers

FollowsPolicy(r, l) ==
    r.released /\ r.severity # None => r.plan = RequiredSignatures(l, r.severity)

SignedRows(d, l, n) == {r \in Rows : Signers(r, d, l, n) /\ Filled(r, n)}

SignedWrites(d, l, n) ==
    [row : {r \in SignedRows(d, l, n) : FollowsPolicy(r, l)}] \cup [event : Events] \cup [file : Contents]

SInv ==
    /\ disruptions = 0 \/ ~HotEdits => loaded = disk
    /\ row \in SignedRows(disk, loaded, disruptions)
    /\ todo \in Seq(SignedWrites(disk, loaded, disruptions))

(* The steps that change neither the files nor the rules leave a row as it *)
(* is; the two that do leave no write to be made.                          *)
LEMMA StillSigned ==
    ASSUME NEW r \in Rows, NEW d, NEW l, NEW n \in Nat, NEW p, NEW q,
           r \in SignedRows(d, l, n),
           n = 0 \/ ~HotEdits => l = d,
           p = q \/ (HotEdits /\ q = l)
    PROVE  r \in SignedRows(p, q, n + 1)
<1>1. ASSUME NEW s \in Signatures, BoundAt(s, n + 1)
      PROVE  BoundAt(s, n) /\ s.on.version # 1 /\ (~HotEdits \/ n = 0) /\ l = d
  BY <1>1 DEF BoundAt
<1>2. ASSUME NEW s \in Signatures, NEW i \in Nat, Placed(s, r, i, d, l, n)
      PROVE  Placed(s, r, i, p, q, n + 1)
  <2> SUFFICES ASSUME s.on.content = r.conflicts, BoundAt(s, n + 1)
               PROVE  /\ s.on.version = 1 => RoleOf[s.by] = PlanUnder(r, q)[i]
                      /\ s.on.version = 2 /\ q = p => RoleOf[s.by] = PlanUnder(r, s.on.policy)[i]
                      /\ s.on.version = 2 /\ q # p /\ s.on.policy = p =>
                            RoleOf[s.by] = PlanUnder(r, q)[i]
                      /\ s.on.version = 2 /\ n + 1 = 0 => s.on.policy = p
    BY DEF Placed
  <2>1. BoundAt(s, n) /\ s.on.version # 1 /\ (~HotEdits \/ n = 0) /\ l = d
    BY <1>1
  <2>2. /\ s.on.version = 2 => RoleOf[s.by] = PlanUnder(r, s.on.policy)[i]
        /\ s.on.version = 2 /\ n = 0 => s.on.policy = d
    BY <1>2, <2>1 DEF Placed
  <2>3. n + 1 # 0
    OBVIOUS
  <2> QED  BY <2>1, <2>2, <2>3
<1>3. r.signatures \in Seq(Signatures)
  BY DEF Rows
<1>4. \A i \in 1..Len(r.signatures) : r.signatures[i] \in Signatures /\ i \in Nat
  BY <1>3
<1>5. Signers(r, p, q, n + 1)
  BY <1>2, <1>4 DEF Signers, SignedRows
<1>6. Filled(r, n + 1)
  BY <1>1, <1>4 DEF Filled, SignedRows
<1> QED  BY <1>5, <1>6 DEF SignedRows

(* Refreshing asks for the plan of the running rules, and keeps no         *)
(* signature where none is asked.                                          *)
LEMMA RefreshPlans ==
    ASSUME NEW r \in Rows, loaded \in Policies
    PROVE  /\ Refresh(r).severity = r.severity
           /\ Refresh(r).plan = PlanUnder(r, loaded)
           /\ Refresh(r).plan = <<>> => Refresh(r).signatures = <<>>
<1>1. /\ Replan(r) \in Rows
      /\ Replan(r) = [r EXCEPT !.plan = Replan(r).plan, !.approvers = Replan(r).approvers]
  BY ReplanType
<1>2. Replan(r).severity = r.severity
  BY <1>1 DEF Rows
<1>3. Replan(r).plan = PlanUnder(r, loaded)
  BY DEF Replan, PlanUnder, Rows
<1>4. CASE MustVoid(Replan(r))
  <2>1. Refresh(r) = [Replan(r) EXCEPT !.signatures = <<>>, !.voided = TRUE]
    BY <1>4 DEF Refresh
  <2> QED  BY <1>1, <1>2, <1>3, <2>1 DEF Rows
<1>5. CASE ~ MustVoid(Replan(r))
  <2>1. Refresh(r) = Replan(r)
    BY <1>5 DEF Refresh
  <2>2. Replan(r).plan = <<>> => Replan(r).signatures = <<>>
    BY <1>5 DEF MustVoid, MustVoidIf
  <2> QED  BY <1>2, <1>3, <2>1, <2>2
<1> QED  BY <1>4, <1>5

LEMMA SamePlan ==
    ASSUME NEW r, NEW t, NEW l, t.severity = r.severity,
           t.plan = r.plan \/ t.plan = PlanUnder(r, l)
    PROVE  /\ PlanUnder(t, l) = PlanUnder(r, l)
           /\ r.severity # None => \A p : PlanUnder(t, p) = PlanUnder(r, p)
           /\ r.severity = None => t.plan = r.plan /\ \A p : PlanUnder(t, p) = PlanUnder(r, p)
BY DEF PlanUnder

(* Two rows that say the same are signed alike. *)
LEMMA SignedAlike ==
    ASSUME NEW r \in Rows, NEW t \in Rows, NEW d, NEW l, NEW n,
           t.conflicts = r.conflicts, t.severity = r.severity,
           t.plan = r.plan \/ t.plan = PlanUnder(r, l),
           t.signatures \in {<<>>, r.signatures},
           Signers(r, d, l, n)
    PROVE  Signers(t, d, l, n)
<1>1. CASE t.signatures = <<>>
  <2>1. Len(t.signatures) = 0
    BY <1>1, EmptySeq
  <2> QED  BY <2>1 DEF Signers
<1>2. CASE t.signatures = r.signatures
  <2>1. \A p : PlanUnder(t, p) = PlanUnder(r, p)
    BY SamePlan
  <2>2. ASSUME NEW s, NEW i, Placed(s, r, i, d, l, n)  PROVE Placed(s, t, i, d, l, n)
    BY <2>1, <2>2 DEF Placed
  <2> QED  BY <1>2, <2>2 DEF Signers
<1> QED  BY <1>1, <1>2

LEMMA UnreleasedSigned ==
    ASSUME NEW r \in Rows, ~ r.released, NEW d, NEW l, NEW n, Signers(r, d, l, n)
    PROVE  r \in SignedRows(d, l, n) /\ FollowsPolicy(r, l)
BY DEF SignedRows, Filled, FollowsPolicy

(* The digest stored with a row is nothing to its signatures. *)
LEMMA PersistSigned ==
    ASSUME NEW d, NEW l, NEW n, NEW r \in SignedRows(d, l, n), FollowsPolicy(r, l), disk \in Policies
    PROVE  Persist(r) \in Seq(SignedWrites(d, l, n))
<1> DEFINE t == [r EXCEPT !.digest = ReviewDigest(r, 2)]
<1>1. r \in Rows /\ Signers(r, d, l, n) /\ Filled(r, n)
  BY DEF SignedRows
<1>2. ReviewDigest(r, 2) \in Digests
  BY <1>1, DigestType
<1>3. /\ t \in Rows /\ t.conflicts = r.conflicts /\ t.severity = r.severity /\ t.plan = r.plan
      /\ t.signatures = r.signatures /\ t.released = r.released /\ t.status = r.status
      /\ t.decided = r.decided /\ t.approvers = r.approvers
  BY <1>1, <1>2 DEF Rows
<1>4. Persist(r) = <<[row |-> t]>>
  BY DEF Persist
<1> HIDE DEF t
<1>5. Signers(t, d, l, n)
  BY <1>1, <1>3, SignedAlike
<1>6. Filled(t, n) /\ FollowsPolicy(t, l)
  BY <1>1, <1>3 DEF Filled, FollowsPolicy
<1>7. [row |-> t] \in SignedWrites(d, l, n)
  BY <1>3, <1>5, <1>6 DEF SignedRows, SignedWrites
<1> QED  BY <1>4, <1>7

LEMMA RecordSigned ==
    ASSUME NEW e \in Events, NEW d, NEW l, NEW n
    PROVE  Record(e) \in Seq(SignedWrites(d, l, n))
<1>1. [event |-> e] \in SignedWrites(d, l, n)
  BY DEF SignedWrites
<1> QED  BY <1>1 DEF Record

LEMMA RefreshSigned ==
    ASSUME NEW r \in Rows, ~ r.released, loaded \in Policies, disk \in Policies,
           NEW d, NEW n, Signers(r, d, loaded, n)
    PROVE  /\ Refresh(r) \in Rows /\ ~ Refresh(r).released
           /\ Signers(Refresh(r), d, loaded, n)
           /\ RefreshWrites(r) \in Seq(SignedWrites(d, loaded, n))
<1> DEFINE t == Refresh(r)
<1>1. /\ t \in Rows /\ ~ t.released /\ t.conflicts = r.conflicts /\ t.severity = r.severity
      /\ t.plan = PlanUnder(r, loaded) /\ t.signatures \in {<<>>, r.signatures}
  BY RefreshFacts, RefreshPlans
<1>2. RefreshWrites(r) = IF MustVoid(Replan(r))
                         THEN Persist(t) \o Record([kind |-> "signatures_voided"]) ELSE <<>>
  BY DEF RefreshWrites
<1> HIDE DEF t
<1>3. Signers(t, d, loaded, n)
  BY <1>1, SignedAlike
<1>4. Persist(t) \in Seq(SignedWrites(d, loaded, n))
  BY <1>1, <1>3, UnreleasedSigned, PersistSigned
<1>5. [kind |-> "signatures_voided"] \in Events
  BY DEF Events
<1>6. Record([kind |-> "signatures_voided"]) \in Seq(SignedWrites(d, loaded, n))
  BY <1>5, RecordSigned
<1>7. RefreshWrites(r) \in Seq(SignedWrites(d, loaded, n))
  BY <1>2, <1>4, <1>6, ConcatProperties, EmptySeq
<1> QED  BY <1>1, <1>3, <1>7 DEF t

(* Signatures that are not stale are in the places the running rules ask. *)
LEMMA FreshFills ==
    ASSUME NEW r \in Rows, NEW n, Signers(r, disk, loaded, n), r.plan = PlanUnder(r, loaded),
           \A s \in Range(r.signatures) : ~ IsStale(s, r)
    PROVE  \A i \in 1..Len(r.signatures) :
              BoundAt(r.signatures[i], n) => RoleOf[r.signatures[i].by] = r.plan[i]
<1> SUFFICES ASSUME NEW i \in 1..Len(r.signatures), BoundAt(r.signatures[i], n)
             PROVE  RoleOf[r.signatures[i].by] = r.plan[i]
  OBVIOUS
<1> DEFINE s == r.signatures[i]
<1>1. r.signatures \in Seq(Signatures)
  BY DEF Rows
<1>2. s \in Signatures /\ s \in Range(r.signatures)
  BY <1>1, RangeType
<1>3. s.on \in Digests /\ s.on = ReviewDigest(r, s.on.version)
  BY <1>2 DEF IsStale, Signatures
<1>4. Placed(s, r, i, disk, loaded, n) /\ BoundAt(s, n)
  BY DEF Signers
<1> HIDE DEF s
<1>5. s.on.version = 1 \/ s.on.version = 2
  BY <1>3 DEF Digests
<1>6. s.on.content = r.conflicts /\ (s.on.version = 2 => s.on.policy = disk)
  BY <1>3, <1>5 DEF ReviewDigest
<1>7. RoleOf[s.by] = r.plan[i]
  BY <1>4, <1>5, <1>6 DEF Placed
<1> QED  BY <1>7 DEF s

LEMMA SignSigned ==
    ASSUME NEW r \in Rows, NEW u \in Users, u # Runner, ~ r.released,
           disk \in Policies, NEW n, Signers(r, disk, loaded, n),
           r.plan = PlanUnder(r, loaded), MaySign(u, r),
           \A s \in Range(r.signatures) : ~ IsStale(s, r)
    PROVE  /\ Sign(u, r) \in Rows /\ ~ Sign(u, r).released
           /\ Sign(u, r).plan = PlanUnder(Sign(u, r), loaded)
           /\ Sign(u, r).approvers = r.approvers
           /\ Signers(Sign(u, r), disk, loaded, n)
           /\ \A s \in Range(Sign(u, r).signatures) : ~ IsStale(s, Sign(u, r))
<1> DEFINE by == [by |-> u, on |-> ReviewDigest(r, 2)]
           t  == Sign(u, r)
           old == r.signatures
           new == Append(r.signatures, by)
<1>1. /\ by \in Signatures /\ by.by = u /\ by.on.content = r.conflicts /\ by.on.version = 2
      /\ by.on.policy = disk /\ by.on = ReviewDigest(r, 2)
  BY DigestType DEF Signatures, ReviewDigest
<1>2. t = [r EXCEPT !.signatures = new]
  BY DEF Sign
<1>3. old \in Seq(Signatures) /\ Len(old) \in Nat
  BY DEF Rows
<1> HIDE DEF by, t
<1>4. /\ new \in Seq(Signatures)
      /\ Len(new) = Len(old) + 1
      /\ \A j \in 1..Len(new) : new[j] = IF j <= Len(old) THEN old[j] ELSE by
  BY <1>1, <1>3, AppendProperties
<1> HIDE DEF new
<1>5. /\ t \in Rows /\ t.signatures = new /\ t.conflicts = r.conflicts /\ ~ t.released
      /\ t.severity = r.severity /\ t.plan = r.plan /\ t.approvers = r.approvers
  BY <1>2, <1>4 DEF Rows
<1>6. \A p : PlanUnder(t, p) = PlanUnder(r, p)
  BY <1>5, SamePlan
<1>7. \A j \in 1..Len(new) : j \in 1..Len(old) \/ (j = Len(old) + 1 /\ new[j] = by)
  BY <1>3, <1>4
<1>8. Range(old) = {old[j] : j \in 1..Len(old)} /\ Range(new) = {new[j] : j \in 1..Len(new)}
  BY <1>3, <1>4, RangeType
<1>9. /\ \A j \in 1..Len(old) : new[j] = old[j] /\ old[j].by # u
      /\ RoleOf[u] = r.plan[Len(old) + 1]
  BY <1>3, <1>4, <1>8 DEF MaySign
<1> HIDE DEF old
<1>10. \A i \in 1..Len(old) :
         /\ old[i].by # Runner
         /\ Before(old[i].on.content, r.conflicts)
         /\ Placed(old[i], r, i, disk, loaded, n)
         /\ \A j \in 1..Len(old) : old[i].by = old[j].by => i = j
  BY DEF Signers, old
<1>11. ASSUME NEW i \in 1..Len(new)
       PROVE  /\ new[i].by # Runner
              /\ Before(new[i].on.content, t.conflicts)
              /\ Placed(new[i], t, i, disk, loaded, n)
              /\ \A j \in 1..Len(new) : new[i].by = new[j].by => i = j
  <2>1. CASE i \in 1..Len(old)
    <3>1. Placed(new[i], t, i, disk, loaded, n)
      BY <1>5, <1>6, <1>9, <1>10, <2>1 DEF Placed
    <3>2. \A j \in 1..Len(new) : new[i].by = new[j].by => i = j
      BY <1>1, <1>7, <1>9, <1>10, <2>1
    <3> QED  BY <1>5, <1>9, <1>10, <2>1, <3>1, <3>2
  <2>2. CASE i = Len(old) + 1 /\ new[i] = by
    <3>1. Placed(by, t, i, disk, loaded, n)
      BY <1>1, <1>5, <1>6, <1>9, <2>2 DEF Placed
    <3>2. \A j \in 1..Len(new) : new[i].by = new[j].by => i = j
      BY <1>1, <1>7, <1>9, <2>2
    <3>3. Before(by.on.content, t.conflicts)
      BY <1>1, <1>5 DEF Before
    <3> QED  BY <1>1, <2>2, <3>1, <3>2, <3>3
  <2> QED  BY <1>7, <2>1, <2>2
<1>12. Signers(t, disk, loaded, n)
  BY <1>5, <1>11 DEF Signers
<1>13. ASSUME NEW s \in Range(new)  PROVE ~ IsStale(s, t)
  <2>1. s \in Range(old) \/ s = by
    BY <1>7, <1>8, <1>9
  <2>2. \A v : ReviewDigest(t, v) = ReviewDigest(r, v)
    BY <1>5 DEF ReviewDigest
  <2>3. s \in Range(old) => ~ IsStale(s, r)
    BY DEF old
  <2> QED  BY <1>1, <2>1, <2>2, <2>3 DEF IsStale
<1> QED  BY <1>5, <1>6, <1>12, <1>13 DEF t

LEMMA ConcludeSigned ==
    ASSUME NEW r \in Rows, NEW u \in Users, NEW c \in Decisions, u # Runner, ~ r.released,
           disk \in Policies, NEW n, Signers(r, disk, loaded, n), r.plan = PlanUnder(r, loaded),
           r.approvers # {} => RoleOf[u] \in r.approvers,
           c = "approve" => Len(r.signatures) = Len(r.plan),
           \A s \in Range(r.signatures) : ~ IsStale(s, r)
    PROVE  Conclude(u, c, r) \in Seq(SignedWrites(disk, loaded, n))
<1> DEFINE by == [by |-> u, on |-> ReviewDigest(r, 2)]
           e  == [kind |-> c, by |-> u, on |-> ReviewDigest(r, 2)]
           t  == [r EXCEPT !.status = Outcome[c], !.released = (c = "approve"), !.decided = by]
<1>1. by \in Signatures /\ by.by = u
  BY DigestType DEF Signatures
<1>2. e \in Events
  BY DigestType DEF Events, Decisions
<1>3. Outcome[c] \in Statuses /\ (c = "approve" => Outcome[c] = "delivered")
  BY DEF Outcome, Statuses, Decisions
<1>4. Conclude(u, c, r) = Persist(t) \o Record(e)
  BY DEF Conclude
<1> HIDE DEF by, e
<1>5. t \in Rows
  BY <1>1, <1>3 DEF Rows
<1>6. /\ t.status = Outcome[c] /\ t.released = (c = "approve") /\ t.decided = by
      /\ t.conflicts = r.conflicts /\ t.severity = r.severity /\ t.plan = r.plan
      /\ t.signatures = r.signatures /\ t.approvers = r.approvers
  BY DEF Rows
<1> HIDE DEF t
<1>7. Signers(t, disk, loaded, n)
  BY <1>5, <1>6, SignedAlike
<1>8. \A i \in 1..Len(r.signatures) :
         BoundAt(r.signatures[i], n) => RoleOf[r.signatures[i].by] = r.plan[i]
  BY FreshFills
<1>9. Filled(t, n) /\ FollowsPolicy(t, loaded)
  BY <1>1, <1>3, <1>6, <1>8 DEF Filled, FollowsPolicy, PlanUnder
<1>10. Persist(t) \in Seq(SignedWrites(disk, loaded, n))
  BY <1>5, <1>7, <1>9, PersistSigned DEF SignedRows
<1> QED  BY <1>2, <1>4, <1>10, RecordSigned, ConcatProperties

LEMMA SignWritesSigned ==
    ASSUME NEW r \in Rows, NEW u \in Users, u # Runner, ~ r.released,
           disk \in Policies, NEW n, Signers(r, disk, loaded, n),
           r.plan = PlanUnder(r, loaded), MaySign(u, r),
           r.approvers # {} => RoleOf[u] \in r.approvers,
           \A s \in Range(r.signatures) : ~ IsStale(s, r)
    PROVE  SignWrites(u, r) \in Seq(SignedWrites(disk, loaded, n))
<1> DEFINE t == Sign(u, r)
           e == [kind |-> "signed", by |-> u, on |-> ReviewDigest(r, 2)]
<1>1. /\ t \in Rows /\ ~ t.released /\ t.plan = PlanUnder(t, loaded) /\ t.approvers = r.approvers
      /\ Signers(t, disk, loaded, n)
      /\ \A s \in Range(t.signatures) : ~ IsStale(s, t)
  BY SignSigned
<1>2. e \in Events
  BY DigestType DEF Events
<1>3. SignWrites(u, r) = Record(e) \o
         (IF Len(t.signatures) = Len(t.plan) THEN Conclude(u, "approve", t) ELSE Persist(t))
  BY DEF SignWrites, Consequence
<1> HIDE DEF t, e
<1>4. CASE Len(t.signatures) = Len(t.plan)
  <2>1. Conclude(u, "approve", t) \in Seq(SignedWrites(disk, loaded, n))
    BY <1>1, <1>4, ConcludeSigned DEF Decisions
  <2> QED  BY <1>2, <1>3, <1>4, <2>1, RecordSigned, ConcatProperties
<1>5. CASE Len(t.signatures) # Len(t.plan)
  <2>1. Persist(t) \in Seq(SignedWrites(disk, loaded, n))
    BY <1>1, UnreleasedSigned, PersistSigned
  <2> QED  BY <1>2, <1>3, <1>5, <2>1, RecordSigned, ConcatProperties
<1> QED  BY <1>4, <1>5

LEMMA DecideSigned ==
    ASSUME IInv, SInv, NEW u \in Users, NEW c \in Decisions, NEW commented \in BOOLEAN,
           DecideApproval(u, c, commented)
    PROVE  SInv'
<1> DEFINE r == Refresh(row)
           W == SignedWrites(disk, loaded, disruptions)
           decision == IF ~ Permitted(u, c, commented, r) THEN <<>>
                       ELSE IF c = "approve" /\ r.plan # <<>> THEN SignWrites(u, r)
                       ELSE Conclude(u, c, r)
<1>1. /\ row \in Rows /\ ~ row.released /\ disk \in Policies /\ loaded \in Policies
      /\ Signers(row, disk, loaded, disruptions)
  BY DEF IInv, GoodRows, Good, DecideApproval, Handler, SInv, SignedRows
<1>2. /\ r \in Rows /\ ~ r.released /\ r.conflicts = row.conflicts
      /\ \A s \in Range(r.signatures) : ~ IsStale(s, row)
  BY <1>1, RefreshFacts
<1>3. /\ r.severity = row.severity /\ r.plan = PlanUnder(row, loaded)
      /\ r.plan = <<>> => r.signatures = <<>>
  BY <1>1, RefreshPlans
<1>4. Signers(r, disk, loaded, disruptions) /\ RefreshWrites(row) \in Seq(W)
  BY <1>1, RefreshSigned
<1>5. todo' = RefreshWrites(row) \o decision
      /\ UNCHANGED <<row, disk, loaded, disruptions>>
  BY DEF DecideApproval, Handler
<1> HIDE DEF r
<1>6. r.plan = PlanUnder(r, loaded)
  BY <1>3 DEF PlanUnder
<1>7. \A s \in Range(r.signatures) : ~ IsStale(s, r)
  BY <1>2 DEF IsStale, ReviewDigest
<1>8. decision \in Seq(W)
  <2>1. CASE ~ Permitted(u, c, commented, r)
    BY <2>1, EmptySeq
  <2>2. CASE Permitted(u, c, commented, r)
    <3>1. /\ u # Runner /\ (r.approvers # {} => RoleOf[u] \in r.approvers)
          /\ c = "approve" /\ r.plan # <<>> => MaySign(u, r)
      BY <2>2 DEF Permitted, MayAct
    <3>2. CASE c = "approve" /\ r.plan # <<>>
      <4>1. SignWrites(u, r) \in Seq(W)
        BY <1>1, <1>2, <1>4, <1>6, <1>7, <3>1, <3>2, SignWritesSigned
      <4> QED  BY <2>2, <3>2, <4>1
    <3>3. CASE ~ (c = "approve" /\ r.plan # <<>>)
      <4>1. c = "approve" => Len(r.signatures) = Len(r.plan)
        BY <1>3, <3>3
      <4>2. Conclude(u, c, r) \in Seq(W)
        BY <1>1, <1>2, <1>4, <1>6, <1>7, <3>1, <4>1, ConcludeSigned
      <4> QED  BY <2>2, <3>3, <4>2
    <3> QED  BY <3>2, <3>3
  <2> QED  BY <2>1, <2>2
<1> HIDE DEF decision, W
<1>9. todo' \in Seq(W)
  BY <1>4, <1>5, <1>8, ConcatProperties
<1>10. todo' \in Seq(SignedWrites(disk', loaded', disruptions'))
  BY <1>5, <1>9 DEF W
<1> QED  BY <1>5, <1>10 DEF SInv

LEMMA ResolveSigned ==
    ASSUME IInv, SInv, NEW u \in Users, NEW c \in Conflicts, NEW found \in SUBSET Conflicts,
           NEW severity \in Severities \cup {None}, NEW rendered \in BOOLEAN,
           ResolveConflict(u, c, found, severity, rendered)
    PROVE  SInv'
<1> DEFINE r == Recomputed(c, found, severity, rendered)
           W == SignedWrites(disk, loaded, disruptions)
           bytes == IF rendered THEN <<[file |-> r.conflicts]>> ELSE <<>>
           e == [kind |-> "resolved", by |-> u, on |-> ReviewDigest(r, 2)]
           contents == Settle(c, found)
<1>1. /\ row \in Rows /\ ~ row.released /\ disk \in Policies /\ loaded \in Policies
      /\ Signers(row, disk, loaded, disruptions)
      /\ row.conflicts[c] = "unresolved" /\ \A k \in found : row.conflicts[k] = "unseen"
  BY DEF IInv, GoodRows, Good, ResolveConflict, Handler, SInv, SignedRows
<1>2. contents \in Contents /\ contents[c] = "resolved" /\ Before(row.conflicts, contents)
  BY <1>1 DEF Contents, Rows, Settle, Before
<1> HIDE DEF contents
<1>3. r = [row EXCEPT !.conflicts = contents, !.severity = severity,
                      !.deliverable = IF rendered THEN contents ELSE None]
  BY DEF Recomputed, contents
<1>4. /\ todo' = bytes \o Persist(r) \o Record(e) \o RefreshWrites(r) \o Persist(Refresh(r))
      /\ UNCHANGED <<row, disk, loaded, disruptions>>
  BY DEF ResolveConflict, Handler
<1> HIDE DEF r
<1>5. /\ r \in Rows /\ ~ r.released /\ r.conflicts = contents
      /\ r.signatures = row.signatures
  BY <1>1, <1>2, <1>3 DEF Rows
<1>6. Signers(r, disk, loaded, disruptions)
  <2> SUFFICES ASSUME NEW i \in 1..Len(row.signatures)
               PROVE  /\ row.signatures[i].by # Runner
                      /\ Before(row.signatures[i].on.content, contents)
                      /\ Placed(row.signatures[i], r, i, disk, loaded, disruptions)
                      /\ \A j \in 1..Len(row.signatures) :
                            row.signatures[i].by = row.signatures[j].by => i = j
    BY <1>5 DEF Signers
  <2> DEFINE s == row.signatures[i]
  <2>1. /\ s.by # Runner /\ Before(s.on.content, row.conflicts)
        /\ \A j \in 1..Len(row.signatures) : s.by = row.signatures[j].by => i = j
    BY <1>1 DEF Signers
  <2> HIDE DEF s
  <2>2. s.on.content[c] # "resolved"
    BY <1>1, <2>1 DEF Before
  <2>3. Placed(s, r, i, disk, loaded, disruptions)
    BY <1>2, <1>5, <2>2 DEF Placed
  <2>4. Before(s.on.content, contents)
    BY <1>2, <2>1 DEF Before
  <2> QED  BY <2>1, <2>3, <2>4 DEF s
<1>7. bytes \in Seq(W)
  <2>1. [file |-> r.conflicts] \in W
    BY <1>2, <1>5 DEF SignedWrites
  <2>2. <<[file |-> r.conflicts]>> \in Seq(W)
    BY <2>1
  <2> QED  BY <2>2, EmptySeq
<1>8. Persist(r) \in Seq(W)
  BY <1>1, <1>5, <1>6, UnreleasedSigned, PersistSigned
<1>9. Record(e) \in Seq(W)
  <2>1. e \in Events
    BY <1>1, <1>5, DigestType DEF Events
  <2> QED  BY <2>1, RecordSigned
<1>10. /\ Refresh(r) \in Rows /\ ~ Refresh(r).released
       /\ Signers(Refresh(r), disk, loaded, disruptions)
       /\ RefreshWrites(r) \in Seq(W)
  BY <1>1, <1>5, <1>6, RefreshSigned
<1>11. Persist(Refresh(r)) \in Seq(W)
  BY <1>1, <1>10, UnreleasedSigned, PersistSigned
<1> HIDE DEF bytes, e, W
<1>12. todo' \in Seq(W)
  BY <1>4, <1>7, <1>8, <1>9, <1>10, <1>11, ConcatProperties
<1>13. todo' \in Seq(SignedWrites(disk', loaded', disruptions'))
  BY <1>4, <1>12 DEF W
<1> QED  BY <1>4, <1>13 DEF SInv

LEMMA CancelSigned ==
    ASSUME IInv, SInv, Cancel
    PROVE  SInv'
<1> DEFINE t == [row EXCEPT !.status = "cancelled"]
           W == SignedWrites(disk, loaded, disruptions)
<1>1. /\ row \in Rows /\ disk \in Policies /\ ~ row.released
      /\ Signers(row, disk, loaded, disruptions)
  BY DEF IInv, GoodRows, Good, SInv, SignedRows, Filled, Cancel
<1>2. /\ t \in Rows /\ ~ t.released /\ t.conflicts = row.conflicts /\ t.severity = row.severity
      /\ t.plan = row.plan /\ t.signatures = row.signatures
  BY <1>1 DEF Rows, Statuses
<1>3. todo' = Persist(t) \o Record([kind |-> "cancelled"])
      /\ UNCHANGED <<row, disk, loaded, disruptions>>
  BY DEF Cancel
<1> HIDE DEF t
<1>4. Persist(t) \in Seq(W)
  BY <1>1, <1>2, SignedAlike, UnreleasedSigned, PersistSigned
<1>5. [kind |-> "cancelled"] \in Events
  BY DEF Events
<1>6. Record([kind |-> "cancelled"]) \in Seq(W)
  BY <1>5, RecordSigned
<1> HIDE DEF W
<1>7. todo' \in Seq(W)
  BY <1>3, <1>4, <1>6, ConcatProperties
<1>8. todo' \in Seq(SignedWrites(disk', loaded', disruptions'))
  BY <1>3, <1>7 DEF W
<1> QED  BY <1>3, <1>8 DEF SInv

LEMMA WriteSigned ==
    ASSUME SInv, Write
    PROVE  /\ SInv'
           /\ row' = row \/ FollowsPolicy(row', loaded)
<1> DEFINE w == Head(todo)
           W == SignedWrites(disk, loaded, disruptions)
<1>1. w \in W /\ Tail(todo) \in Seq(W)
  BY HeadTailProperties DEF SInv, Write
<1>2. /\ todo' = Tail(todo)
      /\ row' = IF "row" \in DOMAIN w THEN w.row ELSE row
      /\ UNCHANGED <<disk, loaded, disruptions>>
  BY DEF Write
<1> HIDE DEF w
<1>3. "row" \in DOMAIN w => w.row \in SignedRows(disk, loaded, disruptions) /\ FollowsPolicy(w.row, loaded)
  BY <1>1 DEF SignedWrites
<1>4. row' \in SignedRows(disk, loaded, disruptions) /\ (row' = row \/ FollowsPolicy(row', loaded))
  BY <1>2, <1>3 DEF SInv
<1> HIDE DEF W
<1>5. todo' \in Seq(W)
  BY <1>1, <1>2
<1>6. /\ todo' \in Seq(SignedWrites(disk', loaded', disruptions'))
      /\ row' \in SignedRows(disk', loaded', disruptions')
  BY <1>2, <1>4, <1>5 DEF W
<1> QED  BY <1>2, <1>4, <1>6 DEF SInv

LEMMA InitSigned == Init => SInv
<1> SUFFICES ASSUME NEW version \in Formats, Gate(version)  PROVE SInv
  BY DEF Init
<1>1. loaded = disk /\ todo = <<>> /\ disruptions = 0 /\ IInv
  BY InitInv DEF Gate, Init
<1>2. PICK contents \in [Conflicts -> {"unseen", "unresolved"}], severity \in Severities \cup {None} :
        \E signatures \in {<<>>} \cup
              {<<[by |-> u, on |-> [version |-> 1, content |-> contents]]>> :
                  u \in {v \in Users \ {Runner} :
                           /\ RequiredSignatures(loaded, severity) # <<>>
                           /\ RoleOf[v] = RequiredSignatures(loaded, severity)[1]}} :
           /\ row.conflicts = contents /\ row.severity = severity /\ row.signatures = signatures
           /\ ~ row.released
  BY DEF Gate
<1> DEFINE firsts ==
             {<<[by |-> u, on |-> [version |-> 1, content |-> contents]]>> :
                 u \in {v \in Users \ {Runner} :
                          /\ RequiredSignatures(loaded, severity) # <<>>
                          /\ RoleOf[v] = RequiredSignatures(loaded, severity)[1]}}
<1>3. PICK signatures \in {<<>>} \cup firsts :
        /\ row.conflicts = contents /\ row.severity = severity /\ row.signatures = signatures
        /\ ~ row.released
  BY <1>2
<1>4. row \in Rows
  BY <1>1 DEF IInv, GoodRows
<1>5. Signers(row, disk, loaded, disruptions)
  <2>1. CASE signatures = <<>>
    <3>1. Len(row.signatures) = 0
      BY <1>3, <2>1, EmptySeq
    <3> QED  BY <3>1 DEF Signers
  <2>2. CASE signatures # <<>>
    <3>1. PICK u \in Users \ {Runner} :
             /\ RequiredSignatures(loaded, severity) # <<>>
             /\ RoleOf[u] = RequiredSignatures(loaded, severity)[1]
             /\ signatures = <<[by |-> u, on |-> [version |-> 1, content |-> contents]]>>
      BY <1>3, <2>2
    <3>2. severity # None /\ PlanUnder(row, loaded) = RequiredSignatures(loaded, severity)
      BY <1>3, <3>1 DEF PlanUnder, RequiredSignatures
    <3> DEFINE s == [by |-> u, on |-> [version |-> 1, content |-> contents]]
    <3>3. s.by = u /\ s.on.version = 1 /\ s.on.content = row.conflicts
      BY <1>3
    <3>4. row.signatures = <<s>>
      BY <1>3, <3>1
    <3> HIDE DEF s
    <3>5. Len(row.signatures) = 1 /\ row.signatures[1] = s
      BY <3>4
    <3>6. Placed(s, row, 1, disk, loaded, disruptions)
      BY <3>1, <3>2, <3>3 DEF Placed
    <3>7. Before(s.on.content, row.conflicts)
      BY <3>3 DEF Before
    <3>8. \A i \in 1..Len(row.signatures) : i = 1
      BY <3>5
    <3> QED  BY <3>1, <3>3, <3>5, <3>6, <3>7, <3>8 DEF Signers
  <2> QED  BY <2>1, <2>2
<1>6. row \in SignedRows(disk, loaded, disruptions)
  BY <1>3, <1>4, <1>5, UnreleasedSigned
<1> QED  BY <1>1, <1>6, EmptySeq DEF SInv

LEMMA NextSigned == IInv /\ SInv /\ [Next]_vars => SInv'
<1> SUFFICES ASSUME IInv, SInv, [Next]_vars  PROVE SInv'
  OBVIOUS
<1>1. ASSUME NEW u \in Users, Open(u)  PROVE SInv'
  BY <1>1 DEF Open, SInv
<1>2. ASSUME NEW policy \in Policies, Restart(policy) \/ EditPolicy(policy)  PROVE SInv'
  <2>1. /\ row' = row /\ todo' = <<>> /\ disruptions' = disruptions + 1 /\ disk' = policy
        /\ loaded' = policy \/ (HotEdits /\ loaded' = loaded)
    <3>1. CASE Restart(policy)
      <4>1. /\ row' = row /\ todo' = <<>> /\ disruptions' = disruptions + 1
            /\ disk' = policy /\ loaded' = policy
        BY <3>1 DEF Restart
      <4> QED  BY <4>1
    <3>2. CASE EditPolicy(policy)
      BY <3>2 DEF EditPolicy
    <3> QED  BY <1>2, <3>1, <3>2
  <2>2. /\ row \in Rows /\ row \in SignedRows(disk, loaded, disruptions) /\ disruptions \in Nat
        /\ disruptions = 0 \/ ~HotEdits => loaded = disk
    BY DEF IInv, GoodRows, SInv
  <2>3. row \in SignedRows(disk', loaded', disruptions + 1)
    BY <2>1, <2>2, StillSigned
  <2>4. disruptions' # 0 /\ (~HotEdits => loaded' = disk')
    BY <2>1, <2>2
  <2> QED  BY <2>1, <2>3, <2>4, EmptySeq DEF SInv
<1>3. CASE UNCHANGED vars
  BY <1>3 DEF vars, SInv
<1> QED
  BY <1>1, <1>2, <1>3, DecideSigned, ResolveSigned, CancelSigned, WriteSigned DEF Next

LEMMA InductiveSigned == Spec => [](IInv /\ SInv)
<1>1. Init => IInv /\ SInv
  BY InitInv, InitSigned
<1>2. (IInv /\ SInv) /\ [Next]_vars => (IInv /\ SInv)'
  BY NextStep, NextSigned
<1> QED  BY <1>1, <1>2, PTL DEF Spec

(* A released run has one signature for each place of its plan, by as many *)
(* people, none of whom ran it, and each signature its digest binds to the *)
(* rules it was asked by is of the role of its place - whatever restarts,  *)
(* policy edits, resolutions and refusals came between them, and whichever *)
(* plan was asked of the run before.                                       *)
THEOREM ReleasedAsPlanned == Spec => []SignedByPlan
<1>1. ASSUME NEW s  PROVE Bound(s) <=> BoundAt(s, disruptions)
  BY DEF Bound, BoundAt
<1>2. SInv => SignedByPlan
  BY <1>1 DEF SInv, SignedRows, Signers, Filled, SignedByPlan
<1> QED  BY <1>2, InductiveSigned, PTL

(* The step that releases a run does so on the plan the rules of the       *)
(* running process have for its severity, not on the one it was held with. *)
THEOREM ReleasedByRunningPolicy == Spec => ReleaseFollowsPolicy
<1>1. SInv /\ [Next]_vars =>
         [~ row.released /\ row'.released /\ row'.severity # None =>
             row'.plan = RequiredSignatures(loaded, row'.severity)]_vars
  <2> SUFFICES ASSUME SInv, Next, ~ row.released, row'.released, row'.severity # None
               PROVE  row'.plan = RequiredSignatures(loaded, row'.severity)
    BY DEF vars
  <2>1. Write \/ row' = row
    <3>1. ASSUME NEW u \in Users, NEW d \in Decisions, NEW commented \in BOOLEAN,
                 DecideApproval(u, d, commented)
          PROVE  row' = row
      BY <3>1 DEF DecideApproval, Handler
    <3>2. ASSUME NEW u \in Users, NEW c \in Conflicts, NEW found \in SUBSET Conflicts,
                 NEW severity \in Severities \cup {None}, NEW rendered \in BOOLEAN,
                 ResolveConflict(u, c, found, severity, rendered)
          PROVE  row' = row
      BY <3>2 DEF ResolveConflict, Handler
    <3>3. ASSUME NEW p, Restart(p) \/ EditPolicy(p)  PROVE row' = row
      BY <3>3 DEF Restart, EditPolicy
    <3>4. ASSUME NEW u \in Users, Open(u)  PROVE row' = row
      BY <3>4 DEF Open
    <3>5. Cancel => row' = row
      BY DEF Cancel
    <3> QED  BY <3>1, <3>2, <3>3, <3>4, <3>5 DEF Next
  <2>2. FollowsPolicy(row', loaded)
    BY <2>1, WriteSigned
  <2> QED  BY <2>2 DEF FollowsPolicy
<1> QED  BY <1>1, InductiveSigned, PTL DEF Spec, ReleaseFollowsPolicy

-----------------------------------------------------------------------------
(***************************************************************************)
(* Signatures and the log.  A row still to be written may carry a          *)
(* signature the log does not have, if its record is written before it.    *)
(***************************************************************************)

SignedEvent(s) == [kind |-> "signed", by |-> s.by, on |-> s.on]

Logged(r, L) == \A s \in Range(r.signatures) : SignedEvent(s) \in L

IsEvent(w, e) == "event" \in DOMAIN w /\ w.event = e

Backed(L, w) ==
    \A k \in 1..Len(w) : "row" \in DOMAIN w[k] =>
        \A s \in Range(w[k].row.signatures) :
            \/ SignedEvent(s) \in L
            \/ \E j \in 1..k : IsEvent(w[j], SignedEvent(s))

LoggedWrites(L) ==
    [row : {r \in Rows : Logged(r, L)}] \cup [event : Events] \cup [file : Contents]

LInv == todo \in Seq(Writes) /\ Logged(row, log) /\ Backed(log, todo)

LEMMA LoggedIsBacked ==
    ASSUME NEW L, NEW w \in Seq(LoggedWrites(L))
    PROVE  w \in Seq(Writes) /\ Backed(L, w)
<1>1. LoggedWrites(L) \subseteq Writes
  BY DEF LoggedWrites, Writes
<1>2. w \in Seq(Writes)
  BY <1>1
<1>3. \A x \in LoggedWrites(L) : "row" \in DOMAIN x => Logged(x.row, L)
  BY DEF LoggedWrites
<1>4. \A k \in 1..Len(w) : w[k] \in LoggedWrites(L)
  OBVIOUS
<1> QED  BY <1>2, <1>3, <1>4 DEF Backed, Logged

\* The writes of a then those of b, place by place.
LEMMA ConcatPlaces ==
    ASSUME NEW a \in Seq(Writes), NEW b \in Seq(Writes)
    PROVE  /\ a \o b \in Seq(Writes)
           /\ Len(a \o b) = Len(a) + Len(b) /\ Len(a) \in Nat /\ Len(b) \in Nat
           /\ \A k \in 1..Len(a \o b) :
                 (a \o b)[k] = IF k <= Len(a) THEN a[k] ELSE b[k - Len(a)]
<1>1. Len(a) \in Nat /\ Len(b) \in Nat
  BY LenProperties
<1>2. /\ a \o b \in Seq(Writes) /\ Len(a \o b) = Len(a) + Len(b)
  BY ConcatProperties
<1>3. \A k \in 1..Len(a) + Len(b) :
        (a \o b)[k] = IF k <= Len(a) THEN a[k] ELSE b[k - Len(a)]
  BY ConcatProperties
<1> QED  BY <1>1, <1>2, <1>3

LEMMA BackedConcat ==
    ASSUME NEW a \in Seq(Writes), NEW b \in Seq(Writes), NEW L, NEW M,
           Backed(L, a), Backed(M, b),
           \A e \in M : e \in L \/ \E j \in 1..Len(a) : IsEvent(a[j], e)
    PROVE  Backed(L, a \o b)
<1> DEFINE w == a \o b
<1>1. /\ Len(w) = Len(a) + Len(b) /\ Len(a) \in Nat /\ Len(b) \in Nat
      /\ \A k \in 1..Len(w) : w[k] = IF k <= Len(a) THEN a[k] ELSE b[k - Len(a)]
  BY ConcatPlaces
<1> HIDE DEF w
<1>2. \A j \in 1..Len(a) : w[j] = a[j]
  BY <1>1
<1>3. ASSUME NEW k \in 1..Len(w), "row" \in DOMAIN w[k], NEW s \in Range(w[k].row.signatures)
      PROVE  SignedEvent(s) \in L \/ \E j \in 1..k : IsEvent(w[j], SignedEvent(s))
  <2>1. CASE k <= Len(a)
    <3>1. k \in 1..Len(a) /\ w[k] = a[k]
      BY <1>1, <2>1
    <3>2. SignedEvent(s) \in L \/ \E j \in 1..k : IsEvent(a[j], SignedEvent(s))
      BY <1>3, <3>1 DEF Backed
    <3>3. \A j \in 1..k : w[j] = a[j]
      BY <1>1, <3>1
    <3> QED  BY <3>2, <3>3
  <2>2. CASE k > Len(a)
    <3> DEFINE i == k - Len(a)
    <3>1. i \in 1..Len(b) /\ w[k] = b[i]
      BY <1>1, <2>2
    <3>2. SignedEvent(s) \in M \/ \E j \in 1..i : IsEvent(b[j], SignedEvent(s))
      BY <1>3, <3>1 DEF Backed
    <3>3. ASSUME NEW j \in 1..i
          PROVE  j + Len(a) \in 1..k /\ w[j + Len(a)] = b[j]
      BY <1>1, <2>2
    <3>4. CASE SignedEvent(s) \in M
      <4>1. SignedEvent(s) \in L \/ \E j \in 1..Len(a) : IsEvent(a[j], SignedEvent(s))
        BY <3>4
      <4>2. \A j \in 1..Len(a) : j \in 1..k
        BY <1>1, <2>2
      <4> QED  BY <1>2, <4>1, <4>2
    <3>5. CASE \E j \in 1..i : IsEvent(b[j], SignedEvent(s))
      BY <3>3, <3>5
    <3> QED  BY <3>2, <3>4, <3>5
  <2> QED  BY <1>1, <2>1, <2>2
<1>4. Backed(L, w)
  BY <1>3 DEF Backed
<1> QED  BY <1>4 DEF w

LEMMA PersistLogged ==
    ASSUME NEW L, NEW r \in Rows, Logged(r, L), disk \in Policies
    PROVE  Persist(r) \in Seq(LoggedWrites(L))
<1> DEFINE t == [r EXCEPT !.digest = ReviewDigest(r, 2)]
<1>1. ReviewDigest(r, 2) \in Digests
  BY DigestType
<1>2. t \in Rows /\ t.signatures = r.signatures
  BY <1>1 DEF Rows
<1>3. Persist(r) = <<[row |-> t]>>
  BY DEF Persist
<1> HIDE DEF t
<1>4. [row |-> t] \in LoggedWrites(L)
  BY <1>2 DEF LoggedWrites, Logged
<1> QED  BY <1>3, <1>4

LEMMA RecordLogged ==
    ASSUME NEW L, NEW e \in Events
    PROVE  Record(e) \in Seq(LoggedWrites(L))
<1>1. [event |-> e] \in LoggedWrites(L)
  BY DEF LoggedWrites
<1> QED  BY <1>1 DEF Record

LEMMA ConcludeLogged ==
    ASSUME NEW L, NEW r \in Rows, Logged(r, L), NEW u \in Users, NEW c \in Decisions, disk \in Policies
    PROVE  Conclude(u, c, r) \in Seq(LoggedWrites(L))
<1> DEFINE by == [by |-> u, on |-> ReviewDigest(r, 2)]
           e  == [kind |-> c, by |-> u, on |-> ReviewDigest(r, 2)]
           t  == [r EXCEPT !.status = Outcome[c], !.released = (c = "approve"), !.decided = by]
<1>1. by \in Signatures /\ e \in Events
  BY DigestType DEF Signatures, Events, Decisions
<1>2. Outcome[c] \in Statuses
  BY DEF Outcome, Statuses, Decisions
<1>3. Conclude(u, c, r) = Persist(t) \o Record(e)
  BY DEF Conclude
<1> HIDE DEF by, e
<1>4. t \in Rows /\ t.signatures = r.signatures
  BY <1>1, <1>2 DEF Rows
<1> HIDE DEF t
<1>5. Persist(t) \in Seq(LoggedWrites(L))
  BY <1>4, PersistLogged DEF Logged
<1> QED  BY <1>1, <1>3, <1>5, RecordLogged, ConcatProperties

LEMMA RefreshLogged ==
    ASSUME NEW L, NEW r \in Rows, Logged(r, L), disk \in Policies, loaded \in Policies
    PROVE  /\ Refresh(r) \in Rows /\ Logged(Refresh(r), L)
           /\ RefreshWrites(r) \in Seq(LoggedWrites(L))
<1> DEFINE t == Refresh(r)
<1>1. t \in Rows /\ t.signatures \in {<<>>, r.signatures}
  BY RefreshFacts
<1>2. RefreshWrites(r) = IF MustVoid(Replan(r))
                         THEN Persist(t) \o Record([kind |-> "signatures_voided"]) ELSE <<>>
  BY DEF RefreshWrites
<1> HIDE DEF t
<1>3. Logged(t, L)
  BY <1>1, NothingSigned DEF Logged
<1>4. Persist(t) \in Seq(LoggedWrites(L))
  BY <1>1, <1>3, PersistLogged
<1>5. [kind |-> "signatures_voided"] \in Events
  BY DEF Events
<1>6. Record([kind |-> "signatures_voided"]) \in Seq(LoggedWrites(L))
  BY <1>5, RecordLogged
<1>7. RefreshWrites(r) \in Seq(LoggedWrites(L))
  BY <1>2, <1>4, <1>6, ConcatProperties, EmptySeq
<1> QED  BY <1>1, <1>3, <1>7 DEF t

LEMMA RangeAppend ==
    ASSUME NEW S, NEW a \in Seq(S), NEW x \in S
    PROVE  Range(Append(a, x)) \subseteq Range(a) \cup {x}
<1> DEFINE b == Append(a, x)
<1>1. /\ b \in Seq(S) /\ Len(b) = Len(a) + 1 /\ Len(a) \in Nat
      /\ \A j \in 1..Len(b) : b[j] = IF j <= Len(a) THEN a[j] ELSE x
  BY AppendProperties, LenProperties
<1> HIDE DEF b
<1>2. Range(a) = {a[j] : j \in 1..Len(a)} /\ Range(b) = {b[j] : j \in 1..Len(b)}
  BY <1>1, RangeType
<1>3. \A j \in 1..Len(b) : (j \in 1..Len(a) /\ b[j] = a[j]) \/ b[j] = x
  BY <1>1
<1>4. Range(b) \subseteq Range(a) \cup {x}
  BY <1>2, <1>3
<1> QED  BY <1>4 DEF b

(* The record of a signature is written before the row that carries it. *)
LEMMA SignWritesLogged ==
    ASSUME NEW L, NEW r \in Rows, Logged(r, L), NEW u \in Users, disk \in Policies
    PROVE  SignWrites(u, r) \in Seq(Writes) /\ Backed(L, SignWrites(u, r))
<1> DEFINE by == [by |-> u, on |-> ReviewDigest(r, 2)]
           e  == [kind |-> "signed", by |-> u, on |-> ReviewDigest(r, 2)]
           t  == Sign(u, r)
           rest == IF Len(t.signatures) = Len(t.plan) THEN Conclude(u, "approve", t) ELSE Persist(t)
<1>1. by \in Signatures /\ e \in Events /\ SignedEvent(by) = e
  BY DigestType DEF Signatures, Events, SignedEvent
<1>2. t = [r EXCEPT !.signatures = Append(r.signatures, by)]
  BY DEF Sign
<1>3. SignWrites(u, r) = Record(e) \o rest
  BY DEF SignWrites, Consequence
<1> HIDE DEF by, e, t
<1>4. r.signatures \in Seq(Signatures)
  BY DEF Rows
<1>5. Append(r.signatures, by) \in Seq(Signatures) /\ Range(Append(r.signatures, by)) \subseteq Range(r.signatures) \cup {by}
  BY <1>1, <1>4, RangeAppend
<1>6. t \in Rows /\ Range(t.signatures) \subseteq Range(r.signatures) \cup {by}
  BY <1>2, <1>5 DEF Rows
<1>7. Logged(t, L \cup {e})
  BY <1>1, <1>6 DEF Logged
<1>8. rest \in Seq(LoggedWrites(L \cup {e}))
  <2>1. Conclude(u, "approve", t) \in Seq(LoggedWrites(L \cup {e}))
    BY <1>6, <1>7, ConcludeLogged DEF Decisions
  <2>2. Persist(t) \in Seq(LoggedWrites(L \cup {e}))
    BY <1>6, <1>7, PersistLogged
  <2> QED  BY <2>1, <2>2
<1> HIDE DEF rest
<1>9. rest \in Seq(Writes) /\ Backed(L \cup {e}, rest)
  BY <1>8, LoggedIsBacked
<1>10. Record(e) \in Seq(Writes) /\ Backed(L, Record(e))
  BY <1>1, RecordLogged, LoggedIsBacked
<1>11. \E j \in 1..Len(Record(e)) : IsEvent(Record(e)[j], e)
  BY DEF Record, IsEvent
<1>12. \A x \in L \cup {e} : x \in L \/ \E j \in 1..Len(Record(e)) : IsEvent(Record(e)[j], x)
  BY <1>11
<1>13. Backed(L, Record(e) \o rest)
  BY <1>9, <1>10, <1>12, BackedConcat
<1> QED  BY <1>3, <1>9, <1>10, <1>13, ConcatProperties

LEMMA DecideLogged ==
    ASSUME IInv, LInv, NEW u \in Users, NEW c \in Decisions, NEW commented \in BOOLEAN,
           DecideApproval(u, c, commented)
    PROVE  LInv'
<1> DEFINE r == Refresh(row)
           decision == IF ~ Permitted(u, c, commented, r) THEN <<>>
                       ELSE IF c = "approve" /\ r.plan # <<>> THEN SignWrites(u, r)
                       ELSE Conclude(u, c, r)
<1>1. row \in Rows /\ disk \in Policies /\ loaded \in Policies /\ Logged(row, log)
  BY DEF IInv, GoodRows, LInv
<1>2. /\ r \in Rows /\ Logged(r, log) /\ RefreshWrites(row) \in Seq(LoggedWrites(log))
  BY <1>1, RefreshLogged
<1>3. todo' = RefreshWrites(row) \o decision /\ row' = row /\ log' = log
  BY DEF DecideApproval, Handler
<1> HIDE DEF r
<1>4. decision \in Seq(Writes) /\ Backed(log, decision)
  <2>1. <<>> \in Seq(LoggedWrites(log))
    BY EmptySeq
  <2>2. SignWrites(u, r) \in Seq(Writes) /\ Backed(log, SignWrites(u, r))
    BY <1>1, <1>2, SignWritesLogged
  <2>3. Conclude(u, c, r) \in Seq(LoggedWrites(log))
    BY <1>1, <1>2, ConcludeLogged
  <2>4. <<>> \in Seq(Writes) /\ Backed(log, <<>>)
    BY <2>1, LoggedIsBacked
  <2>5. Conclude(u, c, r) \in Seq(Writes) /\ Backed(log, Conclude(u, c, r))
    BY <2>3, LoggedIsBacked
  <2> QED  BY <2>2, <2>4, <2>5
<1> HIDE DEF decision
<1>5. RefreshWrites(row) \in Seq(Writes) /\ Backed(log, RefreshWrites(row))
  BY <1>2, LoggedIsBacked
<1>6. Backed(log, RefreshWrites(row) \o decision)
  BY <1>4, <1>5, BackedConcat
<1>7. todo' \in Seq(Writes) /\ Backed(log', todo')
  BY <1>3, <1>4, <1>5, <1>6, ConcatProperties
<1> QED  BY <1>1, <1>3, <1>7 DEF LInv

LEMMA ResolveLogged ==
    ASSUME IInv, LInv, NEW u \in Users, NEW c \in Conflicts, NEW found \in SUBSET Conflicts,
           NEW severity \in Severities \cup {None}, NEW rendered \in BOOLEAN,
           ResolveConflict(u, c, found, severity, rendered)
    PROVE  LInv'
<1> DEFINE r == Recomputed(c, found, severity, rendered)
           W == LoggedWrites(log)
           bytes == IF rendered THEN <<[file |-> r.conflicts]>> ELSE <<>>
           e == [kind |-> "resolved", by |-> u, on |-> ReviewDigest(r, 2)]
           contents == Settle(c, found)
<1>1. row \in Rows /\ disk \in Policies /\ loaded \in Policies /\ Logged(row, log)
  BY DEF IInv, GoodRows, LInv
<1>2. contents \in Contents
  BY <1>1 DEF Contents, Rows, Settle
<1> HIDE DEF contents
<1>3. r = [row EXCEPT !.conflicts = contents, !.severity = severity,
                      !.deliverable = IF rendered THEN contents ELSE None]
  BY DEF Recomputed, contents
<1>4. /\ todo' = bytes \o Persist(r) \o Record(e) \o RefreshWrites(r) \o Persist(Refresh(r))
      /\ row' = row /\ log' = log
  BY DEF ResolveConflict, Handler
<1> HIDE DEF r
<1>5. r \in Rows /\ r.conflicts = contents /\ Logged(r, log)
  BY <1>1, <1>2, <1>3 DEF Rows, Logged
<1>6. bytes \in Seq(W)
  <2>1. [file |-> r.conflicts] \in W
    BY <1>2, <1>5 DEF LoggedWrites
  <2>2. <<[file |-> r.conflicts]>> \in Seq(W)
    BY <2>1
  <2> QED  BY <2>2, EmptySeq
<1>7. Persist(r) \in Seq(W)
  BY <1>1, <1>5, PersistLogged
<1>8. Record(e) \in Seq(W)
  <2>1. e \in Events
    BY <1>1, <1>5, DigestType DEF Events
  <2> QED  BY <2>1, RecordLogged
<1>9. Refresh(r) \in Rows /\ Logged(Refresh(r), log) /\ RefreshWrites(r) \in Seq(W)
  BY <1>1, <1>5, RefreshLogged
<1>10. Persist(Refresh(r)) \in Seq(W)
  BY <1>1, <1>9, PersistLogged
<1> HIDE DEF bytes, e, W
<1>11. todo' \in Seq(W)
  BY <1>4, <1>6, <1>7, <1>8, <1>9, <1>10, ConcatProperties
<1>12. todo' \in Seq(Writes) /\ Backed(log, todo')
  BY <1>11, LoggedIsBacked DEF W
<1> QED  BY <1>1, <1>4, <1>12 DEF LInv

LEMMA CancelLogged ==
    ASSUME IInv, LInv, Cancel
    PROVE  LInv'
<1> DEFINE t == [row EXCEPT !.status = "cancelled"]
<1>1. row \in Rows /\ disk \in Policies /\ Logged(row, log)
  BY DEF IInv, GoodRows, LInv
<1>2. t \in Rows /\ t.signatures = row.signatures
  BY <1>1 DEF Rows, Statuses
<1>3. todo' = Persist(t) \o Record([kind |-> "cancelled"]) /\ row' = row /\ log' = log
  BY DEF Cancel
<1> HIDE DEF t
<1>4. Persist(t) \in Seq(LoggedWrites(log))
  BY <1>1, <1>2, PersistLogged DEF Logged
<1>5. [kind |-> "cancelled"] \in Events
  BY DEF Events
<1>6. todo' \in Seq(LoggedWrites(log))
  BY <1>3, <1>4, <1>5, RecordLogged, ConcatProperties
<1>7. todo' \in Seq(Writes) /\ Backed(log, todo')
  BY <1>6, LoggedIsBacked
<1> QED  BY <1>1, <1>3, <1>7 DEF LInv

LEMMA WriteLogged ==
    ASSUME LInv, Write
    PROVE  LInv'
<1> DEFINE w == Head(todo)
           rest == Tail(todo)
<1>1. todo \in Seq(Writes) /\ todo # <<>> /\ Backed(log, todo) /\ Logged(row, log)
  BY DEF LInv, Write
<1>2. /\ w \in Writes /\ w = todo[1] /\ rest \in Seq(Writes)
      /\ Len(todo) \in Nat \ {0} /\ Len(rest) = Len(todo) - 1
      /\ \A k \in 1..Len(rest) : rest[k] = todo[k + 1]
  BY <1>1, HeadTailProperties, LenProperties
<1>3. /\ todo' = rest
      /\ row' = IF "row" \in DOMAIN w THEN w.row ELSE row
      /\ log' = IF "event" \in DOMAIN w THEN log \cup {w.event} ELSE log
  BY DEF Write
<1> HIDE DEF w, rest
<1>4. ~ ("row" \in DOMAIN w /\ "event" \in DOMAIN w)
  BY <1>2 DEF Writes
<1>5. Logged(row', log')
  <2>1. CASE "row" \in DOMAIN w
    <3> SUFFICES ASSUME NEW s \in Range(w.row.signatures)  PROVE SignedEvent(s) \in log
      BY <1>3, <1>4, <2>1 DEF Logged
    <3>1. SignedEvent(s) \in log \/ \E j \in 1..1 : IsEvent(todo[j], SignedEvent(s))
      BY <1>1, <1>2, <2>1 DEF Backed
    <3>2. ~ IsEvent(todo[1], SignedEvent(s))
      BY <1>2, <1>4, <2>1 DEF IsEvent
    <3> QED  BY <3>1, <3>2
  <2>2. CASE "row" \notin DOMAIN w
    BY <1>1, <1>3, <2>2 DEF Logged
  <2> QED  BY <2>1, <2>2
<1>6. ASSUME NEW k \in 1..Len(rest), "row" \in DOMAIN rest[k], NEW s \in Range(rest[k].row.signatures)
      PROVE  SignedEvent(s) \in log' \/ \E j \in 1..k : IsEvent(rest[j], SignedEvent(s))
  <2>1. k + 1 \in 1..Len(todo) /\ rest[k] = todo[k + 1]
    BY <1>2
  <2>2. SignedEvent(s) \in log \/ \E j \in 1..(k + 1) : IsEvent(todo[j], SignedEvent(s))
    BY <1>1, <1>6, <2>1 DEF Backed
  <2>3. ASSUME NEW j \in 1..(k + 1), IsEvent(todo[j], SignedEvent(s))
        PROVE  SignedEvent(s) \in log' \/ \E i \in 1..k : IsEvent(rest[i], SignedEvent(s))
    <3>1. CASE j = 1
      BY <1>2, <1>3, <2>3, <3>1 DEF IsEvent
    <3>2. CASE j # 1
      <4>1. j - 1 \in 1..k /\ j - 1 \in 1..Len(rest) /\ rest[j - 1] = todo[(j - 1) + 1] /\ (j - 1) + 1 = j
        BY <1>2, <3>2
      <4> QED  BY <2>3, <4>1
    <3> QED  BY <3>1, <3>2
  <2> QED  BY <1>3, <2>2, <2>3
<1>7. Backed(log', rest)
  BY <1>6 DEF Backed
<1> QED  BY <1>2, <1>3, <1>5, <1>7 DEF LInv

LEMMA InitLogged == Init => LInv
<1> SUFFICES ASSUME NEW version \in Formats, Gate(version)  PROVE LInv
  BY DEF Init
<1>1. PICK signatures : row.signatures = signatures
         /\ log = {[kind |-> "signed", by |-> s.by, on |-> s.on] : s \in Range(signatures)}
  BY DEF Gate
<1>2. Logged(row, log)
  BY <1>1 DEF Logged, SignedEvent
<1>3. todo = <<>>
  BY DEF Gate
<1>4. todo \in Seq(LoggedWrites(log))
  BY <1>3, EmptySeq
<1> QED  BY <1>2, <1>4, LoggedIsBacked DEF LInv

(* At any moment, a death of the process between any two writes included,  *)
(* the log has a record of every signature the row carries.                *)
THEOREM SignaturesOnRecord == Spec => []SignaturesAreLogged
<1>1. Init => IInv /\ LInv
  BY InitInv, InitLogged
<1>2. IInv /\ LInv /\ [Next]_vars => LInv'
  <2> SUFFICES ASSUME IInv, LInv, [Next]_vars  PROVE LInv'
    OBVIOUS
  <2>1. <<>> \in Seq(LoggedWrites(log))
    BY EmptySeq
  <2>2. <<>> \in Seq(Writes) /\ Backed(log, <<>>)
    BY <2>1, LoggedIsBacked
  <2>3. ASSUME NEW p, Restart(p)  PROVE LInv'
    BY <2>2, <2>3 DEF Restart, LInv
  <2>4. ASSUME NEW p, EditPolicy(p)  PROVE LInv'
    BY <2>4 DEF EditPolicy, LInv
  <2>5. ASSUME NEW u, Open(u)  PROVE LInv'
    BY <2>5 DEF Open, LInv
  <2>6. CASE UNCHANGED vars
    BY <2>6 DEF vars, LInv
  <2> QED
    BY <2>3, <2>4, <2>5, <2>6, DecideLogged, ResolveLogged, CancelLogged, WriteLogged DEF Next
<1>3. LInv => SignaturesAreLogged
  BY DEF LInv, Logged, SignedEvent, SignaturesAreLogged
<1> QED  BY <1>1, <1>2, <1>3, NextStep, PTL DEF Spec

-----------------------------------------------------------------------------
(***************************************************************************)
(* The file and the rows.  While nothing disrupts the run, every row to be *)
(* written names no file or the one there will be when it is written: a    *)
(* handler that renders writes the file first.                             *)
(***************************************************************************)

FaithfulRows(f)   == {r \in Rows : r.deliverable \in {None, f}}
FaithfulWrites(f) == [row : FaithfulRows(f)] \cup [event : Events]

StoresRow(w) == \E k \in 1..Len(w) : "row" \in DOMAIN w[k]

RendersFirst(w, f) ==
    /\ w \in Seq(Writes) /\ Len(w) >= 1
    /\ w[1] = [file |-> f]
    /\ \A k \in 2..Len(w) : w[k] \in FaithfulWrites(f)

DInv ==
    disruptions = 0 =>
        \/ /\ todo \in Seq(FaithfulWrites(file))
           /\ row.deliverable \in {None, file} \/ (StoresRow(todo) /\ ~ row.released)
        \/ /\ \E f \in Contents : RendersFirst(todo, f)
           /\ StoresRow(todo) /\ ~ row.released

LEMMA FaithfulIsWrites ==
    ASSUME NEW f \in Contents  PROVE FaithfulWrites(f) \subseteq Writes
BY DEF FaithfulWrites, FaithfulRows, Writes

LEMMA RendersMore ==
    ASSUME NEW f \in Contents, NEW a, RendersFirst(a, f), NEW b \in Seq(FaithfulWrites(f))
    PROVE  RendersFirst(a \o b, f)
<1> DEFINE w == a \o b
<1>1. a \in Seq(Writes) /\ b \in Seq(Writes)
  BY FaithfulIsWrites DEF RendersFirst
<1>2. /\ w \in Seq(Writes) /\ Len(w) = Len(a) + Len(b) /\ Len(a) \in Nat /\ Len(b) \in Nat
      /\ \A k \in 1..Len(w) : w[k] = IF k <= Len(a) THEN a[k] ELSE b[k - Len(a)]
  BY <1>1, ConcatPlaces
<1> HIDE DEF w
<1>3. Len(a) >= 1 /\ a[1] = [file |-> f] /\ \A k \in 2..Len(a) : a[k] \in FaithfulWrites(f)
  BY DEF RendersFirst
<1>4. ASSUME NEW k \in 2..Len(w)  PROVE w[k] \in FaithfulWrites(f)
  <2>1. CASE k <= Len(a)
    BY <1>2, <1>3, <2>1
  <2>2. CASE k > Len(a)
    <3>1. w[k] = b[k - Len(a)] /\ k - Len(a) \in 1..Len(b)
      BY <1>2, <2>2
    <3> QED  BY <3>1
  <2> QED  BY <1>2, <2>1, <2>2
<1>5. Len(w) >= 1 /\ w[1] = [file |-> f]
  BY <1>2, <1>3
<1>6. RendersFirst(w, f)
  BY <1>2, <1>4, <1>5 DEF RendersFirst
<1> QED  BY <1>6 DEF w

LEMMA StoresMore ==
    ASSUME NEW a \in Seq(Writes), NEW b \in Seq(Writes), Len(b) = 1, "row" \in DOMAIN b[1]
    PROVE  StoresRow(a \o b)
<1> DEFINE w == a \o b
<1>1. /\ Len(w) = Len(a) + Len(b) /\ Len(a) \in Nat /\ Len(b) \in Nat
      /\ \A k \in 1..Len(w) : w[k] = IF k <= Len(a) THEN a[k] ELSE b[k - Len(a)]
  BY ConcatPlaces
<1> HIDE DEF w
<1>2. Len(a) + 1 \in 1..Len(w) /\ ~ (Len(a) + 1 <= Len(a)) /\ (Len(a) + 1) - Len(a) = 1
  BY <1>1
<1>3. w[Len(a) + 1] = b[1]
  BY <1>1, <1>2
<1>4. StoresRow(w)
  BY <1>2, <1>3 DEF StoresRow
<1> QED  BY <1>4 DEF w

LEMMA StoresLast ==
    ASSUME NEW a \in Seq(Writes), NEW r \in Rows
    PROVE  StoresRow(a \o <<[row |-> r]>>)
<1> DEFINE b == <<[row |-> r]>>
<1>1. [row |-> r] \in Writes
  BY DEF Writes
<1>2. b \in Seq(Writes) /\ Len(b) = 1
  BY <1>1
<1>3. b[1] = [row |-> r]
  OBVIOUS
<1>4. "row" \in DOMAIN b[1]
  BY <1>3
<1> HIDE DEF b
<1>5. StoresRow(a \o b)
  BY <1>2, <1>4, StoresMore
<1> QED  BY <1>5 DEF b

LEMMA PersistFaithful ==
    ASSUME NEW f, NEW r \in FaithfulRows(f), disk \in Policies
    PROVE  /\ Persist(r) \in Seq(FaithfulWrites(f))
           /\ \E t \in Rows : Persist(r) = <<[row |-> t]>>
<1> DEFINE t == [r EXCEPT !.digest = ReviewDigest(r, 2)]
<1>1. ReviewDigest(r, 2) \in Digests
  BY DigestType DEF FaithfulRows
<1>2. t \in Rows /\ t.deliverable = r.deliverable
  BY <1>1 DEF FaithfulRows, Rows
<1>3. Persist(r) = <<[row |-> t]>>
  BY DEF Persist
<1> HIDE DEF t
<1>4. [row |-> t] \in FaithfulWrites(f)
  BY <1>2 DEF FaithfulWrites, FaithfulRows
<1> QED  BY <1>2, <1>3, <1>4

LEMMA RecordFaithful ==
    ASSUME NEW f, NEW e \in Events
    PROVE  Record(e) \in Seq(FaithfulWrites(f))
<1>1. [event |-> e] \in FaithfulWrites(f)
  BY DEF FaithfulWrites
<1> QED  BY <1>1 DEF Record

LEMMA RefreshFaithful ==
    ASSUME NEW f, NEW r \in FaithfulRows(f), disk \in Policies, loaded \in Policies
    PROVE  /\ Refresh(r) \in FaithfulRows(f)
           /\ RefreshWrites(r) \in Seq(FaithfulWrites(f))
<1> DEFINE t == Refresh(r)
           p == Replan(r)
<1>1. r \in Rows
  BY DEF FaithfulRows
<1>2. /\ p \in Rows
      /\ p = [r EXCEPT !.plan = Replan(r).plan, !.approvers = Replan(r).approvers]
  BY <1>1, ReplanType
<1>3. p.deliverable = r.deliverable
  BY <1>1, <1>2 DEF Rows
<1>4. t = IF MustVoid(p) THEN [p EXCEPT !.signatures = <<>>, !.voided = TRUE] ELSE p
  BY DEF Refresh
<1>5. RefreshWrites(r) = IF MustVoid(p) THEN Persist(t) \o Record([kind |-> "signatures_voided"]) ELSE <<>>
  BY DEF RefreshWrites
<1> HIDE DEF p, t
<1>6. t.deliverable = r.deliverable
  BY <1>2, <1>3, <1>4 DEF Rows
<1>7. t \in Rows
  BY <1>1, RefreshFacts DEF t
<1>8. t \in FaithfulRows(f)
  BY <1>6, <1>7 DEF FaithfulRows
<1>9. [kind |-> "signatures_voided"] \in Events
  BY DEF Events
<1>10. Persist(t) \in Seq(FaithfulWrites(f))
  BY <1>8, PersistFaithful
<1>11. RefreshWrites(r) \in Seq(FaithfulWrites(f))
  BY <1>5, <1>9, <1>10, RecordFaithful, ConcatProperties, EmptySeq
<1> QED  BY <1>8, <1>11 DEF t

LEMMA ConcludeFaithful ==
    ASSUME NEW f, NEW r \in FaithfulRows(f), NEW u \in Users, NEW c \in Decisions, disk \in Policies
    PROVE  Conclude(u, c, r) \in Seq(FaithfulWrites(f))
<1> DEFINE by == [by |-> u, on |-> ReviewDigest(r, 2)]
           e  == [kind |-> c, by |-> u, on |-> ReviewDigest(r, 2)]
           t  == [r EXCEPT !.status = Outcome[c], !.released = (c = "approve"), !.decided = by]
<1>1. r \in Rows /\ r.deliverable \in {None, f}
  BY DEF FaithfulRows
<1>2. by \in Signatures /\ e \in Events
  BY <1>1, DigestType DEF Signatures, Events, Decisions
<1>3. Outcome[c] \in Statuses
  BY DEF Outcome, Statuses, Decisions
<1>4. Conclude(u, c, r) = Persist(t) \o Record(e)
  BY DEF Conclude
<1> HIDE DEF by, e
<1>5. t \in Rows /\ t.deliverable = r.deliverable
  BY <1>1, <1>2, <1>3 DEF Rows
<1> HIDE DEF t
<1>6. t \in FaithfulRows(f)
  BY <1>1, <1>5 DEF FaithfulRows
<1>7. Persist(t) \in Seq(FaithfulWrites(f))
  BY <1>6, PersistFaithful
<1> QED  BY <1>2, <1>4, <1>7, RecordFaithful, ConcatProperties

LEMMA SignWritesFaithful ==
    ASSUME NEW f, NEW r \in FaithfulRows(f), NEW u \in Users, disk \in Policies
    PROVE  SignWrites(u, r) \in Seq(FaithfulWrites(f))
<1> DEFINE by == [by |-> u, on |-> ReviewDigest(r, 2)]
           e  == [kind |-> "signed", by |-> u, on |-> ReviewDigest(r, 2)]
           t  == Sign(u, r)
<1>1. r \in Rows /\ r.deliverable \in {None, f}
  BY DEF FaithfulRows
<1>2. by \in Signatures /\ e \in Events
  BY <1>1, DigestType DEF Signatures, Events
<1>3. t = [r EXCEPT !.signatures = Append(r.signatures, by)]
  BY DEF Sign
<1>4. SignWrites(u, r) = Record(e) \o
         (IF Len(t.signatures) = Len(t.plan) THEN Conclude(u, "approve", t) ELSE Persist(t))
  BY DEF SignWrites, Consequence
<1> HIDE DEF by, e, t
<1>5. Append(r.signatures, by) \in Seq(Signatures)
  BY <1>1, <1>2 DEF Rows
<1>6. t \in FaithfulRows(f)
  BY <1>1, <1>3, <1>5 DEF FaithfulRows, Rows
<1>7. Conclude(u, "approve", t) \in Seq(FaithfulWrites(f))
  BY <1>6, ConcludeFaithful DEF Decisions
<1>8. Persist(t) \in Seq(FaithfulWrites(f))
  BY <1>6, PersistFaithful
<1>9. Record(e) \in Seq(FaithfulWrites(f))
  BY <1>2, RecordFaithful
<1>10. CASE Len(t.signatures) = Len(t.plan)
  BY <1>4, <1>7, <1>9, <1>10, ConcatProperties
<1>11. CASE Len(t.signatures) # Len(t.plan)
  BY <1>4, <1>8, <1>9, <1>11, ConcatProperties
<1> QED  BY <1>10, <1>11

LEMMA StoresRest ==
    ASSUME NEW w \in Seq(Writes), w # <<>>, "row" \notin DOMAIN w[1], StoresRow(w)
    PROVE  StoresRow(Tail(w))
<1>1. /\ Tail(w) \in Seq(Writes) /\ Len(Tail(w)) = Len(w) - 1 /\ Len(w) \in Nat
      /\ \A k \in 1..Len(Tail(w)) : Tail(w)[k] = w[k + 1]
  BY HeadTailProperties, LenProperties
<1>2. PICK k \in 1..Len(w) : "row" \in DOMAIN w[k]
  BY DEF StoresRow
<1>3. k # 1
  BY <1>2
<1>4. k - 1 \in 1..Len(Tail(w)) /\ (k - 1) + 1 = k
  BY <1>1, <1>3
<1>5. Tail(w)[k - 1] = w[k]
  BY <1>1, <1>4
<1> QED  BY <1>2, <1>4, <1>5 DEF StoresRow

LEMMA NothingToStore == ~ StoresRow(<<>>) /\ \A f : ~ RendersFirst(<<>>, f)
<1>1. Len(<<>>) = 0
  BY EmptySeq
<1> QED  BY <1>1 DEF StoresRow, RendersFirst

LEMMA DecideFaithful ==
    ASSUME IInv, DInv, NEW u \in Users, NEW c \in Decisions, NEW commented \in BOOLEAN,
           DecideApproval(u, c, commented)
    PROVE  DInv'
<1> SUFFICES ASSUME disruptions = 0
             PROVE  /\ todo' \in Seq(FaithfulWrites(file'))
                    /\ row'.deliverable \in {None, file'}
  BY DEF DInv, DecideApproval, Handler
<1> DEFINE r == Refresh(row)
           W == FaithfulWrites(file)
           decision == IF ~ Permitted(u, c, commented, r) THEN <<>>
                       ELSE IF c = "approve" /\ r.plan # <<>> THEN SignWrites(u, r)
                       ELSE Conclude(u, c, r)
<1>1. row \in Rows /\ disk \in Policies /\ loaded \in Policies
  BY DEF IInv, GoodRows
<1>2. todo = <<>> /\ todo' = RefreshWrites(row) \o decision /\ row' = row /\ file' = file
  BY DEF DecideApproval, Handler
<1>3. row.deliverable \in {None, file}
  BY <1>2, NothingToStore DEF DInv
<1>4. row \in FaithfulRows(file)
  BY <1>1, <1>3 DEF FaithfulRows
<1>5. r \in FaithfulRows(file) /\ RefreshWrites(row) \in Seq(W)
  BY <1>1, <1>4, RefreshFaithful
<1> HIDE DEF r
<1>6. SignWrites(u, r) \in Seq(W)
  BY <1>1, <1>5, SignWritesFaithful
<1>7. Conclude(u, c, r) \in Seq(W)
  BY <1>1, <1>5, ConcludeFaithful
<1>8. decision \in Seq(W)
  BY <1>6, <1>7, EmptySeq
<1> HIDE DEF decision, W
<1>9. todo' \in Seq(W)
  BY <1>2, <1>5, <1>8, ConcatProperties
<1> QED  BY <1>2, <1>3, <1>9 DEF W

LEMMA ResolveFaithful ==
    ASSUME IInv, DInv, NEW u \in Users, NEW c \in Conflicts, NEW found \in SUBSET Conflicts,
           NEW severity \in Severities \cup {None}, NEW rendered \in BOOLEAN,
           ResolveConflict(u, c, found, severity, rendered)
    PROVE  DInv'
<1> SUFFICES ASSUME disruptions = 0
             PROVE  \/ /\ todo' \in Seq(FaithfulWrites(file'))
                       /\ row'.deliverable \in {None, file'}
                    \/ /\ \E f \in Contents : RendersFirst(todo', f)
                       /\ StoresRow(todo') /\ ~ row'.released
  BY DEF DInv, ResolveConflict, Handler
<1> DEFINE r == Recomputed(c, found, severity, rendered)
           bytes == IF rendered THEN <<[file |-> r.conflicts]>> ELSE <<>>
           e == [kind |-> "resolved", by |-> u, on |-> ReviewDigest(r, 2)]
           contents == Settle(c, found)
           f == IF rendered THEN contents ELSE file
           W == FaithfulWrites(f)
<1>1. /\ row \in Rows /\ disk \in Policies /\ loaded \in Policies /\ ~ row.released
      /\ file \in Contents
  BY DEF IInv, GoodRows, Good, ResolveConflict, Handler
<1>2. contents \in Contents
  BY <1>1 DEF Contents, Rows, Settle
<1> HIDE DEF contents
<1>3. r = [row EXCEPT !.conflicts = contents, !.severity = severity,
                      !.deliverable = IF rendered THEN contents ELSE None]
  BY DEF Recomputed, contents
<1>4. /\ todo = <<>> /\ row' = row /\ file' = file
      /\ todo' = bytes \o Persist(r) \o Record(e) \o RefreshWrites(r) \o Persist(Refresh(r))
  BY DEF ResolveConflict, Handler
<1> HIDE DEF r
<1>5. r \in Rows /\ r.conflicts = contents /\ r.deliverable \in {None, f}
  BY <1>1, <1>2, <1>3 DEF Rows
<1>6. f \in Contents
  BY <1>1, <1>2
<1> HIDE DEF f
<1>7. r \in FaithfulRows(f)
  BY <1>5 DEF FaithfulRows
<1>8. Persist(r) \in Seq(W)
  BY <1>1, <1>7, PersistFaithful
<1>9. Record(e) \in Seq(W)
  <2>1. e \in Events
    BY <1>1, <1>5, DigestType DEF Events
  <2> QED  BY <2>1, RecordFaithful
<1>10. Refresh(r) \in FaithfulRows(f) /\ RefreshWrites(r) \in Seq(W)
  BY <1>1, <1>7, RefreshFaithful
<1>11. Persist(Refresh(r)) \in Seq(W)
  BY <1>1, <1>10, PersistFaithful
<1> HIDE DEF e
<1>12. row.deliverable \in {None, file}
  BY <1>4, NothingToStore DEF DInv
<1>13. CASE ~ rendered
  <2>1. bytes \in Seq(W) /\ f = file
    BY <1>13, EmptySeq DEF f
  <2> HIDE DEF bytes, W
  <2>2. todo' \in Seq(W)
    BY <1>4, <1>8, <1>9, <1>10, <1>11, <2>1, ConcatProperties
  <2> QED  BY <1>4, <1>12, <2>1, <2>2 DEF W
<1>14. CASE rendered
  <2>1. bytes = <<[file |-> f]>>
    BY <1>5, <1>14 DEF f
  <2>2. RendersFirst(bytes, f)
    <3>1. [file |-> f] \in Writes
      BY <1>6 DEF Writes
    <3>2. /\ bytes \in Seq(Writes) /\ Len(bytes) = 1 /\ bytes[1] = [file |-> f]
          /\ \A k \in 2..1 : FALSE
      BY <2>1, <3>1
    <3> QED  BY <3>2 DEF RendersFirst
  <2> HIDE DEF bytes, W
  <2>3. RendersFirst(bytes \o Persist(r), f)
    BY <1>6, <1>8, <2>2, RendersMore DEF W
  <2>4. RendersFirst(bytes \o Persist(r) \o Record(e), f)
    BY <1>6, <1>9, <2>3, RendersMore DEF W
  <2>5. RendersFirst(bytes \o Persist(r) \o Record(e) \o RefreshWrites(r), f)
    BY <1>6, <1>10, <2>4, RendersMore DEF W
  <2>6. RendersFirst(todo', f)
    BY <1>4, <1>6, <1>11, <2>5, RendersMore DEF W
  <2>7. PICK t \in Rows : Persist(Refresh(r)) = <<[row |-> t]>>
    BY <1>1, <1>10, PersistFaithful
  <2>8. StoresRow(todo')
    BY <1>4, <2>5, <2>7, StoresLast DEF RendersFirst
  <2> QED  BY <1>1, <1>4, <1>6, <2>6, <2>8
<1> QED  BY <1>13, <1>14

LEMMA CancelFaithful ==
    ASSUME IInv, DInv, Cancel
    PROVE  DInv'
<1> SUFFICES ASSUME disruptions = 0
             PROVE  /\ todo' \in Seq(FaithfulWrites(file'))
                    /\ row'.deliverable \in {None, file'}
  BY DEF DInv, Cancel
<1> DEFINE t == [row EXCEPT !.status = "cancelled"]
<1>1. row \in Rows /\ disk \in Policies
  BY DEF IInv, GoodRows
<1>2. /\ todo = <<>> /\ row' = row /\ file' = file
      /\ todo' = Persist(t) \o Record([kind |-> "cancelled"])
  BY DEF Cancel
<1>3. row.deliverable \in {None, file}
  BY <1>2, NothingToStore DEF DInv
<1>4. t \in FaithfulRows(file)
  BY <1>1, <1>3 DEF Rows, Statuses, FaithfulRows
<1> HIDE DEF t
<1>5. [kind |-> "cancelled"] \in Events
  BY DEF Events
<1>6. Persist(t) \in Seq(FaithfulWrites(file))
  BY <1>1, <1>4, PersistFaithful
<1>7. Record([kind |-> "cancelled"]) \in Seq(FaithfulWrites(file))
  BY <1>5, RecordFaithful
<1>8. todo' \in Seq(FaithfulWrites(file))
  BY <1>2, <1>6, <1>7, ConcatProperties
<1> QED  BY <1>2, <1>3, <1>8

LEMMA WriteFaithful ==
    ASSUME IInv, DInv, Write
    PROVE  DInv'
<1> SUFFICES ASSUME disruptions = 0
             PROVE  /\ todo' \in Seq(FaithfulWrites(file'))
                    /\ row'.deliverable \in {None, file'} \/ (StoresRow(todo') /\ ~ row'.released)
  BY DEF DInv, Write
<1> DEFINE w == Head(todo)
<1>1. /\ todo # <<>> /\ todo' = Tail(todo)
      /\ row'  = IF "row" \in DOMAIN w THEN w.row ELSE row
      /\ file' = IF "file" \in DOMAIN w THEN w.file ELSE file
  BY DEF Write
<1>2. file \in Contents
  BY DEF IInv
<1>3. CASE /\ todo \in Seq(FaithfulWrites(file))
           /\ row.deliverable \in {None, file} \/ (StoresRow(todo) /\ ~ row.released)
  <2>1. /\ w \in FaithfulWrites(file) /\ Tail(todo) \in Seq(FaithfulWrites(file)) /\ w = todo[1]
    BY <1>1, <1>3, HeadTailProperties
  <2> HIDE DEF w
  <2>2. "file" \notin DOMAIN w /\ ("row" \in DOMAIN w => w.row.deliverable \in {None, file})
    BY <2>1 DEF FaithfulWrites, FaithfulRows
  <2>3. file' = file
    BY <1>1, <2>2
  <2>4. CASE "row" \in DOMAIN w
    BY <1>1, <2>1, <2>2, <2>3, <2>4
  <2>5. CASE "row" \notin DOMAIN w
    <3>1. todo \in Seq(Writes)
      BY <1>2, <1>3, FaithfulIsWrites
    <3>2. StoresRow(todo) => StoresRow(Tail(todo))
      BY <1>1, <2>1, <2>5, <3>1, StoresRest
    <3> QED  BY <1>1, <1>3, <2>1, <2>3, <2>5, <3>2
  <2> QED  BY <2>4, <2>5
<1>4. CASE /\ \E f \in Contents : RendersFirst(todo, f)
           /\ StoresRow(todo) /\ ~ row.released
  <2>1. PICK f \in Contents : RendersFirst(todo, f)
    BY <1>4
  <2>2. /\ todo \in Seq(Writes) /\ todo[1] = [file |-> f]
        /\ \A k \in 2..Len(todo) : todo[k] \in FaithfulWrites(f)
    BY <2>1 DEF RendersFirst
  <2> DEFINE rest == Tail(todo)
  <2>3. /\ w = [file |-> f] /\ rest \in Seq(Writes)
        /\ Len(todo) \in Nat /\ Len(rest) = Len(todo) - 1
        /\ \A k \in 1..Len(rest) : rest[k] = todo[k + 1]
    BY <1>1, <2>2, HeadTailProperties, LenProperties
  <2> HIDE DEF w, rest
  <2>4. \A k \in 1..Len(rest) : rest[k] \in FaithfulWrites(f)
    BY <2>2, <2>3
  <2>5. rest \in Seq(FaithfulWrites(f))
    <3>1. rest = [k \in 1..Len(rest) |-> rest[k]] /\ Len(rest) \in Nat
      BY <2>3
    <3>2. rest \in [1..Len(rest) -> FaithfulWrites(f)]
      BY <2>4, <3>1
    <3> QED  BY <3>1, <3>2, SeqDef
  <2>6. "row" \notin DOMAIN [file |-> f] /\ "file" \in DOMAIN [file |-> f] /\ [file |-> f].file = f
    OBVIOUS
  <2>7. file' = f /\ row' = row
    BY <1>1, <2>3, <2>6
  <2>8. StoresRow(Tail(todo))
    BY <1>1, <1>4, <2>2, <2>6, StoresRest
  <2> QED  BY <1>1, <1>4, <2>5, <2>7, <2>8 DEF rest
<1> QED  BY <1>3, <1>4 DEF DInv

(* While no restart falls between rendering a file and storing its hash, a *)
(* released row names the bytes there are: a resolution renders them anew  *)
(* only before the release, and every row stored after it carries their    *)
(* hash.                                                                   *)
THEOREM ReleasedBytesStand == Spec => []ReleasedBytesAreSigned
<1>1. Init => IInv /\ DInv
  <2>1. Init => DInv
    <3> SUFFICES ASSUME NEW version \in Formats, Gate(version)  PROVE DInv
      BY DEF Init
    <3>1. todo = <<>>
      BY DEF Gate
    <3>2. row.deliverable = file
      BY DEF Gate
    <3> QED  BY <3>1, <3>2, EmptySeq DEF DInv
  <2> QED  BY <2>1, InitInv
<1>2. IInv /\ DInv /\ [Next]_vars => DInv'
  <2> SUFFICES ASSUME IInv, DInv, [Next]_vars  PROVE DInv'
    OBVIOUS
  <2>1. ASSUME NEW p, Restart(p) \/ EditPolicy(p)  PROVE DInv'
    <3>1. disruptions' = disruptions + 1
      BY <2>1 DEF Restart, EditPolicy
    <3>2. disruptions' # 0
      BY <3>1 DEF IInv
    <3> QED  BY <3>2 DEF DInv
  <2>2. ASSUME NEW u, Open(u)  PROVE DInv'
    BY <2>2 DEF Open, DInv
  <2>3. CASE UNCHANGED vars
    BY <2>3 DEF vars, DInv
  <2> QED
    BY <2>1, <2>2, <2>3, DecideFaithful, ResolveFaithful, CancelFaithful, WriteFaithful DEF Next
<1>3. DInv => ReleasedBytesAreSigned
  BY DEF DInv, ReleasedBytesAreSigned
<1> QED  BY <1>1, <1>2, <1>3, NextStep, PTL DEF Spec

-----------------------------------------------------------------------------
(* Decisions and the pages they were taken on. *)

ShownOn(page, on) ==
    \/ page \in {None, on}
    \/ page.version = 1 /\ page.content = on.content

SeenWrites(pages) ==
    {w \in Writes :
        "event" \in DOMAIN w =>
            (w.event.kind \in {"signed"} \cup Decisions => ShownOn(pages[w.event.by], w.event.on))}

LEMMA PersistSeen ==
    ASSUME NEW pages, NEW r \in Rows, disk \in Policies
    PROVE  Persist(r) \in Seq(SeenWrites(pages))
<1> DEFINE t == [r EXCEPT !.digest = ReviewDigest(r, 2)]
<1>1. ReviewDigest(r, 2) \in Digests
  BY DigestType
<1>2. t \in Rows
  BY <1>1 DEF Rows
<1>3. Persist(r) = <<[row |-> t]>>
  BY DEF Persist
<1> HIDE DEF t
<1>4. [row |-> t] \in SeenWrites(pages)
  BY <1>2 DEF SeenWrites, Writes
<1> QED  BY <1>3, <1>4

LEMMA RecordSeen ==
    ASSUME NEW pages, NEW e \in Events,
           e.kind \in {"signed"} \cup Decisions => ShownOn(pages[e.by], e.on)
    PROVE  Record(e) \in Seq(SeenWrites(pages))
<1>1. [event |-> e] \in Writes /\ [event |-> e].event = e
  BY DEF Writes
<1>2. [event |-> e] \in SeenWrites(pages)
  BY <1>1 DEF SeenWrites
<1> QED  BY <1>2 DEF Record

LEMMA RefreshSeen ==
    ASSUME NEW pages, NEW r \in Rows, disk \in Policies, loaded \in Policies
    PROVE  Refresh(r) \in Rows /\ RefreshWrites(r) \in Seq(SeenWrites(pages))
<1> DEFINE t == Refresh(r)
           e == [kind |-> "signatures_voided"]
<1>1. t \in Rows
  BY RefreshFacts
<1>2. e \in Events /\ e.kind \notin {"signed"} \cup Decisions
  BY DEF Events, Decisions
<1>3. RefreshWrites(r) = IF MustVoid(Replan(r)) THEN Persist(t) \o Record(e) ELSE <<>>
  BY DEF RefreshWrites
<1> HIDE DEF t, e
<1>4. Persist(t) \in Seq(SeenWrites(pages)) /\ Record(e) \in Seq(SeenWrites(pages))
  BY <1>1, <1>2, PersistSeen, RecordSeen
<1>5. RefreshWrites(r) \in Seq(SeenWrites(pages))
  BY <1>3, <1>4, ConcatProperties, EmptySeq
<1> QED  BY <1>1, <1>5 DEF t

LEMMA ConcludeSeen ==
    ASSUME NEW pages, NEW r \in Rows, NEW u \in Users, NEW c \in Decisions, disk \in Policies,
           ShownOn(pages[u], ReviewDigest(r, 2))
    PROVE  Conclude(u, c, r) \in Seq(SeenWrites(pages))
<1> DEFINE by == [by |-> u, on |-> ReviewDigest(r, 2)]
           e  == [kind |-> c, by |-> u, on |-> ReviewDigest(r, 2)]
           t  == [r EXCEPT !.status = Outcome[c], !.released = (c = "approve"), !.decided = by]
<1>1. by \in Signatures /\ e \in Events /\ e.by = u /\ e.on = ReviewDigest(r, 2)
  BY DigestType DEF Signatures, Events, Decisions
<1>2. Outcome[c] \in Statuses
  BY DEF Outcome, Statuses, Decisions
<1>3. Conclude(u, c, r) = Persist(t) \o Record(e)
  BY DEF Conclude
<1> HIDE DEF by, e
<1>4. t \in Rows
  BY <1>1, <1>2 DEF Rows
<1> HIDE DEF t
<1>5. Persist(t) \in Seq(SeenWrites(pages)) /\ Record(e) \in Seq(SeenWrites(pages))
  BY <1>1, <1>4, PersistSeen, RecordSeen
<1> QED  BY <1>3, <1>5, ConcatProperties

LEMMA SignWritesSeen ==
    ASSUME NEW pages, NEW r \in Rows, NEW u \in Users, disk \in Policies,
           ShownOn(pages[u], ReviewDigest(r, 2))
    PROVE  SignWrites(u, r) \in Seq(SeenWrites(pages))
<1> DEFINE by == [by |-> u, on |-> ReviewDigest(r, 2)]
           e  == [kind |-> "signed", by |-> u, on |-> ReviewDigest(r, 2)]
           t  == Sign(u, r)
<1>1. by \in Signatures /\ e \in Events /\ e.by = u /\ e.on = ReviewDigest(r, 2)
  BY DigestType DEF Signatures, Events
<1>2. t = [r EXCEPT !.signatures = Append(r.signatures, by)]
  BY DEF Sign
<1>3. SignWrites(u, r) = Record(e) \o
         (IF Len(t.signatures) = Len(t.plan) THEN Conclude(u, "approve", t) ELSE Persist(t))
  BY DEF SignWrites, Consequence
<1> HIDE DEF by, e, t
<1>4. Append(r.signatures, by) \in Seq(Signatures)
  BY <1>1 DEF Rows
<1>5. t \in Rows /\ t.conflicts = r.conflicts
  BY <1>2, <1>4 DEF Rows
<1>6. ReviewDigest(t, 2) = ReviewDigest(r, 2)
  BY <1>5 DEF ReviewDigest
<1>7. Conclude(u, "approve", t) \in Seq(SeenWrites(pages))
  BY <1>5, <1>6, ConcludeSeen DEF Decisions
<1>8. Persist(t) \in Seq(SeenWrites(pages)) /\ Record(e) \in Seq(SeenWrites(pages))
  BY <1>1, <1>5, PersistSeen, RecordSeen
<1>9. CASE Len(t.signatures) = Len(t.plan)
  BY <1>3, <1>7, <1>8, <1>9, ConcatProperties
<1>10. CASE Len(t.signatures) # Len(t.plan)
  BY <1>3, <1>8, <1>10, ConcatProperties
<1> QED  BY <1>9, <1>10

LEMMA DecideSeen ==
    ASSUME IInv, NEW u \in Users, NEW c \in Decisions, NEW commented \in BOOLEAN,
           DecideApproval(u, c, commented)
    PROVE  todo' \in Seq(SeenWrites(seen))
<1> DEFINE r == Refresh(row)
           decision == IF ~ Permitted(u, c, commented, r) THEN <<>>
                       ELSE IF c = "approve" /\ r.plan # <<>> THEN SignWrites(u, r)
                       ELSE Conclude(u, c, r)
<1>1. row \in Rows /\ disk \in Policies /\ loaded \in Policies
  BY DEF IInv, GoodRows
<1>2. r \in Rows /\ RefreshWrites(row) \in Seq(SeenWrites(seen))
  BY <1>1, RefreshSeen
<1>3. todo' = RefreshWrites(row) \o decision
  BY DEF DecideApproval, Handler
<1> HIDE DEF r
<1>4. decision \in Seq(SeenWrites(seen))
  <2>1. CASE ~ Permitted(u, c, commented, r)
    BY <2>1, EmptySeq
  <2>2. CASE Permitted(u, c, commented, r)
    <3>1. PageIsCurrent(u, r)
      BY <2>2 DEF Permitted
    <3>2. ShownOn(seen[u], ReviewDigest(r, 2))
      BY <3>1 DEF PageIsCurrent, ShownOn, ReviewDigest
    <3>3. SignWrites(u, r) \in Seq(SeenWrites(seen)) /\ Conclude(u, c, r) \in Seq(SeenWrites(seen))
      BY <1>1, <1>2, <3>2, SignWritesSeen, ConcludeSeen
    <3> QED  BY <2>2, <3>3
  <2> QED  BY <2>1, <2>2
<1> HIDE DEF decision
<1> QED  BY <1>2, <1>3, <1>4, ConcatProperties

LEMMA ResolveSeen ==
    ASSUME IInv, NEW u \in Users, NEW c \in Conflicts, NEW found \in SUBSET Conflicts,
           NEW severity \in Severities \cup {None}, NEW rendered \in BOOLEAN,
           ResolveConflict(u, c, found, severity, rendered)
    PROVE  todo' \in Seq(SeenWrites(seen))
<1> DEFINE r == Recomputed(c, found, severity, rendered)
           W == SeenWrites(seen)
           bytes == IF rendered THEN <<[file |-> r.conflicts]>> ELSE <<>>
           e == [kind |-> "resolved", by |-> u, on |-> ReviewDigest(r, 2)]
           contents == Settle(c, found)
<1>1. row \in Rows /\ disk \in Policies /\ loaded \in Policies
  BY DEF IInv, GoodRows
<1>2. contents \in Contents
  BY <1>1 DEF Contents, Rows, Settle
<1> HIDE DEF contents
<1>3. r = [row EXCEPT !.conflicts = contents, !.severity = severity,
                      !.deliverable = IF rendered THEN contents ELSE None]
  BY DEF Recomputed, contents
<1>4. todo' = bytes \o Persist(r) \o Record(e) \o RefreshWrites(r) \o Persist(Refresh(r))
  BY DEF ResolveConflict, Handler
<1> HIDE DEF r
<1>5. r \in Rows /\ r.conflicts = contents
  BY <1>1, <1>2, <1>3 DEF Rows
<1>6. bytes \in Seq(W)
  <2>1. [file |-> r.conflicts] \in W
    BY <1>2, <1>5 DEF SeenWrites, Writes
  <2>2. <<[file |-> r.conflicts]>> \in Seq(W)
    BY <2>1
  <2> QED  BY <2>2, EmptySeq
<1>7. Record(e) \in Seq(W)
  <2>1. e \in Events /\ e.kind \notin {"signed"} \cup Decisions
    BY <1>1, <1>5, DigestType DEF Events, Decisions
  <2> HIDE DEF e
  <2> QED  BY <2>1, RecordSeen
<1>8. Refresh(r) \in Rows /\ RefreshWrites(r) \in Seq(W)
  BY <1>1, <1>5, RefreshSeen
<1>9. Persist(r) \in Seq(W) /\ Persist(Refresh(r)) \in Seq(W)
  BY <1>1, <1>5, <1>8, PersistSeen
<1> HIDE DEF bytes, e, W
<1>10. todo' \in Seq(W)
  BY <1>4, <1>6, <1>7, <1>8, <1>9, ConcatProperties
<1> QED  BY <1>10 DEF W

LEMMA CancelSeen ==
    ASSUME IInv, Cancel
    PROVE  todo' \in Seq(SeenWrites(seen))
<1> DEFINE t == [row EXCEPT !.status = "cancelled"]
           e == [kind |-> "cancelled"]
<1>1. row \in Rows /\ disk \in Policies
  BY DEF IInv, GoodRows
<1>2. t \in Rows
  BY <1>1 DEF Rows, Statuses
<1>3. e \in Events /\ e.kind \notin {"signed"} \cup Decisions
  BY DEF Events, Decisions
<1>4. todo' = Persist(t) \o Record(e)
  BY DEF Cancel
<1> HIDE DEF t, e
<1>5. Persist(t) \in Seq(SeenWrites(seen)) /\ Record(e) \in Seq(SeenWrites(seen))
  BY <1>1, <1>2, <1>3, PersistSeen, RecordSeen
<1> QED  BY <1>4, <1>5, ConcatProperties

(* What a handler records of a reviewer's decision is on the digest the    *)
(* reviewer's page showed, if it showed one: the content always, and the   *)
(* policy files unless the page shows a record of version 1.  However long *)
(* the page has been open, a decision never lands on a run that changed    *)
(* under it.                                                               *)
THEOREM DecisionsMatchThePage == Spec => DecidedAsSeen
<1>1. IInv /\ [Next]_vars =>
         [todo = <<>> =>
            \A w \in Range(todo') :
               "event" \in DOMAIN w /\ w.event.kind \in {"signed"} \cup Decisions =>
                  LET page == seen[w.event.by]
                  IN  \/ page \in {None, w.event.on}
                      \/ page.version = 1 /\ page.content = w.event.on.content]_vars
  <2> SUFFICES ASSUME IInv, Next, todo = <<>>, NEW w \in Range(todo'),
                      "event" \in DOMAIN w, w.event.kind \in {"signed"} \cup Decisions
               PROVE  ShownOn(seen[w.event.by], w.event.on)
    BY DEF vars, ShownOn
  <2>1. todo' \in Seq(SeenWrites(seen))
    <3>1. ASSUME NEW p, Restart(p) \/ EditPolicy(p)  PROVE todo' = <<>>
      BY <3>1 DEF Restart, EditPolicy
    <3>2. ASSUME NEW u, Open(u)  PROVE todo' = <<>>
      BY <3>2 DEF Open
    <3>3. ~ Write
      BY DEF Write
    <3> QED  BY <3>1, <3>2, <3>3, DecideSeen, ResolveSeen, CancelSeen, EmptySeq DEF Next
  <2>2. w \in SeenWrites(seen)
    BY <2>1, RangeType
  <2> QED  BY <2>2 DEF SeenWrites
<1> QED  BY <1>1, Inductive, PTL DEF Spec, DecidedAsSeen
=============================================================================
