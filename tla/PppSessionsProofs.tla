------------------------- MODULE PppSessionsProofs --------------------------
(***************************************************************************)
(* Theorems about PppSessions, for any users, slack and time, and about    *)
(* Timeline, for any names, connections, gap and limits.                   *)
(***************************************************************************)
EXTENDS Timeline, FoldLemmas, SequenceTheorems, FiniteSetTheorems, TLAPS

(* Nothing is recorded of the future.                                         *)
RouterPast == \A s \in router : s.login <= clock

ReportPast ==
  \A u \in Users : report[u] # Absent =>
    /\ polling
    /\ report[u].rid <= clock
    /\ report[u].up # Null => report[u].up <= clock - report[u].rid

RowsPast == \A r \in rows : r.seen <= clock /\ r.rid <= clock

TypeInv == TypeOK /\ RouterPast

LEMMA TypeInvInit == Init => TypeInv
<1> SUFFICES ASSUME Init PROVE TypeInv
  OBVIOUS
<1>1. polling \in BOOLEAN
  BY Zenon DEF Init
<1>2. report \in [Users -> Entry \cup {Absent}]
  BY DEF Init, NoReport
<1> QED BY <1>1, <1>2 DEF Init, TypeInv, TypeOK, RouterPast, Time

(* Absent is not a listing entry, so an entry is a record.                     *)
LEMMA EntryOf ==
  ASSUME TypeOK, NEW u \in Users, report[u] # Absent
  PROVE  /\ report[u] \in Entry
         /\ report[u].rid \in Nat /\ report[u].up \in Nat \cup {Null}
  BY DEF TypeOK, Entry, Time

(* What a poll makes of one row: it is left, closed or refreshed.              *)
LEMMA SettleRowFacts ==
  ASSUME TypeOK, NEW r \in rows, NEW t \in Nat
  PROVE  LET q == SettleRow(r, t)
         IN  /\ q \in Row
             /\ q.user = r.user /\ q.start = r.start /\ q.rid = r.rid
             /\ \/ ~IsOpen(r) /\ q = r
                \/ /\ IsOpen(r) /\ (Vanished(r) \/ Reconnected(r)) /\ ~IsOpen(q)
                   /\ q.stop = r.seen /\ q.seen = r.seen
                \/ /\ IsOpen(r) /\ ~Vanished(r) /\ ~Reconnected(r) /\ IsOpen(q)
                   /\ q.seen = t /\ q.up = report[r.user].up
<1> USE PppAssumption
<1>1. r \in Row
  BY DEF TypeOK
<1>2. CASE ~IsOpen(r)
  BY <1>1, <1>2 DEF SettleRow
<1>3. CASE IsOpen(r) /\ (Vanished(r) \/ Reconnected(r))
  BY <1>1, <1>3 DEF SettleRow, CloseRow, IsOpen, Row, Time
<1>4. CASE IsOpen(r) /\ ~Vanished(r) /\ ~Reconnected(r)
  <2>1. report[r.user].up \in Nat \cup {Null}
    BY <1>1, <1>4, EntryOf DEF Vanished, Row
  <2>2. SettleRow(r, t) = RefreshRow(r, t)
    BY <1>4 DEF SettleRow
  <2> QED BY <1>1, <1>4, <2>1, <2>2 DEF RefreshRow, IsOpen, Row, Time
<1> QED BY <1>2, <1>3, <1>4

(* The row a poll opens.                                                       *)
LEMMA OpenRowFacts ==
  ASSUME TypeOK, NEW u \in Users, report[u] # Absent, NEW t \in Nat
  PROVE  LET q == OpenRow(u, t)
         IN  /\ q \in Row /\ IsOpen(q)
             /\ q.user = u /\ q.start = t /\ q.seen = t
             /\ q.rid = report[u].rid /\ q.up = report[u].up
  BY EntryOf DEF OpenRow, Row, IsOpen, Time

LEMMA TypeInvNext == TypeInv /\ [Next]_vars => TypeInv'
<1> SUFFICES ASSUME TypeInv, [Next]_vars PROVE TypeInv'
  OBVIOUS
<1> USE PppAssumption DEF TypeInv
<1>1. ASSUME NEW u \in Users, Login(u) PROVE TypeInv'
  BY <1>1 DEF Login, TypeOK, RouterPast, Session, Time
<1>2. ASSUME NEW s \in router, Logout(s) PROVE TypeInv'
  BY <1>2 DEF Logout, TypeOK, RouterPast, Session, Time
<1>3. CASE TimePasses
  BY <1>3 DEF TimePasses, TypeOK, RouterPast, Session, Time
<1>4. CASE FetchActive
  <2>1. PICK entry \in [Users -> router \cup {Absent}], readable \in SUBSET Users :
          report' = [u \in Users |->
                      IF entry[u] = Absent THEN Absent
                      ELSE [rid |-> entry[u].login,
                            up |-> Uptime(entry[u], u \in readable)]]
    BY <1>4 DEF FetchActive
  <2>2. \A s \in router : s \in Session /\ s.login <= clock
    BY DEF TypeOK, RouterPast
  <2>3. ASSUME NEW u \in Users, entry[u] # Absent
        PROVE  [rid |-> entry[u].login,
                up |-> Uptime(entry[u], u \in readable)] \in Entry
    <3>1. entry[u] \in Session /\ entry[u].login <= clock
      BY <2>2, <2>3
    <3> QED BY <3>1 DEF TypeOK, Uptime, Session, Entry, Time
  <2> QED BY <1>4, <2>1, <2>3 DEF FetchActive, TypeOK, RouterPast
<1>5. CASE ApplyActive
  <2>1. clock + 1 \in Nat
    BY DEF TypeOK, Time
  <2>2. \A r \in rows : SettleRow(r, clock + 1) \in Row
    BY <2>1, SettleRowFacts
  <2>3. \A u \in Users : NeedsRow(u) => OpenRow(u, clock + 1) \in Row
    BY <2>1, OpenRowFacts DEF NeedsRow
  <2>4. rows' \subseteq Row
    BY <1>5, <2>2, <2>3 DEF ApplyActive
  <2>5. polling' \in BOOLEAN
    BY <1>5, Zenon DEF ApplyActive
  <2>6. report' \in [Users -> Entry \cup {Absent}] /\ confirmed' \subseteq Users
    BY <1>5 DEF ApplyActive, NoReport
  <2>7. router' = router /\ clock' = clock + 1 /\ lastPoll' = clock + 1
    BY <1>5 DEF ApplyActive
  <2>8. RouterPast'
    BY <2>7 DEF TypeOK, RouterPast, Session, Time
  <2> QED BY <2>1, <2>4, <2>5, <2>6, <2>7, <2>8 DEF TypeOK, Time
<1>6. CASE AbortPoll
  BY <1>6 DEF AbortPoll, TypeOK, RouterPast, NoReport
<1>7. CASE UNCHANGED vars
  BY <1>7 DEF vars, TypeOK, RouterPast
<1> QED BY <1>1, <1>2, <1>3, <1>4, <1>5, <1>6, <1>7 DEF Next

LEMMA TypeInvariance == Spec => []TypeInv
  BY TypeInvInit, TypeInvNext, PTL DEF Spec

(* Every variable keeps its type: the uptime a poll records is never negative,  *)
(* since a listing names no session of the future.                              *)
THEOREM TypeCorrect == Spec => []TypeOK
<1>1. TypeInv => TypeOK
  BY DEF TypeInv
<1> QED BY <1>1, TypeInvariance, PTL

-----------------------------------------------------------------------------
(* The history of a user is a sequence of disjoint sessions, the open one last. *)

(* The open row of a user begins after every other row of his was last seen.    *)
OpenIsLatest ==
  \A r, s \in rows : r.user = s.user /\ IsOpen(r) /\ r # s => s.seen < r.start

(* OneOpenPerUser and SessionsDisjoint, made inductive: an open row grows, and  *)
(* stays clear of the others only because it is the latest.                     *)
HistoryInv ==
  /\ TypeInv
  /\ \A r \in rows : r.seen <= clock
  /\ StopIsLastConfirmed
  /\ OpenIsLatest
  /\ SessionsDisjoint

LEMMA HistoryInvInit == Init => HistoryInv
  BY TypeInvInit DEF Init, HistoryInv, StopIsLastConfirmed, OpenIsLatest, SessionsDisjoint

LEMMA LatestIsOnlyOpen == HistoryInv => OneOpenPerUser
<1> SUFFICES ASSUME HistoryInv, NEW r \in rows, NEW s \in rows,
                    r.user = s.user, IsOpen(r), IsOpen(s), r # s
             PROVE  FALSE
  BY DEF OneOpenPerUser
<1>1. s.seen < r.start /\ r.seen < s.start /\ r.start <= r.seen /\ s.start <= s.seen
  BY DEF HistoryInv, OpenIsLatest, StopIsLastConfirmed
<1>2. r \in Row /\ s \in Row
  BY DEF HistoryInv, TypeInv, TypeOK
<1> QED BY <1>1, <1>2 DEF Row, Time

(* The rows after a poll: each is a settled one or one just opened.             *)
LEMMA RowsAfterPoll ==
  ASSUME TypeOK, ApplyActive, NEW q \in rows'
  PROVE  \/ \E r \in rows : q = SettleRow(r, clock + 1)
         \/ \E u \in Users : /\ NeedsRow(u) /\ q = OpenRow(u, clock + 1)
                             /\ \A r \in rows : r.user = u => r.start # clock + 1
  BY DEF ApplyActive

LEMMA HistoryInvNext == HistoryInv /\ [Next]_vars => HistoryInv'
<1> SUFFICES ASSUME HistoryInv, [Next]_vars PROVE HistoryInv'
  OBVIOUS
<1>1. TypeInv'
  BY TypeInvNext DEF HistoryInv
<1>2. CASE rows' = rows /\ clock' >= clock
  <2>1. \A r \in rows : r \in Row
    BY DEF HistoryInv, TypeInv, TypeOK
  <2>2. clock \in Nat /\ clock' \in Nat
    BY <1>1 DEF HistoryInv, TypeInv, TypeOK, Time
  <2>3. (\A r \in rows : r.seen <= clock)'
    BY <1>2, <2>1, <2>2 DEF HistoryInv, Row, Time
  <2> QED BY <1>1, <1>2, <2>3
          DEF HistoryInv, StopIsLastConfirmed, OpenIsLatest, SessionsDisjoint, IsOpen
<1>3. CASE ApplyActive
  <2> DEFINE t == clock + 1
  <2>1. TypeOK /\ t \in Nat /\ clock \in Nat /\ t > clock /\ clock' = t
    BY <1>3 DEF HistoryInv, TypeInv, TypeOK, Time, ApplyActive
  <2>2. \A r \in rows : /\ r \in Row /\ r.start <= r.seen /\ r.seen <= clock
                        /\ ~IsOpen(r) => r.stop = r.seen
    BY DEF HistoryInv, TypeInv, TypeOK, StopIsLastConfirmed
  <2> HIDE DEF t
  <2>3. ASSUME NEW r \in rows
        PROVE  LET q == SettleRow(r, t)
               IN  /\ q \in Row /\ q.user = r.user /\ q.start = r.start
                   /\ r.seen <= q.seen /\ q.seen <= t
                   /\ ~IsOpen(q) => q.stop = q.seen /\ q.seen = r.seen
                   /\ IsOpen(q) => IsOpen(r) /\ ~Vanished(r) /\ ~Reconnected(r)
    <3> DEFINE q == SettleRow(r, t)
    <3>1. /\ q \in Row /\ q.user = r.user /\ q.start = r.start
          /\ \/ ~IsOpen(r) /\ q = r
             \/ IsOpen(r) /\ ~IsOpen(q) /\ q.stop = r.seen /\ q.seen = r.seen
             \/ IsOpen(r) /\ ~Vanished(r) /\ ~Reconnected(r) /\ IsOpen(q) /\ q.seen = t
      BY <2>1, SettleRowFacts
    <3>2. r \in Row /\ r.seen <= clock
      BY <2>2
    <3> HIDE DEF q
    <3>3. r.seen \in Nat /\ r.seen <= t
      BY <2>1, <3>2 DEF Row, Time
    <3>4. r.seen <= q.seen /\ q.seen <= t
      BY <2>1, <3>1, <3>3
    <3>5. (~IsOpen(q) => q.stop = q.seen /\ q.seen = r.seen)
      BY <2>2, <3>1
    <3>6. IsOpen(q) => IsOpen(r) /\ ~Vanished(r) /\ ~Reconnected(r)
      BY <3>1
    <3> QED BY <3>1, <3>4, <3>5, <3>6 DEF q
  <2>4. ASSUME NEW u \in Users, NeedsRow(u)
        PROVE  LET q == OpenRow(u, t)
               IN  q \in Row /\ IsOpen(q) /\ q.user = u /\ q.start = t /\ q.seen = t
    BY <2>1, <2>4, OpenRowFacts DEF NeedsRow
  <2> DEFINE Settled(q) == \E r \in rows : q = SettleRow(r, t)
             Opened(q)  == \E u \in Users : NeedsRow(u) /\ q = OpenRow(u, t)
  <2>5. \A q \in rows' : Settled(q) \/ Opened(q)
    BY <1>3, <2>1, RowsAfterPoll DEF t
  <2>6. \A q \in rows' : /\ q.start <= q.seen /\ q.seen <= t
                         /\ ~IsOpen(q) => q.stop = q.seen
    <3> SUFFICES ASSUME NEW q \in rows'
                 PROVE  /\ q.start <= q.seen /\ q.seen <= t
                        /\ ~IsOpen(q) => q.stop = q.seen
      OBVIOUS
    <3>1. CASE Settled(q)
      <4>1. PICK r \in rows : q = SettleRow(r, t)
        BY <3>1
      <4> QED BY <2>1, <2>2, <2>3, <4>1 DEF Row, Time
    <3>2. CASE Opened(q)
      BY <2>1, <2>4, <3>2
    <3> QED BY <2>5, <3>1, <3>2
  (* An open row after the poll begins after the others were last seen.          *)
  <2>7. ASSUME NEW a \in rows', NEW b \in rows', a.user = b.user, IsOpen(a), a # b
        PROVE  b.seen < a.start
    <3>1. CASE Settled(a) /\ Settled(b)
      <4>1. PICK r \in rows, s \in rows : a = SettleRow(r, t) /\ b = SettleRow(s, t)
        BY <3>1
      <4>2. r # s /\ r.user = s.user /\ IsOpen(r) /\ r.start = a.start
        BY <2>3, <2>7, <4>1
      <4>3. s.seen < r.start
        BY <4>2 DEF HistoryInv, OpenIsLatest
      <4>4. ~IsOpen(s)
        BY <4>2, LatestIsOnlyOpen DEF OneOpenPerUser
      <4>5. b.seen = s.seen
        BY <2>3, <4>1, <4>4
      <4> QED BY <4>2, <4>3, <4>5
    <3>2. CASE Opened(a) /\ Settled(b)
      <4>1. PICK u \in Users, s \in rows : NeedsRow(u) /\ a = OpenRow(u, t) /\ b = SettleRow(s, t)
        BY <3>2
      <4>2. s.user = u /\ a.start = t
        BY <2>3, <2>4, <2>7, <4>1
      <4>3. IsOpen(s) => Reconnected(s)
        BY <4>1, <4>2 DEF NeedsRow
      <4>4. b.seen = s.seen /\ s.seen <= clock /\ s \in Row
        BY <2>2, <2>3, <4>1, <4>3
      <4> QED BY <2>1, <4>2, <4>4 DEF Row, Time
    <3>3. CASE Opened(b) /\ Settled(a)
      <4>1. PICK u \in Users, r \in rows : NeedsRow(u) /\ b = OpenRow(u, t) /\ a = SettleRow(r, t)
        BY <3>3
      <4>2. r.user = u /\ IsOpen(r) /\ ~Reconnected(r)
        BY <2>3, <2>4, <2>7, <4>1
      <4> QED BY <4>1, <4>2 DEF NeedsRow
    <3>4. CASE Opened(a) /\ Opened(b)
      BY <2>4, <2>7, <3>4
    <3> QED BY <2>5, <3>1, <3>2, <3>3, <3>4
  <2>8. ASSUME NEW a \in rows', NEW b \in rows', a.user = b.user, a # b
        PROVE  a.seen < b.start \/ b.seen < a.start
    <3>1. CASE ~IsOpen(a) /\ ~IsOpen(b)
      <4>1. Settled(a) /\ Settled(b)
        BY <2>4, <2>5, <3>1
      <4>2. PICK r \in rows, s \in rows : a = SettleRow(r, t) /\ b = SettleRow(s, t)
        BY <4>1
      <4>3. /\ r # s /\ r.user = s.user
            /\ a.seen = r.seen /\ a.start = r.start /\ b.seen = s.seen /\ b.start = s.start
        BY <2>3, <2>8, <3>1, <4>2
      <4> QED BY <4>3 DEF HistoryInv, SessionsDisjoint
    <3> QED BY <2>7, <2>8, <3>1
  <2>9. (\A r \in rows : r.seen <= clock)'
    BY <2>1, <2>6
  <2>10. StopIsLastConfirmed'
    BY <2>6 DEF StopIsLastConfirmed, IsOpen
  <2>11. OpenIsLatest'
    BY <2>7 DEF OpenIsLatest, IsOpen
  <2>12. SessionsDisjoint'
    BY <2>8 DEF SessionsDisjoint
  <2> QED BY <1>1, <2>9, <2>10, <2>11, <2>12 DEF HistoryInv
<1>4. (rows' = rows /\ clock' >= clock) \/ ApplyActive
  <2>1. clock \in Nat
    BY DEF HistoryInv, TypeInv, TypeOK, Time
  <2> QED BY <2>1 DEF Next, Login, Logout, TimePasses, FetchActive, AbortPoll, vars
<1> QED BY <1>2, <1>3, <1>4

LEMMA HistoryInvariance == Spec => []HistoryInv
  BY HistoryInvInit, HistoryInvNext, PTL DEF Spec

(* However polls are delayed, aborted or see one of several sessions of a user, *)
(* he has at most one open session.                                             *)
THEOREM AtMostOneOpen == Spec => []OneOpenPerUser
  BY HistoryInvariance, LatestIsOnlyOpen, PTL

(* An address and a time resolve to one session of a user at most.              *)
THEOREM SessionsNeverOverlap == Spec => []SessionsDisjoint
<1>1. HistoryInv => SessionsDisjoint
  BY DEF HistoryInv
<1> QED BY <1>1, HistoryInvariance, PTL

(* No row claims time the polls did not see.                                    *)
THEOREM StopsAtLastConfirmation == Spec => []StopIsLastConfirmed
<1>1. HistoryInv => StopIsLastConfirmed
  BY DEF HistoryInv
<1> QED BY <1>1, HistoryInvariance, PTL

(* A closed session is evidence: no poll changes it again.                      *)
THEOREM ClosedRowsAreFinal == Spec => ClosedRowsStay
<1>1. ASSUME TypeInv, [Next]_vars, NEW r \in rows, ~IsOpen(r) PROVE r \in rows'
  <2>1. CASE ApplyActive
    <3>1. SettleRow(r, clock + 1) = r
      BY <1>1 DEF SettleRow
    <3> QED BY <2>1, <3>1 DEF ApplyActive
  <2>2. CASE rows' = rows
    BY <1>1, <2>2
  <2> QED BY <1>1, <2>1, <2>2
          DEF Next, Login, Logout, TimePasses, FetchActive, AbortPoll, vars
<1>2. TypeInv /\ [Next]_vars => [\A r \in rows : ~IsOpen(r) => r \in rows']_vars
  BY <1>1
<1> QED BY <1>2, TypeInvariance, PTL DEF Spec, ClosedRowsStay

-----------------------------------------------------------------------------
(* Who is online.                                                               *)

OnlineInv == HistoryInv /\ OnlineIsLastListing

LEMMA OnlineInvNext == OnlineInv /\ [Next]_vars => OnlineInv'
<1> SUFFICES ASSUME OnlineInv, [Next]_vars PROVE OnlineInv'
  OBVIOUS
<1>1. HistoryInv'
  BY HistoryInvNext DEF OnlineInv
<1>2. CASE UNCHANGED <<rows, lastPoll, confirmed>>
  BY <1>1, <1>2 DEF OnlineInv, OnlineIsLastListing, IsOpen
<1>3. CASE ApplyActive
  <2> DEFINE t == clock + 1
  <2>1. TypeOK /\ t \in Nat /\ clock \in Nat /\ t > clock
    BY DEF OnlineInv, HistoryInv, TypeInv, TypeOK, Time
  <2>2. /\ lastPoll' = t /\ confirmed' = {u \in Users : report[u] # Absent}
        /\ rows' = {SettleRow(r, t) : r \in rows}
                   \cup {OpenRow(u, t) : u \in {v \in Users :
                           NeedsRow(v) /\ \A r \in rows : r.user = v => r.start # t}}
    BY <1>3 DEF ApplyActive
  <2>3. ASSUME NEW r \in rows
        PROVE  LET q == SettleRow(r, t)
               IN  /\ q.user = r.user /\ r.user \in Users
                   /\ IsOpen(q) <=> IsOpen(r) /\ ~Vanished(r) /\ ~Reconnected(r)
                   /\ IsOpen(q) => q.seen = t
    <3>1. r \in Row
      BY <2>1 DEF TypeOK
    <3>2. r.user \in Users
      BY <3>1 DEF Row
    <3> QED BY <2>1, <3>2, SettleRowFacts
  <2>4. ASSUME NEW u \in Users, NeedsRow(u)
        PROVE  LET q == OpenRow(u, t) IN IsOpen(q) /\ q.user = u /\ q.seen = t
    BY <2>1, <2>4, OpenRowFacts DEF NeedsRow
  (* No row of the past begins now, so ON CONFLICT never skips an insert.          *)
  <2>5. \A r \in rows : r.start # t
    <3> SUFFICES ASSUME NEW r \in rows PROVE r.start # t
      OBVIOUS
    <3>1. r \in Row /\ r.start <= r.seen /\ r.seen <= clock
      BY DEF OnlineInv, HistoryInv, TypeInv, TypeOK, StopIsLastConfirmed
    <3> QED BY <2>1, <3>1 DEF Row, Time
  <2> HIDE DEF t
  <2>6. \A q \in rows' : IsOpen(q) => q.seen = t /\ q.user \in confirmed'
    <3> SUFFICES ASSUME NEW q \in rows', IsOpen(q) PROVE q.seen = t /\ q.user \in confirmed'
      OBVIOUS
    <3>1. CASE \E r \in rows : q = SettleRow(r, t)
      BY <2>2, <2>3, <3>1 DEF Vanished
    <3>2. CASE \E u \in Users : NeedsRow(u) /\ q = OpenRow(u, t)
      BY <2>2, <2>4, <3>2 DEF NeedsRow
    <3> QED BY <2>2, <3>1, <3>2
  <2>7. \A u \in confirmed' : \E q \in rows' : IsOpen(q) /\ q.user = u
    <3> SUFFICES ASSUME NEW u \in Users, report[u] # Absent
                 PROVE  \E q \in rows' : IsOpen(q) /\ q.user = u
      BY <2>2
    <3>1. CASE NeedsRow(u)
      <4>1. OpenRow(u, t) \in rows'
        BY <2>2, <2>5, <3>1
      <4> QED BY <2>4, <3>1, <4>1
    <3>2. CASE ~NeedsRow(u)
      <4>1. PICK r \in rows : r.user = u /\ IsOpen(r) /\ ~Reconnected(r)
        BY <3>2 DEF NeedsRow
      <4>2. SettleRow(r, t) \in rows'
        BY <2>2
      <4> QED BY <2>3, <4>1, <4>2 DEF Vanished
    <3> QED BY <3>1, <3>2
  <2>8. {r.user : r \in {x \in rows' : IsOpen(x)}} = confirmed'
    BY <2>6, <2>7
  <2>9. \A r \in rows' : IsOpen(r) => r.seen = lastPoll'
    BY <2>2, <2>6
  <2> QED BY <1>1, <2>8, <2>9 DEF OnlineInv, OnlineIsLastListing, IsOpen
<1>4. UNCHANGED <<rows, lastPoll, confirmed>> \/ ApplyActive
  BY DEF Next, Login, Logout, TimePasses, FetchActive, AbortPoll, vars
<1> QED BY <1>2, <1>3, <1>4

(* "Who is online now" is what the last applied listing named, no less and no   *)
(* more, and every row so shown was confirmed by that poll.                     *)
THEOREM OnlineIsWhatWasListed == Spec => []OnlineIsLastListing
<1>1. Init => OnlineInv
  BY HistoryInvInit DEF Init, OnlineInv, OnlineIsLastListing
<1>2. OnlineInv => OnlineIsLastListing
  BY DEF OnlineInv
<1> QED BY <1>1, <1>2, OnlineInvNext, PTL DEF Spec

-----------------------------------------------------------------------------
(* For a user the router allows one session at a time, rows and sessions        *)
(* correspond.                                                                  *)

OneSession == \A s, x \in router : Exclusive(s.user) /\ s.user = x.user => s = x

(* A session that is up is the one the listing named, or began after the        *)
(* listing was taken and no row knows it.                                       *)
FetchedThenCurrent ==
  polling => \A s \in router : Exclusive(s.user) =>
    \/ report[s.user] # Absent /\ report[s.user].rid = s.login
    \/ \A r \in rows : r.user = s.user => r.rid # s.login

(* The listing names no session of a row that is already closed.                *)
NotEnded ==
  \A r \in rows : Exclusive(r.user) /\ ~IsOpen(r) /\ report[r.user] # Absent => r.rid # report[r.user].rid

(* As long as a row's own session goes on, its uptime grows.                    *)
UptimeGrows ==
  \A r \in rows : Exclusive(r.user) /\ IsOpen(r) /\ r.up # Null =>
    /\ \A s \in router : s.user = r.user /\ s.login = r.rid => r.up <= clock - r.rid
    /\ report[r.user] # Absent /\ report[r.user].rid = r.rid /\ report[r.user].up # Null
         => r.up <= report[r.user].up

SessionInv ==
  /\ HistoryInv
  /\ RowsPast /\ ReportPast
  /\ OneSession
  /\ FetchedThenCurrent
  /\ NotEnded
  /\ UptimeGrows
  /\ EndedSessionsAreOver
  /\ NoSplitSession

LEMMA SessionInvInit == Init => SessionInv
<1> SUFFICES ASSUME Init PROVE SessionInv
  OBVIOUS
<1>1. \A u \in Users : report[u] = Absent
  BY DEF Init, NoReport
<1>2. HistoryInv
  BY HistoryInvInit
<1> QED BY <1>1, <1>2
        DEF Init, SessionInv, RowsPast, ReportPast, OneSession, FetchedThenCurrent, NotEnded,
            UptimeGrows, EndedSessionsAreOver, NoSplitSession

(* A reconnect is never seen in a row whose own session goes on: its uptime grew. *)
LEMMA ReconnectIsAnother ==
  ASSUME SessionInv, NEW r \in rows, Exclusive(r.user), IsOpen(r), Reconnected(r)
  PROVE  report[r.user].rid # r.rid
<1> SUFFICES ASSUME report[r.user].rid = r.rid PROVE FALSE
  OBVIOUS
<1>1. /\ report[r.user] # Absent /\ r.up # Null /\ report[r.user].up # Null
      /\ report[r.user].up + Slack < r.up
  BY DEF Reconnected
<1>2. r.up <= report[r.user].up
  BY <1>1 DEF SessionInv, UptimeGrows
<1>3. r \in Row /\ TypeOK
  BY DEF SessionInv, HistoryInv, TypeInv, TypeOK
<1>4. r.user \in Users /\ r.up \in Nat
  BY <1>1, <1>3 DEF Row
<1>5. report[r.user].up \in Nat
  BY <1>1, <1>3, <1>4, EntryOf
<1> QED BY <1>1, <1>2, <1>4, <1>5, PppAssumption

(* A poll closes a row only when the row's own session is over.                   *)
LEMMA ClosedIsOver ==
  ASSUME SessionInv, polling, NEW r \in rows, Exclusive(r.user), IsOpen(r),
         Vanished(r) \/ Reconnected(r), NEW s \in router, s.user = r.user
  PROVE  s.login # r.rid
<1>1. CASE report[s.user] # Absent /\ report[s.user].rid = s.login
  BY <1>1, ReconnectIsAnother DEF Vanished
<1>2. CASE \A q \in rows : q.user = s.user => q.rid # s.login
  BY <1>2
<1> QED BY <1>1, <1>2 DEF SessionInv, FetchedThenCurrent

LEMMA SessionInvNext == SessionInv /\ [Next]_vars => SessionInv'
<1> SUFFICES ASSUME SessionInv, [Next]_vars PROVE SessionInv'
  OBVIOUS
<1>1. HistoryInv'
  BY HistoryInvNext DEF SessionInv
<1>2. TypeOK /\ clock \in Nat /\ RouterPast
  BY DEF SessionInv, HistoryInv, TypeInv, TypeOK, Time
<1>3. \A r \in rows : r \in Row /\ r.user \in Users /\ r.rid \in Nat
  BY <1>2 DEF TypeOK, Row, Time
<1>4. \A s \in router : s.user \in Users /\ s.login \in Nat /\ s.login <= clock
  BY <1>2 DEF TypeOK, RouterPast, Session, Time
<1>5. \A u \in Users : report[u] # Absent =>
        /\ polling /\ report[u].rid \in Nat /\ report[u].up \in Nat \cup {Null}
        /\ report[u].rid <= clock
        /\ report[u].up # Null => report[u].up <= clock - report[u].rid
  BY <1>2, EntryOf DEF SessionInv, ReportPast
<1>6. \A r \in rows : r.up \in Nat \cup {Null} /\ r.seen \in Nat
  BY <1>2 DEF TypeOK, Row, Time
<1> USE DEF SessionInv
<1>10. ASSUME NEW u \in Users, Login(u) PROVE SessionInv'
  <2> DEFINE new == [user |-> u, login |-> clock + 1]
  <2>1. /\ router' = router \cup {new} /\ clock' = clock + 1
        /\ UNCHANGED <<rows, report, polling>>
        /\ Exclusive(u) => SessionsOf(u) = {}
    BY <1>10 DEF Login, Exclusive
  <2>2. new.user = u /\ new.login = clock + 1
    OBVIOUS
  <2> HIDE DEF new
  <2>3. OneSession'
    <3>1. Exclusive(u) => \A s \in router : s.user # u
      BY <2>1 DEF SessionsOf
    <3> QED BY <2>1, <2>2, <3>1 DEF OneSession
  <2>4. \A r \in rows : r.rid < clock + 1
    BY <1>2, <1>3 DEF RowsPast
  <2>5. FetchedThenCurrent'
    BY <1>3, <2>1, <2>2, <2>4 DEF FetchedThenCurrent
  <2>6. RowsPast' /\ ReportPast'
    <3>1. RowsPast'
      BY <1>2, <1>3, <1>6, <2>1 DEF RowsPast
    <3>2. ReportPast'
      BY <1>2, <1>5, <2>1 DEF ReportPast
    <3> QED BY <3>1, <3>2
  <2>7. NotEnded' /\ NoSplitSession'
    BY <2>1 DEF NotEnded, NoSplitSession, IsOpen
  <2>8. UptimeGrows'
    BY <1>2, <1>3, <1>6, <2>1, <2>2, <2>4 DEF UptimeGrows, IsOpen
  <2>9. EndedSessionsAreOver'
    BY <1>3, <2>1, <2>2, <2>4 DEF EndedSessionsAreOver, IsOpen
  <2> QED BY <1>1, <2>3, <2>5, <2>6, <2>7, <2>8, <2>9
(* Sessions end, or time passes: what held of the sessions that are up still does. *)
<1>11. ASSUME router' \subseteq router, UNCHANGED <<rows, report, polling>>,
              clock' \in {clock, clock + 1}
       PROVE  SessionInv'
  <2>1. OneSession'
    BY <1>11 DEF OneSession
  <2>2. RowsPast'
    BY <1>2, <1>3, <1>6, <1>11 DEF RowsPast
  <2>3. ReportPast'
    BY <1>2, <1>5, <1>11 DEF ReportPast
  <2>4. FetchedThenCurrent' /\ NotEnded' /\ NoSplitSession' /\ EndedSessionsAreOver'
    BY <1>11 DEF FetchedThenCurrent, NotEnded, NoSplitSession, EndedSessionsAreOver, IsOpen
  <2>5. UptimeGrows'
    BY <1>2, <1>3, <1>6, <1>11 DEF UptimeGrows, IsOpen
  <2> QED BY <1>1, <2>1, <2>2, <2>3, <2>4, <2>5
<1>12. CASE FetchActive
  <2>1. PICK entry \in [Users -> router \cup {Absent}], readable \in SUBSET Users :
          /\ \A u \in Users : IF SessionsOf(u) = {} THEN entry[u] = Absent
                              ELSE entry[u] \in SessionsOf(u)
          /\ report' = [u \in Users |->
                         IF entry[u] = Absent THEN Absent
                         ELSE [rid |-> entry[u].login,
                               up |-> Uptime(entry[u], u \in readable)]]
    BY <1>12 DEF FetchActive
  <2>2. UNCHANGED <<router, clock, rows>> /\ polling'
    BY <1>12 DEF FetchActive
  <2>3. \A u \in Users : report'[u] # Absent =>
          /\ entry[u] \in router /\ entry[u].user = u /\ report'[u].rid = entry[u].login
          /\ report'[u].up = Uptime(entry[u], u \in readable)
    BY <2>1 DEF SessionsOf
  <2>4. ASSUME NEW s \in router, Exclusive(s.user)
        PROVE  report'[s.user] # Absent /\ report'[s.user].rid = s.login
    <3>1. s.user \in Users /\ s \in SessionsOf(s.user)
      BY <1>4 DEF SessionsOf
    <3>2. entry[s.user] \in SessionsOf(s.user)
      BY <2>1, <3>1
    <3>3. entry[s.user] = s
      BY <2>4, <3>2 DEF SessionsOf, OneSession
    <3>4. s # Absent
      BY <1>2, PppAssumption DEF TypeOK, Session, Time
    <3>5. report'[s.user] = [rid |-> s.login, up |-> Uptime(s, s.user \in readable)]
      BY <2>1, <3>1, <3>3, <3>4
    <3>6. report'[s.user] # Absent
      <4>1. s.login \in Nat /\ clock - s.login \in Nat
        BY <1>2, <1>4 DEF TypeOK, Session
      <4>2. Uptime(s, s.user \in readable) \in Nat \cup {Null}
        BY <4>1 DEF Uptime
      <4> QED BY <3>5, <4>1, <4>2, PppAssumption
    <3> QED BY <3>5, <3>6
  <2>5. \A u \in Users : report'[u] # Absent /\ report'[u].up # Null =>
          report'[u].up = clock - report'[u].rid
    BY <2>3 DEF Uptime
  <2>6. ReportPast'
    BY <1>2, <1>4, <2>2, <2>3, <2>5 DEF ReportPast
  <2>7. FetchedThenCurrent'
    BY <2>2, <2>4 DEF FetchedThenCurrent
  <2>8. NotEnded'
    BY <1>3, <2>2, <2>3 DEF NotEnded, EndedSessionsAreOver, IsOpen
  <2>9. UptimeGrows'
    BY <1>3, <2>2, <2>3, <2>5 DEF UptimeGrows, IsOpen
  <2>10. RowsPast' /\ OneSession' /\ EndedSessionsAreOver' /\ NoSplitSession'
    BY <2>2 DEF RowsPast, OneSession, EndedSessionsAreOver, NoSplitSession, IsOpen
  <2> QED BY <1>1, <2>6, <2>7, <2>8, <2>9, <2>10
<1>13. CASE AbortPoll
  <2>1. UNCHANGED <<router, clock, rows>> /\ ~polling' /\ \A u \in Users : report'[u] = Absent
    BY <1>13 DEF AbortPoll, NoReport
  <2> QED BY <1>1, <1>3, <2>1
          DEF RowsPast, ReportPast, OneSession, FetchedThenCurrent, NotEnded, UptimeGrows,
              EndedSessionsAreOver, NoSplitSession, IsOpen
<1>14. CASE ApplyActive
  <2> DEFINE t == clock + 1
  <2>1. t \in Nat /\ t > clock
    BY <1>2
  <2>2. /\ polling /\ ~polling' /\ clock' = t /\ router' = router
        /\ \A u \in Users : report'[u] = Absent
    BY <1>14 DEF ApplyActive, NoReport
  <2>3. ASSUME NEW r \in rows
        PROVE  LET q == SettleRow(r, t)
               IN  /\ q \in Row /\ q.user = r.user /\ q.rid = r.rid
                   /\ \/ ~IsOpen(r) /\ q = r
                      \/ IsOpen(r) /\ (Vanished(r) \/ Reconnected(r)) /\ ~IsOpen(q)
                      \/ IsOpen(r) /\ ~Vanished(r) /\ IsOpen(q) /\ q.up = report[r.user].up
    BY <1>2, <2>1, SettleRowFacts
  <2>4. ASSUME NEW u \in Users, NeedsRow(u)
        PROVE  LET q == OpenRow(u, t)
               IN  /\ q \in Row /\ IsOpen(q) /\ q.user = u
                   /\ q.rid = report[u].rid /\ q.up = report[u].up
    BY <1>2, <2>1, <2>4, OpenRowFacts DEF NeedsRow
  <2> DEFINE Settled(q) == \E r \in rows : q = SettleRow(r, t)
             Opened(q)  == \E u \in Users : NeedsRow(u) /\ q = OpenRow(u, t)
  <2>5. \A q \in rows' : Settled(q) \/ Opened(q)
    BY <1>2, <1>14, RowsAfterPoll
  <2> HIDE DEF t
  <2>6. \A q \in rows' : q.rid <= t
    <3>1. \A r \in rows : r.rid <= clock
      BY DEF RowsPast
    <3> QED BY <1>2, <1>3, <1>5, <2>1, <2>3, <2>4, <2>5, <3>1 DEF NeedsRow
  <2>7. RowsPast'
    <3>1. \A q \in rows' : q.seen <= clock'
      BY <1>1 DEF HistoryInv
    <3> QED BY <2>2, <2>6, <3>1 DEF RowsPast
  <2>8. ReportPast' /\ OneSession' /\ FetchedThenCurrent'
    BY <2>2 DEF ReportPast, OneSession, FetchedThenCurrent
  <2>9. NotEnded'
    <3>1. \A q \in rows' : q.user \in Users
      BY <1>1 DEF HistoryInv, TypeInv, TypeOK, Row
    <3> QED BY <2>2, <3>1 DEF NotEnded
  <2>10. UptimeGrows'
    <3> SUFFICES ASSUME NEW q \in rows', Exclusive(q.user), IsOpen(q), q.up # Null,
                        NEW s \in router, s.user = q.user, s.login = q.rid
                 PROVE  q.up <= t - q.rid
      <4>1. \A q \in rows' : q.user \in Users
        BY <1>1 DEF HistoryInv, TypeInv, TypeOK, Row
      <4> QED BY <2>2, <4>1 DEF UptimeGrows, IsOpen
    <3>1. q.up = report[q.user].up /\ report[q.user] # Absent /\ q.user \in Users
      <4>1. CASE Settled(q)
        BY <1>3, <2>3, <4>1 DEF Vanished
      <4>2. CASE Opened(q)
        BY <2>4, <4>2 DEF NeedsRow
      <4> QED BY <2>5, <4>1, <4>2
    <3>2. report[q.user].rid = s.login
      <4>1. CASE Settled(q)
        <5>1. PICK r \in rows : q = SettleRow(r, t)
          BY <4>1
        <5>2. r.user = s.user /\ r.rid = s.login
          BY <2>3, <5>1
        <5> QED BY <2>2, <5>2 DEF FetchedThenCurrent
      <4>2. CASE Opened(q)
        BY <2>4, <4>2
      <4> QED BY <2>5, <4>1, <4>2
    <3> QED BY <1>2, <1>5, <2>1, <3>1, <3>2
  <2>11. EndedSessionsAreOver'
    <3> SUFFICES ASSUME NEW q \in rows', Exclusive(q.user), ~IsOpen(q),
                        NEW s \in router, s.user = q.user
                 PROVE  s.login # q.rid
      BY <2>2 DEF EndedSessionsAreOver, IsOpen
    <3>1. PICK r \in rows : q = SettleRow(r, t)
      BY <2>4, <2>5
    <3>2. CASE ~IsOpen(r)
      BY <2>3, <3>1, <3>2 DEF EndedSessionsAreOver
    <3>3. CASE IsOpen(r)
      <4>1. Vanished(r) \/ Reconnected(r)
        BY <2>3, <3>1, <3>3
      <4> QED BY <2>2, <2>3, <3>1, <3>3, <4>1, ClosedIsOver
    <3> QED BY <3>2, <3>3
  <2>12. NoSplitSession'
    (* The session a new row is opened for belongs to no row so far.               *)
    <3>1. ASSUME NEW u \in Users, Exclusive(u), NeedsRow(u), NEW r \in rows, r.user = u
          PROVE  r.rid # report[u].rid
      <4>1. report[u] # Absent
        BY <3>1 DEF NeedsRow
      <4>2. CASE ~IsOpen(r)
        BY <3>1, <4>1, <4>2 DEF NotEnded
      <4>3. CASE IsOpen(r)
        BY <3>1, <4>3, ReconnectIsAnother DEF NeedsRow
      <4> QED BY <4>2, <4>3
    <3> SUFFICES ASSUME NEW a \in rows', NEW b \in rows',
                        Exclusive(a.user), a.user = b.user, a.rid = b.rid
                 PROVE  a = b
      BY DEF NoSplitSession
    <3>2. CASE Settled(a) /\ Settled(b)
      <4>1. PICK r \in rows, s \in rows : a = SettleRow(r, t) /\ b = SettleRow(s, t)
        BY <3>2
      <4>2. r = s
        BY <2>3, <4>1 DEF NoSplitSession
      <4> QED BY <4>1, <4>2
    <3>3. CASE Opened(a) /\ Settled(b)
      <4>1. PICK u \in Users, r \in rows : NeedsRow(u) /\ a = OpenRow(u, t) /\ b = SettleRow(r, t)
        BY <3>3
      <4> QED BY <2>3, <2>4, <3>1, <4>1
    <3>4. CASE Settled(a) /\ Opened(b)
      <4>1. PICK u \in Users, r \in rows : NeedsRow(u) /\ b = OpenRow(u, t) /\ a = SettleRow(r, t)
        BY <3>4
      <4> QED BY <2>3, <2>4, <3>1, <4>1
    <3>5. CASE Opened(a) /\ Opened(b)
      BY <2>4, <3>5
    <3> QED BY <2>5, <3>2, <3>3, <3>4, <3>5
  <2> QED BY <1>1, <2>7, <2>8, <2>9, <2>10, <2>11, <2>12
<1>15. ASSUME NEW s \in router, Logout(s) PROVE SessionInv'
  BY <1>11, <1>15 DEF Logout
<1>16. CASE TimePasses
  BY <1>11, <1>16 DEF TimePasses
<1>17. CASE UNCHANGED vars
  BY <1>11, <1>17 DEF vars
<1> QED BY <1>10, <1>12, <1>13, <1>14, <1>15, <1>16, <1>17 DEF Next

(* For a user with one session at a time the history is exact: a session it      *)
(* closed is over, however late the listing was applied and whether or not its   *)
(* uptimes could be read.                                                        *)
THEOREM ClosedMeansOver == Spec => []EndedSessionsAreOver
<1>1. SessionInv => EndedSessionsAreOver
  BY DEF SessionInv
<1> QED BY <1>1, SessionInvInit, SessionInvNext, PTL DEF Spec

(* And no session of such a user is recorded as two.                             *)
THEOREM SessionsAreNotSplit == Spec => []NoSplitSession
<1>1. SessionInv => NoSplitSession
  BY DEF SessionInv
<1> QED BY <1>1, SessionInvInit, SessionInvNext, PTL DEF Spec

-----------------------------------------------------------------------------
(* The timeline.  Two invariants of its state carry the theorems on the pages:  *)
(* router sessions are told apart by their login, so the rows of a page have an *)
(* order (ConnsInv), and the polls that heard of a session lie in one row of it *)
(* (HeardInv), which needs that a session that is up is listed or unheard of,   *)
(* and that the uptime of its row grows with it.  The rest is about the pages   *)
(* as functions of the rows: no step takes part in it.                          *)

(* The timeline's poller is the poller, so that its theorems hold here as well.     *)
LEMMA PollerStep == [TimelineNext]_tvars => [Next]_vars
BY DEF TimelineNext, PppStep, Connect, tvars, vars

LEMMA SessionInvAlways == TimelineSpec => []SessionInv
<1>1. TimelineInit => Init
  BY DEF TimelineInit
<1>2. TimelineSpec => Spec
  BY <1>1, PollerStep, PTL DEF TimelineSpec, Spec
<1> QED BY <1>2, SessionInvInit, SessionInvNext, PTL DEF Spec

(* Time goes on, and a session that comes up is known by when it did.               *)
LEMMA ClockAndRouter ==
  ASSUME TypeInv, [Next]_vars
  PROVE  /\ clock \in Nat /\ clock' \in Nat /\ clock <= clock'
         /\ \/ router' \subseteq router
            \/ \E u \in Users : router' = router \cup {[user |-> u, login |-> clock + 1]} /\ clock' = clock + 1
<1>1. clock \in Nat
  BY DEF TypeInv, TypeOK, Time
<1>2. PICK n \in Nat : n = clock
  BY <1>1
<1>3. clock' = n \/ clock' = n + 1
  BY <1>2 DEF Next, Login, Logout, TimePasses, FetchActive, ApplyActive, AbortPoll, vars
<1>4. \/ router' \subseteq router
      \/ \E u \in Users : router' = router \cup {[user |-> u, login |-> clock + 1]} /\ clock' = clock + 1
  BY DEF Next, Login, Logout, TimePasses, FetchActive, ApplyActive, AbortPoll, vars
<1>5. clock' \in Nat /\ n <= clock'
  BY <1>2, <1>3
<1> QED BY <1>1, <1>2, <1>4, <1>5

-----------------------------------------------------------------------------
(* Connections.                                                                     *)

Connection == [user : Users, login : Nat, at : Nat, nth : Nat \ {0}]

(* A router session, known by the time of its login, is one user's.                 *)
LoginIsOfOne ==
  /\ \A s, x \in router : s.login = x.login => s.user = x.user
  /\ \A c, d \in conns : c.login = d.login => c.user = d.user
  /\ \A c \in conns, s \in router : c.login = s.login => c.user = s.user

ConnsInv ==
  /\ IsFiniteSet(conns) /\ conns \subseteq Connection
  /\ \A c \in conns : c.at <= clock /\ c.login <= clock
  /\ LoginIsOfOne

LEMMA ConnsInvInit == TimelineInit => ConnsInv
BY FS_EmptySet DEF TimelineInit, Init, ConnsInv, LoginIsOfOne

LEMMA ConnsInvNext == TypeInv /\ ConnsInv /\ [TimelineNext]_tvars => ConnsInv'
<1> SUFFICES ASSUME TypeInv, ConnsInv, [TimelineNext]_tvars PROVE ConnsInv'
  OBVIOUS
<1>1. /\ clock \in Nat /\ clock' \in Nat /\ clock <= clock'
      /\ \/ router' \subseteq router
         \/ \E u \in Users : router' = router \cup {[user |-> u, login |-> clock + 1]} /\ clock' = clock + 1
  BY PollerStep, ClockAndRouter
<1>2. \A s \in router : s \in Session /\ s.login <= clock
  BY DEF TypeInv, TypeOK, RouterPast
<1>3. \A c \in conns : c \in Connection /\ c.at <= clock /\ c.login <= clock
  BY DEF ConnsInv
<1>4. CASE conns' = conns
  <2>1. \A c \in conns' : c.at <= clock' /\ c.login <= clock'
    BY <1>1, <1>3, <1>4 DEF Connection
  <2>2. CASE router' \subseteq router
    BY <1>4, <2>1, <2>2 DEF ConnsInv, LoginIsOfOne
  <2>3. CASE \E u \in Users : router' = router \cup {[user |-> u, login |-> clock + 1]} /\ clock' = clock + 1
    <3>1. PICK u \in Users : router' = router \cup {[user |-> u, login |-> clock + 1]}
      BY <2>3
    <3>2. \A s \in router : s.login \in Nat /\ s.login # clock + 1
      BY <1>1, <1>2 DEF Session, Time
    <3>3. \A c \in conns : c.login # clock + 1
      BY <1>1, <1>3 DEF Connection
    <3> QED BY <1>4, <2>1, <3>1, <3>2, <3>3 DEF ConnsInv, LoginIsOfOne
  <2> QED BY <1>1, <2>2, <2>3
<1>5. ASSUME NEW s \in router, Connect(s) PROVE ConnsInv'
  <2> DEFINE same == {c \in conns : c.user = s.user /\ c.login = s.login /\ c.at = clock}
             c == [user |-> s.user, login |-> s.login, at |-> clock, nth |-> Cardinality(same) + 1]
  <2>1. conns' = conns \cup {c} /\ router' = router /\ clock' = clock
    BY <1>5 DEF Connect, vars
  <2>2. Cardinality(same) \in Nat
    BY FS_Subset, FS_CardinalityType DEF ConnsInv
  <2>3. c \in Connection /\ c.at = clock /\ c.login = s.login /\ c.user = s.user
    BY <1>1, <1>2, <2>2 DEF Connection, Session, Time
  <2>4. c.at <= clock /\ c.login <= clock
    BY <1>1, <1>2, <2>3
  <2>5. IsFiniteSet(conns \cup {c})
    BY FS_AddElement DEF ConnsInv
  <2> HIDE DEF c
  <2> QED BY <1>5, <2>1, <2>3, <2>4, <2>5 DEF ConnsInv, LoginIsOfOne
<1>6. conns' = conns \/ \E s \in router : Connect(s)
  BY DEF TimelineNext, PppStep, tvars
<1> QED BY <1>4, <1>5, <1>6

-----------------------------------------------------------------------------
(* Since when there are polls, and what they heard.                                 *)

SinceInv ==
  /\ lastPoll = Null => since = Null /\ rows = {} /\ polls = {}
  /\ lastPoll # Null => since \in Nat /\ since <= lastPoll /\ lastPoll <= clock
  /\ \A r \in rows : since <= r.start
  /\ \A e \in polls : e \in [user : Users, rid : Nat, at : Nat] /\ e.rid < e.at /\ e.at <= lastPoll

LEMMA SinceInvInit == TimelineInit => SinceInv
BY DEF TimelineInit, Init, SinceInv

LEMMA SinceInvNext == TypeInv /\ ReportPast /\ SinceInv /\ [TimelineNext]_tvars => SinceInv'
<1> SUFFICES ASSUME TypeInv, ReportPast, SinceInv, [TimelineNext]_tvars PROVE SinceInv'
  OBVIOUS
<1> USE PppAssumption
<1>1. clock \in Nat /\ clock' \in Nat /\ clock <= clock'
  BY PollerStep, ClockAndRouter
<1>2. rows \subseteq Row /\ lastPoll \in Nat \cup {Null}
  BY DEF TypeInv, TypeOK, Time
<1>3. CASE ApplyActive /\ since' = FirstPoll /\ polls' = polls \cup Heard
  <2>1. PICK t \in Nat : t = clock + 1
    BY <1>1
  <2>2. lastPoll' = t /\ clock' = t /\ lastPoll' # lastPoll /\ lastPoll' # Null
    BY <1>1, <1>2, <1>3, <2>1 DEF ApplyActive, SinceInv
  <2>3. since' \in Nat /\ since' <= t /\ (since # Null => since' = since)
    BY <1>1, <1>2, <1>3, <2>1, <2>2 DEF SinceInv, FirstPoll
  <2>4. ASSUME NEW q \in rows' PROVE since' <= q.start
    <3>1. CASE \E r \in rows : q = SettleRow(r, clock + 1)
      <4>1. PICK r \in rows : q = SettleRow(r, t)
        BY <2>1, <3>1
      <4>2. q.start = r.start
        BY <4>1, SettleRowFacts DEF TypeInv
      <4> QED BY <2>3, <4>2 DEF SinceInv
    <3>2. CASE \E u \in Users : NeedsRow(u) /\ q = OpenRow(u, clock + 1)
      <4>1. q.start = t
        BY <2>1, <3>2 DEF OpenRow
      <4> QED BY <2>3, <4>1
    <3> QED BY <1>3, <2>4, <3>1, <3>2, RowsAfterPoll DEF TypeInv
  <2>5. ASSUME NEW e \in polls'
        PROVE  e \in [user : Users, rid : Nat, at : Nat] /\ e.rid < e.at /\ e.at <= t
    <3>1. CASE e \in polls
      BY <1>1, <1>2, <2>1, <3>1 DEF SinceInv
    <3>2. CASE e \in Heard
      <4>1. PICK u \in Users : report[u] # Absent /\ e = [user |-> u, rid |-> report[u].rid, at |-> t]
        BY <2>2, <3>2 DEF Heard
      <4>2. report[u].rid \in Nat /\ report[u].rid <= clock
        BY <4>1, EntryOf DEF TypeInv, ReportPast
      <4> QED BY <1>1, <2>1, <4>1, <4>2
    <3> QED BY <1>3, <2>5, <3>1, <3>2
  <2>6. since' \in Nat /\ since' <= lastPoll' /\ lastPoll' <= clock'
    BY <2>1, <2>2, <2>3
  <2> QED BY <2>2, <2>4, <2>5, <2>6 DEF SinceInv
<1>4. CASE /\ rows' = rows /\ lastPoll' = lastPoll
           /\ since' = since \/ (since' = FirstPoll)
           /\ polls' = polls \/ polls' = polls \cup Heard
  <2>1. polls' = polls
    BY <1>4 DEF Heard
  <2>2. since' = since
    BY <1>4 DEF FirstPoll, SinceInv
  <2>3. lastPoll # Null => lastPoll <= clock'
    BY <1>1, <1>2 DEF SinceInv
  <2> QED BY <1>4, <2>1, <2>2, <2>3 DEF SinceInv
<1>5. CASE PppStep
  BY <1>3, <1>4, <1>5 DEF PppStep, Next, Login, Logout, TimePasses, FetchActive, AbortPoll
<1>6. CASE UNCHANGED tvars \/ \E s \in router : Connect(s)
  BY <1>4, <1>6 DEF Connect, tvars, vars
<1> QED BY <1>5, <1>6 DEF TimelineNext

(* A poll gives a user at most one row.                                             *)
RowsOf(u) == {r \in rows : r.user = u}

UserRowsFinite == \A u : IsFiniteSet(RowsOf(u))

LEMMA UserRowsFiniteNext == TypeInv /\ UserRowsFinite /\ [Next]_vars => UserRowsFinite'
<1> SUFFICES ASSUME TypeInv, UserRowsFinite, [Next]_vars PROVE UserRowsFinite'
  OBVIOUS
<1>1. CASE rows' = rows
  BY <1>1 DEF UserRowsFinite, RowsOf
<1>2. CASE ApplyActive
  <2>1. SUFFICES ASSUME NEW u PROVE IsFiniteSet({q \in rows' : q.user = u})
    BY DEF UserRowsFinite, RowsOf
  <2>2. PICK t \in Nat : t = clock + 1
    BY DEF TypeInv, TypeOK, Time
  <2> DEFINE S == {SettleRow(r, t) : r \in RowsOf(u)}
             f == [r \in RowsOf(u) |-> SettleRow(r, t)]
  <2>3. f \in Surjection(RowsOf(u), S)
    BY DEF Surjection
  <2>4. IsFiniteSet(S)
    <3> HIDE DEF S, f
    <3> QED BY <2>3, FS_Surjection DEF UserRowsFinite
  <2>5. IsFiniteSet(S \cup {OpenRow(u, t)})
    BY <2>4, FS_AddElement
  <2>6. ASSUME NEW q \in rows', q.user = u PROVE q \in S \cup {OpenRow(u, t)}
    <3>1. CASE \E r \in rows : q = SettleRow(r, t)
      <4>1. PICK r \in rows : q = SettleRow(r, t)
        BY <3>1
      <4>2. r.user = u
        BY <2>6, <4>1, SettleRowFacts DEF TypeInv
      <4> QED BY <4>1, <4>2 DEF RowsOf
    <3>2. CASE \E v \in Users : NeedsRow(v) /\ q = OpenRow(v, t)
      <4>1. PICK v \in Users : q = OpenRow(v, t)
        BY <3>2
      <4>2. q.user = v
        BY <4>1 DEF OpenRow
      <4> QED BY <2>6, <4>1, <4>2
    <3> QED BY <1>2, <2>2, <2>6, <3>1, <3>2, RowsAfterPoll DEF TypeInv
  <2>7. {q \in rows' : q.user = u} \subseteq S \cup {OpenRow(u, t)}
    BY <2>6
  <2> HIDE DEF S
  <2> QED BY <2>5, <2>7, FS_Subset
<1> QED BY <1>1, <1>2 DEF Next, Login, Logout, TimePasses, FetchActive, AbortPoll, vars

-----------------------------------------------------------------------------
(* What was heard is recorded.                                                      *)

(* A session goes on, or is in the listing being applied.                           *)
Alive(u, x) ==
  \/ \E s \in router : s.user = u /\ s.login = x
  \/ report[u] # Absent /\ report[u].rid = x

(* A session that is up is the one the listing names, or no poll has heard of it.   *)
FetchedThenHeard ==
  polling => \A s \in router : Exclusive(s.user) =>
    \/ report[s.user] # Absent /\ report[s.user].rid = s.login
    \/ \A e \in polls : e.user = s.user => e.rid # s.login

(* The open row of a session, and the last poll of that row, if it heard of x.      *)
RecordsNow(r, u, x) == r.user = u /\ IsOpen(r) /\ \E f \in polls : f.user = u /\ f.rid = x /\ f.at = r.seen

(* While a session that was heard of goes on, a row is open since before, and its   *)
(* last poll heard of the same session.                                             *)
HeardIsOpen ==
  \A e \in polls : Exclusive(e.user) /\ Alive(e.user, e.rid) =>
    \E r \in rows : RecordsNow(r, e.user, e.rid) /\ r.start <= e.at /\ e.at <= r.seen

(* The uptime of a row is of the session its last poll heard of, and grows with it. *)
HeardGrows ==
  \A r \in rows, f \in polls :
    Exclusive(r.user) /\ IsOpen(r) /\ r.up # Null /\ f.user = r.user /\ f.at = r.seen =>
      /\ r.up <= clock - f.rid
      /\ report[r.user] # Absent /\ report[r.user].rid = f.rid /\ report[r.user].up # Null
           => r.up <= report[r.user].up

Covers(r, e) == r.user = e.user /\ r.start <= e.at /\ e.at <= r.seen

(* One row holds all polls that heard of one session.                               *)
HeardIsRecorded ==
  \A e, f \in polls : Exclusive(e.user) /\ e.user = f.user /\ e.rid = f.rid =>
    \E r \in rows : Covers(r, e) /\ Covers(r, f)

HeardInv == FetchedThenHeard /\ HeardIsOpen /\ HeardGrows /\ HeardIsRecorded

LEMMA HeardInvInit == TimelineInit => HeardInv
BY DEF TimelineInit, Init, HeardInv, FetchedThenHeard, HeardIsOpen, HeardGrows, HeardIsRecorded

(* Types of what the step below speaks of.                                          *)
LEMMA HeardTypes ==
  ASSUME SessionInv, SinceInv
  PROVE  /\ TypeInv /\ TypeOK /\ ReportPast /\ clock \in Nat
         /\ \A r \in rows : r \in Row /\ r.user \in Users /\ r.start \in Nat /\ r.seen \in Nat /\ r.start <= r.seen
                            /\ r.seen <= clock /\ r.up \in Nat \cup {Null}
         /\ \A e \in polls : e.user \in Users /\ e.rid \in Nat /\ e.at \in Nat /\ e.rid < e.at /\ e.at <= clock
         /\ \A s \in router : s.user \in Users /\ s.login \in Nat /\ s.login <= clock
         /\ \A u \in Users : report[u] # Absent =>
              /\ polling /\ report[u].rid \in Nat /\ report[u].rid <= clock /\ report[u].up \in Nat \cup {Null}
              /\ report[u].up # Null => report[u].up <= clock - report[u].rid
<1>1. TypeInv /\ TypeOK /\ ReportPast /\ clock \in Nat /\ RouterPast /\ HistoryInv
  BY DEF SessionInv, HistoryInv, TypeInv, TypeOK, Time
<1>2. \A r \in rows : r \in Row /\ r.user \in Users /\ r.start \in Nat /\ r.seen \in Nat /\ r.start <= r.seen
                      /\ r.seen <= clock /\ r.up \in Nat \cup {Null}
  BY <1>1 DEF HistoryInv, StopIsLastConfirmed, TypeOK, Row, Time
<1>3. \A e \in polls : e.user \in Users /\ e.rid \in Nat /\ e.at \in Nat /\ e.rid < e.at /\ e.at <= clock
  <2>1. SUFFICES ASSUME NEW e \in polls
                 PROVE  e.user \in Users /\ e.rid \in Nat /\ e.at \in Nat /\ e.rid < e.at /\ e.at <= clock
    OBVIOUS
  <2>2. e \in [user : Users, rid : Nat, at : Nat] /\ e.rid < e.at /\ e.at <= lastPoll /\ lastPoll <= clock
    BY DEF SinceInv
  <2>3. lastPoll \in Nat
    BY <1>1 DEF SinceInv, TypeOK, Time
  <2> QED BY <1>1, <2>2, <2>3
<1>4. \A s \in router : s.user \in Users /\ s.login \in Nat /\ s.login <= clock
  BY <1>1 DEF TypeOK, RouterPast, Session, Time
<1>5. \A u \in Users : report[u] # Absent =>
        /\ polling /\ report[u].rid \in Nat /\ report[u].rid <= clock /\ report[u].up \in Nat \cup {Null}
        /\ report[u].up # Null => report[u].up <= clock - report[u].rid
  BY <1>1, EntryOf DEF ReportPast
<1> QED BY <1>1, <1>2, <1>3, <1>4, <1>5

(* A step that records nothing, and after which no session is up or listed that was *)
(* heard of and was not so before.                                                  *)
LEMMA HeardInvKept ==
  ASSUME SessionInv, SinceInv, HeardInv, rows' = rows, polls' = polls, clock' \in Nat, clock <= clock',
         FetchedThenHeard',
         \A e \in polls : Exclusive(e.user) /\ Alive(e.user, e.rid)' => Alive(e.user, e.rid),
         \A u \in Users : report'[u] = Absent \/ report'[u] = report[u]
                          \/ (report'[u].up # Null => report'[u].up = clock - report'[u].rid)
  PROVE  HeardInv'
<1>1. HeardIsOpen'
  <2>1. SUFFICES ASSUME NEW e \in polls, Exclusive(e.user), Alive(e.user, e.rid)'
                 PROVE  \E r \in rows : RecordsNow(r, e.user, e.rid) /\ r.start <= e.at /\ e.at <= r.seen
    BY DEF HeardIsOpen, RecordsNow
  <2> QED BY <2>1 DEF HeardInv, HeardIsOpen
<1>2. HeardGrows'
  <2>1. SUFFICES ASSUME NEW r \in rows, NEW f \in polls,
                        Exclusive(r.user), IsOpen(r), r.up # Null, f.user = r.user, f.at = r.seen
                 PROVE  /\ r.up <= clock' - f.rid
                        /\ report'[r.user] # Absent /\ report'[r.user].rid = f.rid /\ report'[r.user].up # Null
                             => r.up <= report'[r.user].up
    BY DEF HeardGrows
  <2>2. /\ r.up <= clock - f.rid
        /\ report[r.user] # Absent /\ report[r.user].rid = f.rid /\ report[r.user].up # Null => r.up <= report[r.user].up
    BY <2>1 DEF HeardInv, HeardGrows
  <2>3. r.user \in Users /\ r.up \in Nat /\ f.rid \in Nat /\ clock \in Nat
    BY <2>1, HeardTypes
  <2>4. r.up <= clock' - f.rid
    BY <2>2, <2>3
  <2>5. \/ report'[r.user] = Absent \/ report'[r.user] = report[r.user]
        \/ (report'[r.user].up # Null => report'[r.user].up = clock - report'[r.user].rid)
    BY <2>3
  <2>6. ASSUME report'[r.user] # Absent, report'[r.user].rid = f.rid, report'[r.user].up # Null
        PROVE  r.up <= report'[r.user].up
    BY <2>2, <2>5, <2>6
  <2> QED BY <2>4, <2>6
<1>3. HeardIsRecorded'
  BY DEF HeardInv, HeardIsRecorded, Covers
<1> QED BY <1>1, <1>2, <1>3 DEF HeardInv

(* A poll.                                                                          *)
LEMMA HeardInvApply ==
  ASSUME SessionInv, SinceInv, HeardInv, ApplyActive, polls' = polls \cup Heard
  PROVE  HeardInv'
<1>1. PICK t \in Nat : t = clock + 1
  BY HeardTypes
<1>2. /\ router' = router /\ clock' = t /\ lastPoll' = t /\ ~polling' /\ polling
      /\ \A u \in Users : report'[u] = Absent
      /\ t = clock + 1 /\ clock \in Nat
  BY <1>1, HeardTypes DEF ApplyActive, NoReport
<1>3. /\ \A r \in rows : r \in Row /\ r.user \in Users /\ r.start \in Nat /\ r.seen \in Nat /\ r.start <= r.seen
                         /\ r.seen <= t /\ r.seen # t /\ r.up \in Nat \cup {Null}
      /\ \A e \in polls : e.user \in Users /\ e.rid \in Nat /\ e.at \in Nat /\ e.rid < e.at /\ e.at <= t /\ e.at # t
      /\ \A r \in rows : r.start # t
  <2>1. \A r \in rows : r \in Row /\ r.user \in Users /\ r.start \in Nat /\ r.seen \in Nat /\ r.start <= r.seen
                            /\ r.seen <= clock /\ r.up \in Nat \cup {Null}
    BY HeardTypes
  <2>2. \A e \in polls : e.user \in Users /\ e.rid \in Nat /\ e.at \in Nat /\ e.rid < e.at /\ e.at <= clock
    BY HeardTypes
  <2> QED BY <1>2, <2>1, <2>2
<1>4. polls' = polls \cup {[user |-> u, rid |-> report[u].rid, at |-> t] : u \in {x \in Users : report[x] # Absent}}
  <2>1. lastPoll' # lastPoll
    <3>1. lastPoll # Null => lastPoll <= clock /\ lastPoll \in Nat
      BY HeardTypes DEF SinceInv, TypeOK, Time
    <3> QED BY <1>2, <3>1, PppAssumption
  <2> QED BY <1>2, <2>1 DEF Heard
(* What becomes of the rows.                                                        *)
<1>5. ASSUME NEW r \in rows
      PROVE  \E q \in rows' : /\ q.user = r.user /\ q.start = r.start /\ r.seen <= q.seen
                              /\ IsOpen(r) /\ ~Vanished(r) /\ ~Reconnected(r) => IsOpen(q) /\ q.seen = t
  <2>1. SettleRow(r, t) \in rows'
    BY <1>1 DEF ApplyActive
  <2>2. PICK q : q = SettleRow(r, t)
    OBVIOUS
  <2>3. /\ q.user = r.user /\ q.start = r.start
        /\ \/ ~IsOpen(r) /\ q = r
           \/ IsOpen(r) /\ (Vanished(r) \/ Reconnected(r)) /\ q.seen = r.seen
           \/ IsOpen(r) /\ ~Vanished(r) /\ ~Reconnected(r) /\ IsOpen(q) /\ q.seen = t
    BY <2>2, SettleRowFacts, HeardTypes
  <2>4. r.seen \in Nat /\ r.seen <= t
    BY <1>3
  <2>5. r.seen <= q.seen
    BY <2>3, <2>4
  <2> QED BY <2>1, <2>2, <2>3, <2>5
<1>6. ASSUME NEW q \in rows', IsOpen(q)
      PROVE  /\ q.user \in Users /\ report[q.user] # Absent /\ q.seen = t /\ q.up = report[q.user].up
  <2>1. CASE \E r \in rows : q = SettleRow(r, t)
    <3>1. PICK r \in rows : q = SettleRow(r, t)
      BY <2>1
    <3>2. q.user = r.user /\ ~Vanished(r) /\ q.seen = t /\ q.up = report[r.user].up
      BY <1>6, <3>1, SettleRowFacts, HeardTypes
    <3> QED BY <1>3, <3>2 DEF Vanished
  <2>2. CASE \E u \in Users : NeedsRow(u) /\ q = OpenRow(u, t)
    <3>1. PICK u \in Users : NeedsRow(u) /\ q = OpenRow(u, t)
      BY <2>2
    <3> QED BY <3>1, OpenRowFacts, HeardTypes DEF NeedsRow
  <2> QED BY <1>1, <2>1, <2>2, RowsAfterPoll, HeardTypes
<1>7. ASSUME NEW u \in Users, report[u] # Absent
      PROVE  \E q \in rows' : q.user = u /\ IsOpen(q) /\ q.start <= t /\ q.seen = t
  <2>1. CASE NeedsRow(u)
    <3>1. OpenRow(u, t) \in rows'
      BY <1>1, <1>3, <2>1 DEF ApplyActive
    <3>2. PICK q : q = OpenRow(u, t)
      OBVIOUS
    <3>3. q.user = u /\ IsOpen(q) /\ q.start = t /\ q.seen = t
      BY <1>7, <3>2, OpenRowFacts, HeardTypes
    <3>4. q.start <= t
      BY <3>3
    <3> QED BY <3>1, <3>2, <3>3, <3>4
  <2>2. CASE ~NeedsRow(u)
    <3>1. PICK r \in rows : r.user = u /\ IsOpen(r) /\ ~Reconnected(r)
      BY <1>7, <2>2 DEF NeedsRow
    <3>2. ~Vanished(r)
      BY <1>7, <3>1 DEF Vanished
    <3>3. PICK q \in rows' : q.user = r.user /\ q.start = r.start /\ IsOpen(q) /\ q.seen = t
      BY <1>5, <3>1, <3>2
    <3>4. r.start \in Nat /\ r.seen \in Nat /\ r.start <= r.seen /\ r.seen <= t
      BY <1>3
    <3> QED BY <3>1, <3>3, <3>4
  <2> QED BY <2>1, <2>2
(* The row open since before is not closed while the session it records goes on.    *)
<1>8. ASSUME NEW e \in polls, Exclusive(e.user), report[e.user] # Absent, report[e.user].rid = e.rid
      PROVE  \E q \in rows' : q.user = e.user /\ IsOpen(q) /\ q.seen = t /\ q.start <= e.at /\ e.at <= t
  <2>1. Alive(e.user, e.rid)
    BY <1>8 DEF Alive
  <2>2. PICK r \in rows : RecordsNow(r, e.user, e.rid) /\ r.start <= e.at /\ e.at <= r.seen
    BY <1>8, <2>1 DEF HeardInv, HeardIsOpen
  <2>3. PICK f \in polls : f.user = e.user /\ f.rid = e.rid /\ f.at = r.seen
    BY <2>2 DEF RecordsNow
  <2>4. r.user = e.user /\ IsOpen(r) /\ ~Vanished(r)
    BY <1>8, <2>2 DEF RecordsNow, Vanished
  <2>5. ~Reconnected(r)
    <3>1. SUFFICES ASSUME r.up # Null, report[r.user].up # Null, report[r.user].up + Slack < r.up PROVE FALSE
      BY DEF Reconnected
    <3>2. r.up <= report[r.user].up
      BY <1>8, <2>3, <2>4, <3>1 DEF HeardInv, HeardGrows
    <3>3. r.up \in Nat /\ report[r.user].up \in Nat
      BY <1>3, <1>8, <2>4, <3>1, HeardTypes
    <3> QED BY <3>1, <3>2, <3>3, PppAssumption
  <2>6. PICK q \in rows' : q.user = r.user /\ q.start = r.start /\ IsOpen(q) /\ q.seen = t
    BY <1>5, <2>4, <2>5
  <2>7. e.at <= t
    BY <1>3
  <2> QED BY <2>2, <2>4, <2>6, <2>7
<1>9. FetchedThenHeard'
  BY <1>2 DEF FetchedThenHeard
<1>10. \A e \in polls' : \/ e \in polls
                         \/ /\ e.user \in Users /\ report[e.user] # Absent /\ e.rid = report[e.user].rid /\ e.at = t
  BY <1>4
<1>11. HeardIsOpen'
  <2> SUFFICES ASSUME NEW e \in polls', Exclusive(e.user), Alive(e.user, e.rid)'
               PROVE  \E q \in rows' : RecordsNow(q, e.user, e.rid)' /\ q.start <= e.at /\ e.at <= q.seen
    BY DEF HeardIsOpen
  <2>1. e.user \in Users
    BY <1>3, <1>10
  <2>2. PICK s \in router : s.user = e.user /\ s.login = e.rid
    BY <1>2, <2>1 DEF Alive
  <2>3. report[e.user] # Absent /\ report[e.user].rid = e.rid
    <3>1. CASE e \in polls
      BY <1>2, <2>2, <3>1 DEF HeardInv, FetchedThenHeard
    <3> QED BY <1>10, <3>1
  <2>4. PICK u, x : u = e.user /\ x = e.rid
    OBVIOUS
  <2>5. [user |-> u, rid |-> x, at |-> t] \in polls'
    BY <1>4, <2>1, <2>3, <2>4
  <2>6. \A q \in rows' : q.user = u /\ IsOpen(q) /\ q.seen = t => RecordsNow(q, u, x)'
    BY <2>5 DEF RecordsNow
  <2>7. \E q \in rows' : q.user = u /\ IsOpen(q) /\ q.seen = t /\ q.start <= e.at /\ e.at <= t
    <3>1. CASE e \in polls
      BY <1>8, <2>3, <2>4, <3>1
    <3>2. CASE e.at = t
      BY <1>7, <2>1, <2>3, <2>4, <3>2
    <3> QED BY <1>10, <3>1, <3>2
  <2> QED BY <2>4, <2>6, <2>7
<1>12. HeardGrows'
  <2> SUFFICES ASSUME NEW q \in rows', NEW f \in polls', IsOpen(q), q.up # Null, f.user = q.user, f.at = q.seen
               PROVE  q.up <= t - f.rid
    <3>1. \A q \in rows' : IsOpen(q) => report'[q.user] = Absent
      BY <1>2, <1>6
    <3> QED BY <1>2, <3>1 DEF HeardGrows
  <2>1. q.user \in Users /\ report[q.user] # Absent /\ q.seen = t /\ q.up = report[q.user].up
    BY <1>6
  <2>2. f.rid = report[q.user].rid
    <3>1. f \notin polls
      BY <1>3, <2>1
    <3> QED BY <1>10, <3>1
  <2>3. report[q.user].up \in Nat /\ report[q.user].rid \in Nat /\ report[q.user].up <= clock - report[q.user].rid
    BY <2>1, HeardTypes
  <2> QED BY <1>2, <2>1, <2>2, <2>3
<1>13. HeardIsRecorded'
  <2> SUFFICES ASSUME NEW e \in polls', NEW f \in polls', Exclusive(e.user), e.user = f.user, e.rid = f.rid
               PROVE  \E q \in rows' : Covers(q, e) /\ Covers(q, f)
    BY DEF HeardIsRecorded, Covers
  <2>1. CASE e \in polls /\ f \in polls
    <3>1. PICK r \in rows : Covers(r, e) /\ Covers(r, f)
      BY <2>1 DEF HeardInv, HeardIsRecorded
    <3>2. PICK q \in rows' : q.user = r.user /\ q.start = r.start /\ r.seen <= q.seen
      BY <1>5
    <3>3. q.seen \in Nat
      BY <1>2, <3>2, TypeInvNext, HeardTypes DEF TypeInv, TypeOK, Row, Time, Next
    <3>4. r.seen \in Nat /\ e.at \in Nat /\ f.at \in Nat
      BY <1>3, <2>1
    <3> QED BY <3>1, <3>2, <3>3, <3>4 DEF Covers
  <2>2. ASSUME e \in polls, f \notin polls PROVE \E q \in rows' : Covers(q, e) /\ Covers(q, f)
    <3>1. f.at = t /\ report[e.user] # Absent /\ report[e.user].rid = e.rid
      BY <1>10, <2>2
    <3>2. PICK q \in rows' : q.user = e.user /\ q.seen = t /\ q.start <= e.at /\ e.at <= t
      BY <1>8, <2>2, <3>1
    <3>3. q.start <= t
      BY <1>2, <3>2, TypeInvNext, HeardTypes, <1>3, <2>2 DEF TypeInv, TypeOK, Row, Time, Next
    <3> QED BY <3>1, <3>2, <3>3 DEF Covers
  <2>3. ASSUME f \in polls, e \notin polls PROVE \E q \in rows' : Covers(q, e) /\ Covers(q, f)
    <3>1. e.at = t /\ report[f.user] # Absent /\ report[f.user].rid = f.rid
      BY <1>10, <2>3
    <3>2. PICK q \in rows' : q.user = f.user /\ q.seen = t /\ q.start <= f.at /\ f.at <= t
      BY <1>8, <2>3, <3>1
    <3>3. q.start <= t
      BY <1>2, <3>2, TypeInvNext, HeardTypes, <1>3, <2>3 DEF TypeInv, TypeOK, Row, Time, Next
    <3> QED BY <3>1, <3>2, <3>3 DEF Covers
  <2>4. CASE e \notin polls /\ f \notin polls
    <3>1. e.at = t /\ f.at = t /\ e.user \in Users /\ report[e.user] # Absent
      BY <1>10, <2>4
    <3>2. PICK q \in rows' : q.user = e.user /\ q.start <= t /\ q.seen = t
      BY <1>7, <3>1
    <3> QED BY <1>2, <3>1, <3>2 DEF Covers
  <2> QED BY <2>1, <2>2, <2>3, <2>4
<1> QED BY <1>9, <1>11, <1>12, <1>13 DEF HeardInv

LEMMA HeardInvNext == SessionInv /\ SinceInv /\ HeardInv /\ [TimelineNext]_tvars => HeardInv'
<1> SUFFICES ASSUME SessionInv, SinceInv, HeardInv, [TimelineNext]_tvars PROVE HeardInv'
  OBVIOUS
<1>1. clock \in Nat /\ clock' \in Nat /\ clock <= clock'
  BY PollerStep, ClockAndRouter, HeardTypes
<1>2. /\ \A s \in router : s.user \in Users /\ s.login \in Nat /\ s.login # clock + 1
      /\ \A e \in polls : e.user \in Users /\ e.rid # clock + 1
      /\ \A u \in Users : report[u] # Absent => polling /\ report[u].rid # clock + 1
  <2>1. /\ \A s \in router : s.user \in Users /\ s.login \in Nat /\ s.login <= clock
        /\ \A e \in polls : e.user \in Users /\ e.rid \in Nat /\ e.at \in Nat /\ e.rid < e.at /\ e.at <= clock
        /\ \A u \in Users : report[u] # Absent => polling /\ report[u].rid \in Nat /\ report[u].rid <= clock
    BY HeardTypes
  <2> QED BY <1>1, <2>1
(* Whatever records nothing.                                                        *)
<1>3. ASSUME rows' = rows, lastPoll' = lastPoll, polls' = polls \/ polls' = polls \cup Heard PROVE polls' = polls
  BY <1>3 DEF Heard
<1>4. CASE /\ rows' = rows /\ polls' = polls /\ report' = report /\ polling' = polling
           /\ \/ router' \subseteq router
              \/ \E u \in Users : router' = router \cup {[user |-> u, login |-> clock + 1]}
  <2>1. \A s \in router' : s \in router \/ s.login = clock + 1
    BY <1>4
  <2>2. FetchedThenHeard'
    <3>1. SUFFICES ASSUME polling, NEW s \in router', Exclusive(s.user)
                   PROVE  \/ report[s.user] # Absent /\ report[s.user].rid = s.login
                          \/ \A e \in polls : e.user = s.user => e.rid # s.login
      BY <1>4 DEF FetchedThenHeard
    <3> QED BY <1>2, <2>1, <3>1 DEF HeardInv, FetchedThenHeard
  <2>3. ASSUME NEW e \in polls, Alive(e.user, e.rid)' PROVE Alive(e.user, e.rid)
    <3>1. \/ \E s \in router' : s.user = e.user /\ s.login = e.rid
          \/ report[e.user] # Absent /\ report[e.user].rid = e.rid
      BY <1>4, <2>3 DEF Alive
    <3> QED BY <1>2, <2>1, <3>1 DEF Alive
  <2> QED BY <1>1, <1>4, <2>2, <2>3, HeardInvKept
<1>5. CASE FetchActive /\ polls' = polls
  <2>1. PICK entry \in [Users -> router \cup {Absent}], readable \in SUBSET Users :
          /\ \A u \in Users : IF SessionsOf(u) = {} THEN entry[u] = Absent ELSE entry[u] \in SessionsOf(u)
          /\ report' = [u \in Users |->
                         IF entry[u] = Absent THEN Absent
                         ELSE [rid |-> entry[u].login, up |-> Uptime(entry[u], u \in readable)]]
    BY <1>5 DEF FetchActive
  <2>2. ~polling /\ rows' = rows /\ router' = router /\ clock' = clock
    BY <1>5 DEF FetchActive
  <2>3. \A s \in router : s # Absent
    BY HeardTypes, PppAssumption DEF TypeOK, Session, Time
  <2>4. ASSUME NEW u \in Users
        PROVE  \/ report'[u] = Absent /\ SessionsOf(u) = {}
               \/ /\ entry[u] \in router /\ entry[u].user = u
                  /\ report'[u].rid = entry[u].login /\ report'[u].up = Uptime(entry[u], u \in readable)
    BY <2>1, <2>3 DEF SessionsOf
  <2>5. FetchedThenHeard'
    <3>1. SUFFICES ASSUME NEW s \in router, Exclusive(s.user)
                   PROVE  report'[s.user] # Absent /\ report'[s.user].rid = s.login
      BY <2>2 DEF FetchedThenHeard
    <3>2. s.user \in Users /\ s \in SessionsOf(s.user)
      BY <1>2 DEF SessionsOf
    <3>3. entry[s.user] \in router /\ entry[s.user].user = s.user
      BY <2>4, <3>2
    <3>4. entry[s.user] = s
      BY <3>1, <3>3 DEF SessionInv, OneSession
    <3>5. report'[s.user] = [rid |-> s.login, up |-> Uptime(s, s.user \in readable)]
      BY <2>1, <2>3, <3>2, <3>4
    <3>6. report'[s.user] # Absent
      <4>1. Uptime(s, s.user \in readable) \in Nat \cup {Null} /\ s.login \in Nat
        BY <1>1, <1>2, HeardTypes DEF Uptime
      <4> QED BY <3>5, <4>1, PppAssumption
    <3> QED BY <3>5, <3>6
  <2>6. ASSUME NEW e \in polls, Alive(e.user, e.rid)' PROVE Alive(e.user, e.rid)
    <3>1. \/ \E s \in router : s.user = e.user /\ s.login = e.rid
          \/ report'[e.user] # Absent /\ report'[e.user].rid = e.rid
      BY <2>2, <2>6 DEF Alive
    <3>2. ASSUME report'[e.user] # Absent, report'[e.user].rid = e.rid
          PROVE  \E s \in router : s.user = e.user /\ s.login = e.rid
      <4>1. e.user \in Users
        BY <1>2
      <4> QED BY <2>4, <3>2, <4>1
    <3> QED BY <3>1, <3>2 DEF Alive
  <2>7. ASSUME NEW u \in Users
        PROVE  report'[u] = Absent \/ (report'[u].up # Null => report'[u].up = clock - report'[u].rid)
    BY <2>4 DEF Uptime
  <2> QED BY <1>1, <1>5, <2>2, <2>5, <2>6, <2>7, HeardInvKept
<1>6. CASE AbortPoll /\ polls' = polls
  <2>1. rows' = rows /\ router' = router /\ clock' = clock /\ ~polling' /\ report' = NoReport
    BY <1>6 DEF AbortPoll
  <2>2. FetchedThenHeard'
    BY <2>1 DEF FetchedThenHeard
  <2>3. \A u \in Users : report'[u] = Absent
    BY <2>1 DEF NoReport
  <2>4. \A e \in polls : Alive(e.user, e.rid)' => Alive(e.user, e.rid)
    BY <1>2, <2>1, <2>3 DEF Alive
  <2> QED BY <1>1, <1>6, <2>1, <2>2, <2>3, <2>4, HeardInvKept
<1>7. CASE PppStep
  <2>1. CASE ApplyActive
    BY <1>7, <2>1, HeardInvApply DEF PppStep
  <2>2. CASE FetchActive
    BY <1>3, <1>5, <1>7, <2>2 DEF PppStep, FetchActive
  <2>3. CASE AbortPoll
    BY <1>3, <1>6, <1>7, <2>3 DEF PppStep, AbortPoll
  <2>4. CASE (\E u \in Users : Login(u)) \/ (\E s \in router : Logout(s)) \/ TimePasses
    BY <1>3, <1>4, <1>7, <2>4 DEF PppStep, Login, Logout, TimePasses
  <2> QED BY <1>7, <2>1, <2>2, <2>3, <2>4 DEF PppStep, Next
<1>8. CASE UNCHANGED tvars \/ \E s \in router : Connect(s)
  BY <1>4, <1>8 DEF Connect, tvars, vars
<1> QED BY <1>7, <1>8 DEF TimelineNext

(* What holds of the timeline's state at every moment.                              *)
TimelineInv == SessionInv /\ ConnsInv /\ SinceInv /\ UserRowsFinite /\ HeardInv

LEMMA TimelineInvariance == TimelineSpec => []TimelineInv
<1>1. SessionInv => TypeInv /\ ReportPast
  BY DEF SessionInv, HistoryInv
<1>2. TimelineInit => UserRowsFinite
  BY FS_EmptySet DEF TimelineInit, Init, UserRowsFinite, RowsOf
<1> QED BY <1>1, <1>2, PollerStep, SessionInvAlways, ConnsInvInit, ConnsInvNext, SinceInvInit, SinceInvNext,
           UserRowsFiniteNext, HeardInvInit, HeardInvNext, PTL DEF TimelineSpec, TimelineInv

-----------------------------------------------------------------------------
(* Connections in the order of time.                                                *)

(* Connections that ORDER BY can tell apart.                                        *)
Sortable(S) == IsFiniteSet(S) /\ S \subseteq Connection /\ \A c, d \in S : c.login = d.login => c.user = d.user

LEMMA SoonerOrders ==
  ASSUME NEW S, Sortable(S)
  PROVE  /\ \A c \in S : ~Sooner(c, c)
         /\ \A c, d, e \in S : Sooner(c, d) /\ Sooner(d, e) => Sooner(c, e)
         /\ \A c, d \in S : c # d => Sooner(c, d) \/ Sooner(d, c)
<1>1. \A c \in S : c \in Connection /\ c.at \in Nat /\ c.login \in Nat /\ c.nth \in Nat
  BY DEF Sortable, Connection
<1>2. ASSUME NEW c \in S, NEW d \in S, c # d PROVE Sooner(c, d) \/ Sooner(d, c)
  <2>1. c.user = d.user /\ c.login = d.login /\ c.at = d.at /\ c.nth = d.nth => c = d
    BY <1>1 DEF Connection
  <2>2. c.login = d.login => c.user = d.user
    BY DEF Sortable
  <2> QED BY <1>1, <1>2, <2>1, <2>2 DEF Sooner
<1>3. \A c \in S : ~Sooner(c, c)
  BY <1>1 DEF Sooner
<1>4. \A c, d, e \in S : Sooner(c, d) /\ Sooner(d, e) => Sooner(c, e)
  BY <1>1 DEF Sooner
<1> QED BY <1>2, <1>3, <1>4

(* The place of a connection is one more than how many are sooner.                  *)
Place(S) == [c \in S |-> Cardinality({d \in S : Sooner(d, c)}) + 1]

LEMMA PlaceIsItsOwn ==
  ASSUME NEW S, Sortable(S)
  PROVE  /\ Place(S) \in Bijection(S, 1..Cardinality(S))
         /\ \A c, d \in S : Place(S)[c] < Place(S)[d] => Sooner(c, d)
<1> DEFINE f == Place(S)
           n == Cardinality(S)
           Before(c) == {d \in S : Sooner(d, c)}
<1>1. n \in Nat
  BY FS_CardinalityType DEF Sortable
<1>2. ASSUME NEW c \in S
      PROVE  /\ IsFiniteSet(Before(c)) /\ Cardinality(Before(c)) \in Nat /\ f[c] = Cardinality(Before(c)) + 1
             /\ Cardinality(Before(c)) < n
  <2>1. Before(c) \in SUBSET S /\ c \notin Before(c)
    BY SoonerOrders
  <2> HIDE DEF Before
  <2>2. IsFiniteSet(Before(c)) /\ Cardinality(Before(c)) <= n /\ Cardinality(Before(c)) # n
    BY <2>1, FS_Subset DEF Sortable
  <2>3. Cardinality(Before(c)) \in Nat
    BY <2>2, FS_CardinalityType
  <2>4. f[c] = Cardinality(Before(c)) + 1
    BY DEF Place, Before
  <2> QED BY <1>1, <2>2, <2>3, <2>4
<1>3. ASSUME NEW c \in S, NEW d \in S, Sooner(c, d) PROVE f[c] < f[d]
  <2>1. Before(c) \in SUBSET Before(d) /\ c \in Before(d) /\ c \notin Before(c)
    BY <1>3, SoonerOrders
  <2> HIDE DEF Before, f
  <2>2. Cardinality(Before(c)) <= Cardinality(Before(d)) /\ Cardinality(Before(c)) # Cardinality(Before(d))
    BY <1>2, <2>1, FS_Subset
  <2> QED BY <1>2, <2>2
<1>4. f \in [S -> 1..n]
  <2>1. \A c \in S : f[c] \in 1..n
    <3> HIDE DEF f, Before, n
    <3> QED BY <1>1, <1>2
  <2> QED BY <2>1 DEF Place
<1> HIDE DEF f, n, Before
<1>5. \A c, d \in S : c # d => f[c] # f[d]
  BY <1>1, <1>3, <1>4, SoonerOrders
<1>6. f \in Injection(S, 1..n)
  BY <1>4, <1>5 DEF Injection, IsInjective
<1>7. IsFiniteSet(1..n) /\ Cardinality(1..n) = n
  BY <1>1, FS_Interval
<1>8. f \in Surjection(S, 1..n)
  BY <1>6, <1>7, FS_Injection DEF n
<1>9. \A c, d \in S : f[c] < f[d] => Sooner(c, d)
  BY <1>1, <1>3, <1>4, SoonerOrders
<1> QED BY <1>6, <1>8, <1>9 DEF f, n, Bijection

(* Distinct connections, none after a later one.                                    *)
InTime(o) == \A i, j \in 1..Len(o) : i < j => o[i].at <= o[j].at /\ o[i] # o[j]

LEMMA SortedByTime ==
  ASSUME NEW S, Sortable(S)
  PROVE  /\ ByTime(S) \in Seq(S) /\ Len(ByTime(S)) = Cardinality(S)
         /\ InTime(ByTime(S))
         /\ \A c \in S : \E i \in 1..Cardinality(S) : ByTime(S)[i] = c
<1> DEFINE n == Cardinality(S)
           f == Place(S)
           Sorts(q) == \A i, j \in 1..n : i < j => Sooner(q[i], q[j])
           p == [i \in 1..n |-> CHOOSE c \in S : f[c] = i]
<1>1. n \in Nat
  BY FS_CardinalityType DEF Sortable
<1>2. \A i \in 1..n : \E c \in S : f[c] = i
  BY PlaceIsItsOwn DEF Bijection, Surjection
<1>3. ASSUME NEW i \in 1..n PROVE p[i] \in S /\ f[p[i]] = i
  BY <1>2
<1>4. p \in [1..n -> S]
  BY <1>3
<1>5. Sorts(p)
  <2> SUFFICES ASSUME NEW i \in 1..n, NEW j \in 1..n, i < j PROVE Sooner(p[i], p[j])
    OBVIOUS
  <2> HIDE DEF p, f
  <2> QED BY <1>3, PlaceIsItsOwn DEF f
<1>6. ByTime(S) \in [1..n -> S] /\ Sorts(ByTime(S))
  <2>1. ByTime(S) = CHOOSE q \in [1..n -> S] : Sorts(q)
    BY DEF ByTime
  <2> HIDE DEF p, Sorts, n
  <2> QED BY <1>4, <1>5, <2>1
<1>7. PICK q : q = ByTime(S)
  OBVIOUS
<1>8. \A c \in S : c.at \in Nat
  BY DEF Sortable, Connection
<1> HIDE DEF n, f, p
<1>9. \A i, j \in 1..n : i < j => q[i].at <= q[j].at /\ q[i] # q[j]
  <2> SUFFICES ASSUME NEW i \in 1..n, NEW j \in 1..n, i < j PROVE q[i].at <= q[j].at /\ q[i] # q[j]
    OBVIOUS
  <2>1. q[i] \in S /\ q[j] \in S /\ Sooner(q[i], q[j])
    BY <1>6, <1>7
  <2>2. q[i] # q[j]
    BY <2>1, SoonerOrders
  <2> QED BY <1>8, <2>1, <2>2 DEF Sooner
<1>10. q \in Seq(S) /\ Len(q) = n
  BY <1>1, <1>6, <1>7
<1>11. q \in Injection(1..n, S)
  <2>1. \A i, j \in 1..n : i # j => q[i] # q[j]
    BY <1>1, <1>9
  <2> QED BY <1>6, <1>7, <2>1 DEF Injection, IsInjective
<1>12. IsFiniteSet(1..n) /\ Cardinality(1..n) = n
  BY <1>1, FS_Interval
<1>13. q \in Surjection(1..n, S)
  BY <1>11, <1>12, FS_Injection DEF Sortable, n
<1> QED BY <1>7, <1>9, <1>10, <1>13 DEF n, InTime, Surjection

(* ORDER BY log_time LIMIT k.                                                       *)
LEMMA OldestOf ==
  ASSUME NEW S, Sortable(S), NEW k \in Nat \ {0}
  PROVE  /\ Oldest(S, k) \in Seq(S) /\ InTime(Oldest(S, k)) /\ Len(Oldest(S, k)) <= Cardinality(S)
         /\ Cardinality(S) <= k => \A c \in S : \E i \in 1..Len(Oldest(S, k)) : Oldest(S, k)[i] = c
<1>1. PICK q : q = ByTime(S)
  OBVIOUS
<1>2. /\ q \in Seq(S) /\ Len(q) = Cardinality(S) /\ InTime(q)
      /\ \A c \in S : \E i \in 1..Cardinality(S) : q[i] = c
  BY <1>1, SortedByTime
<1>3. PICK m : m = IF k < Len(q) THEN k ELSE Len(q)
  OBVIOUS
<1>4. Len(q) \in Nat /\ m \in 0..Len(q) /\ (Len(q) <= k => m = Len(q))
  BY <1>2, <1>3, LenProperties
<1>5. PICK o : o = SubSeq(q, 1, m)
  OBVIOUS
<1>6. Oldest(S, k) = o
  BY <1>1, <1>3, <1>5 DEF Oldest
<1>7. o \in Seq(S) /\ Len(o) = m /\ \A i \in 1..m : o[i] = q[i] /\ i \in 1..Len(q)
  BY <1>2, <1>4, <1>5, SubSeqProperties
<1>8. InTime(o)
  BY <1>2, <1>7 DEF InTime
<1> QED BY <1>2, <1>4, <1>6, <1>7, <1>8

-----------------------------------------------------------------------------
(* Windows.                                                                         *)

(* What the windows are of.                                                         *)
WindowOf(S) == [start : Nat, last : Nat, count : Nat, conns : Seq(S)]

(* A row goes into the last window, or into a new one after it.                     *)
Taken(ws, c, new) ==
  \/ /\ Len(ws) > 0 /\ Continues(ws[Len(ws)], c)
     /\ Len(new) = Len(ws)
     /\ new[Len(ws)] = ExtendWindow(ws[Len(ws)], c)
     /\ \A j \in 1..(Len(ws) - 1) : new[j] = ws[j]
  \/ /\ Len(ws) > 0 => ~Continues(ws[Len(ws)], c)
     /\ Len(new) = Len(ws) + 1
     /\ new[Len(ws) + 1] = NewWindow(c)
     /\ \A j \in 1..Len(ws) : new[j] = ws[j]

LEMMA RowIsTaken ==
  ASSUME NEW S, NEW ws \in Seq(WindowOf(S)), NEW c \in S, c.at \in Nat
  PROVE  TakeRow(ws, c) \in Seq(WindowOf(S)) /\ Taken(ws, c, TakeRow(ws, c))
<1>0. PICK m : m = Len(ws)
  OBVIOUS
<1>1. m \in Nat /\ (ws # <<>> <=> m > 0) /\ \A j \in 1..m : ws[j] \in WindowOf(S)
  BY <1>0, LenProperties, EmptySeq, ElementOfSeq
<1>2. NewWindow(c) \in WindowOf(S)
  BY DEF NewWindow, WindowOf
<1>3. CASE ws # <<>> /\ Continues(Last(ws), c)
  <2>1. Last(ws) = ws[m] /\ m \in 1..m /\ ws[m] \in WindowOf(S)
    BY <1>0, <1>1, <1>3 DEF Last
  <2>2. PICK w : w = ws[m]
    OBVIOUS
  <2>3. ExtendWindow(w, c) \in WindowOf(S)
    <3>1. w \in WindowOf(S) /\ w.count + 1 \in Nat /\ w.conns \in Seq(S)
      BY <2>1, <2>2 DEF WindowOf
    <3>2. PICK x : x = IF Len(w.conns) < ConnsShown THEN Append(w.conns, c) ELSE w.conns
      OBVIOUS
    <3>3. x \in Seq(S)
      BY <3>1, <3>2, AppendProperties
    <3>4. ExtendWindow(w, c) = [w EXCEPT !.last = c.at, !.count = w.count + 1, !.conns = x]
      BY <3>2 DEF ExtendWindow
    <3> QED BY <3>1, <3>3, <3>4 DEF WindowOf
  <2>4. PICK f : f = Front(ws)
    OBVIOUS
  <2>5. f \in Seq(WindowOf(S)) /\ Len(f) = m - 1 /\ \A j \in 1..(m - 1) : f[j] = ws[j]
    <3>1. \A j \in 1..(m - 1) : ws[j] \in WindowOf(S)
      BY <1>1
    <3>2. 1 \in Int /\ m - 1 \in Int /\ (m - 1) - 1 + 1 = m - 1 /\ (~(1 <= m - 1) => m - 1 = 0)
      BY <1>1, <2>1
    <3>3. f = SubSeq(ws, 1, m - 1)
      BY <1>0, <2>4 DEF Front
    <3>4. f \in Seq(WindowOf(S)) /\ Len(f) = m - 1 /\ \A j \in 1..((m - 1) - 1 + 1) : f[j] = ws[1 + j - 1]
      BY <3>1, <3>2, <3>3, SubSeqProperties
    <3>5. \A j \in 1..(m - 1) : f[j] = ws[j]
      BY <3>2, <3>4
    <3> QED BY <3>4, <3>5
  <2>6. TakeRow(ws, c) = Append(f, ExtendWindow(w, c))
    BY <1>3, <2>1, <2>2, <2>4 DEF TakeRow
  <2>7. /\ Append(f, ExtendWindow(w, c)) \in Seq(WindowOf(S)) /\ Len(Append(f, ExtendWindow(w, c))) = (m - 1) + 1
        /\ Append(f, ExtendWindow(w, c))[(m - 1) + 1] = ExtendWindow(w, c)
        /\ \A j \in 1..(m - 1) : Append(f, ExtendWindow(w, c))[j] = f[j]
    BY <2>3, <2>5, AppendProperties
  <2>8. (m - 1) + 1 = m
    BY <1>1
  <2> QED BY <1>1, <1>3, <2>1, <2>2, <2>5, <2>6, <2>7, <2>8, <1>0 DEF Taken
<1>4. CASE ~(ws # <<>> /\ Continues(Last(ws), c))
  <2>1. TakeRow(ws, c) = Append(ws, NewWindow(c))
    BY <1>4 DEF TakeRow
  <2>2. m > 0 => ~Continues(ws[m], c)
    BY <1>0, <1>1, <1>4 DEF Last
  <2> QED BY <1>0, <1>1, <1>2, <2>1, <2>2, AppendProperties DEF Taken
<1> QED BY <1>3, <1>4

(* The windows as the rows are taken.                                               *)
LEMMA RowsFold ==
  ASSUME NEW S, \A c \in S : c.at \in Nat, NEW o \in Seq(S)
  PROVE  \E r \in [0..Len(o) -> Seq(WindowOf(S))] :
           /\ r[0] = <<>> /\ r[Len(o)] = FoldLeft(TakeRow, <<>>, o)
           /\ \A k \in 1..Len(o) : r[k] = TakeRow(r[k - 1], o[k])
<1> DEFINE n == Len(o)
           W == Seq(WindowOf(S))
           E(it) == it = [s \in SUBSET DOMAIN o |->
                           IF s = {} THEN <<>> ELSE TakeRow(it[s \ {Max(s)}], o[Max(s)])]
           chosen == CHOOSE it : E(it)
           step == [p \in W \X (1..n) |-> TakeRow(p[1], o[p[2]])]
<1>1. n \in Nat /\ DOMAIN o = 1..n /\ \A i \in 1..n : o[i] \in S
  BY LenProperties, ElementOfSeq
<1>2. step \in [W \X (1..n) -> W] /\ <<>> \in W
  <2>1. \A p \in W \X (1..n) : TakeRow(p[1], o[p[2]]) \in W
    BY <1>1, RowIsTaken
  <2> QED BY <2>1
<1>3. PICK it \in [SUBSET (1..n) -> W] : IsFold(it, n, <<>>, step)
  <2> HIDE DEF step, n, W
  <2> QED BY <1>1, <1>2, FoldExists
<1>4. E(it)
  <2>1. ASSUME NEW s \in SUBSET (1..n), s # {}
        PROVE  step[<<it[s \ {Max(s)}], Max(s)>>] = TakeRow(it[s \ {Max(s)}], o[Max(s)])
    <3>1. Max(s) \in 1..n /\ s \ {Max(s)} \in SUBSET (1..n)
      BY <1>1, <2>1, TopOf
    <3> QED BY <3>1
  <2> HIDE DEF step, n, W
  <2> QED BY <1>1, <1>3, <2>1 DEF IsFold
<1>5. E(chosen)
  BY <1>4
<1>6. FoldLeft(TakeRow, <<>>, o) = chosen[1..n]
  BY <1>1 DEF FoldLeft, MapThenFoldSet
<1>7. \A k \in 1..n, a \in W : step[<<a, k>>] = TakeRow(a, o[k])
  OBVIOUS
<1> HIDE DEF chosen, n, step, W
<1>8. chosen[{}] = <<>>
  BY <1>1, <1>5
<1>9. \A k \in 1..n : chosen[1..(k - 1)] \in W => chosen[1..k] = step[<<chosen[1..(k - 1)], k>>]
  <2> SUFFICES ASSUME NEW k \in 1..n, chosen[1..(k - 1)] \in W
               PROVE  chosen[1..k] = step[<<chosen[1..(k - 1)], k>>]
    OBVIOUS
  <2>1. 1..k \in SUBSET (1..n) /\ 1..k # {} /\ Max(1..k) = k /\ (1..k) \ {k} = 1..(k - 1)
    BY <1>1, TopOfFirst
  <2>2. chosen[1..k] = TakeRow(chosen[1..(k - 1)], o[k])
    BY <1>1, <1>5, <2>1
  <2> QED BY <1>7, <2>2
<1> HIDE DEF E
<1>10. Leads(chosen, n, W, <<>>, step)
  BY <1>8, <1>9 DEF Leads
<1>11. PICK r \in [0..n -> W] : r[n] = chosen[1..n] /\ IsRun(r, n, <<>>, step)
  BY <1>1, <1>2, <1>10, FoldRuns
<1>12. ASSUME NEW k \in 1..n PROVE r[k] = TakeRow(r[k - 1], o[k])
  <2>1. k - 1 \in 0..n
    BY <1>1
  <2> QED BY <1>7, <1>11, <2>1 DEF IsRun
<1>13. r[0] = <<>>
  BY <1>11 DEF IsRun
<1> QED BY <1>6, <1>11, <1>12, <1>13 DEF n, W

-----------------------------------------------------------------------------
(* The rows a window is made of.                                                    *)

Timed(o) == \A i, j \in 1..Len(o) : i <= j => o[i].at \in Nat /\ o[j].at \in Nat /\ o[i].at <= o[j].at

(* The rows lo to hi of the first k: no gap in them, and one before and after.      *)
IsPeriod(o, k, lo, hi) ==
  /\ lo \in 1..k /\ hi \in lo..k
  /\ \A i \in (lo + 1)..hi : o[i].at - o[i - 1].at <= Gap
  /\ lo # 1 => o[lo].at - o[lo - 1].at > Gap
  /\ hi # k => o[hi + 1].at - o[hi].at > Gap

(* What a window of them says.                                                      *)
Tells(w, o, lo, hi) ==
  /\ w.start = o[lo].at /\ w.last = o[hi].at /\ w.count = hi - lo + 1
  /\ Len(w.conns) = IF hi - lo + 1 < ConnsShown THEN hi - lo + 1 ELSE ConnsShown
  /\ \A m \in 1..Len(w.conns) : w.conns[m] = o[lo + m - 1]

Window(w, o, k, lo, hi) == IsPeriod(o, k, lo, hi) /\ Tells(w, o, lo, hi)

(* A period that has ended, or does, stays one when the next row is taken.          *)
LEMMA WindowKept ==
  ASSUME NEW o, Timed(o), NEW k \in 0..(Len(o) - 1), Len(o) \in Nat, NEW w, NEW lo, NEW hi,
         Window(w, o, k, lo, hi), hi # k \/ o[k + 1].at - o[k].at > Gap
  PROVE  Window(w, o, k + 1, lo, hi)
<1>1. lo \in 1..(k + 1) /\ hi \in lo..(k + 1) /\ hi # k + 1 /\ hi \in Nat /\ k \in Nat
  BY DEF Window, IsPeriod
<1>2. o[hi + 1].at - o[hi].at > Gap
  BY DEF Window, IsPeriod
<1> QED BY <1>1, <1>2 DEF Window, IsPeriod

(* The window of the last row so far ends with it.                                  *)
LEMMA LastWindowEnds ==
  ASSUME NEW o, Timed(o), Len(o) \in Nat, NEW k \in 1..Len(o), NEW w, NEW lo, NEW hi,
         Window(w, o, k, lo, hi), w.last = o[k].at
  PROVE  hi = k
<1>1. lo \in 1..k /\ hi \in lo..k /\ w.last = o[hi].at /\ (hi # k => o[hi + 1].at - o[hi].at > Gap) /\ Gap \in Nat
  BY TimelineAssumption DEF Window, IsPeriod, Tells
<1>2. SUFFICES ASSUME hi # k PROVE FALSE
  OBVIOUS
<1>3. hi \in 1..Len(o) /\ hi + 1 \in 1..Len(o) /\ hi + 1 <= k /\ k \in 1..Len(o) /\ hi <= hi + 1
  BY <1>1, <1>2
<1>4. o[hi].at \in Nat /\ o[hi + 1].at \in Nat /\ o[k].at \in Nat /\ o[hi + 1].at <= o[k].at
  BY <1>3 DEF Timed
<1> QED BY <1>1, <1>2, <1>4

(* It grows by a row within the gap.                                                *)
LEMMA WindowGrows ==
  ASSUME NEW S, NEW o \in Seq(S), Timed(o), NEW k \in 1..(Len(o) - 1), NEW w \in WindowOf(S), NEW lo,
         Window(w, o, k, lo, k), o[k + 1].at - o[k].at <= Gap
  PROVE  Window(ExtendWindow(w, o[k + 1]), o, k + 1, lo, k + 1)
<1>1. Len(o) \in Nat /\ k \in Nat /\ k + 1 \in 1..Len(o) /\ o[k + 1] \in S
  BY LenProperties, ElementOfSeq
<1>2. lo \in 1..(k + 1) /\ k + 1 \in lo..(k + 1) /\ lo \in 1..k
  BY DEF Window, IsPeriod
<1>3. \A i \in (lo + 1)..(k + 1) : o[i].at - o[i - 1].at <= Gap
  <2>1. \A i \in (lo + 1)..(k + 1) : i \in (lo + 1)..k \/ (i = k + 1 /\ i - 1 = k)
    BY <1>2
  <2> QED BY <2>1 DEF Window, IsPeriod
<1>4. IsPeriod(o, k + 1, lo, k + 1)
  BY <1>2, <1>3 DEF Window, IsPeriod
<1>5. PICK e : e = ExtendWindow(w, o[k + 1])
  OBVIOUS
<1>6. ConnsShown \in Nat \ {0}
  BY TimelineAssumption
<1>7. /\ w.start = o[lo].at /\ w.last = o[k].at /\ w.count = k - lo + 1
      /\ Len(w.conns) = IF k - lo + 1 < ConnsShown THEN k - lo + 1 ELSE ConnsShown
      /\ \A m \in 1..Len(w.conns) : w.conns[m] = o[lo + m - 1]
      /\ w.conns \in Seq(S)
  BY DEF Window, Tells, WindowOf
<1>8. PICK x : x = IF Len(w.conns) < ConnsShown THEN Append(w.conns, o[k + 1]) ELSE w.conns
  OBVIOUS
<1>9. e.start = w.start /\ e.last = o[k + 1].at /\ e.count = w.count + 1 /\ e.conns = x
  BY <1>5, <1>8 DEF ExtendWindow, WindowOf
<1>10. e.count = (k + 1) - lo + 1
  BY <1>2, <1>7, <1>9
<1>11. /\ Len(x) = IF (k + 1) - lo + 1 < ConnsShown THEN (k + 1) - lo + 1 ELSE ConnsShown
       /\ \A m \in 1..Len(x) : x[m] = o[lo + m - 1]
  <2>1. CASE Len(w.conns) < ConnsShown
    <3>1. Len(w.conns) = k - lo + 1 /\ lo + (Len(w.conns) + 1) - 1 = k + 1
      BY <1>2, <1>6, <1>7, <2>1
    <3>2. Len(x) = Len(w.conns) + 1 /\ (\A m \in 1..Len(w.conns) : x[m] = w.conns[m]) /\ x[Len(w.conns) + 1] = o[k + 1]
      BY <1>1, <1>7, <1>8, <2>1, AppendProperties
    <3>3. ASSUME NEW m \in 1..Len(x) PROVE x[m] = o[lo + m - 1]
      <4>1. CASE m \in 1..Len(w.conns)
        BY <1>7, <3>2, <4>1
      <4>2. CASE m = Len(w.conns) + 1
        BY <3>1, <3>2, <4>2
      <4> QED BY <1>2, <3>1, <3>2, <4>1, <4>2
    <3>4. Len(x) = (k + 1) - lo + 1 /\ Len(x) <= ConnsShown
      <4>1. PICK n : n = Len(w.conns)
        OBVIOUS
      <4>2. n = k - lo + 1 /\ Len(x) = n + 1 /\ n < ConnsShown
        BY <2>1, <3>1, <3>2, <4>1
      <4>3. n \in Nat /\ n + 1 = (k + 1) - lo + 1 /\ n + 1 <= ConnsShown
        BY <1>2, <1>6, <4>2
      <4> QED BY <4>2, <4>3
    <3>5. Len(x) = IF (k + 1) - lo + 1 < ConnsShown THEN (k + 1) - lo + 1 ELSE ConnsShown
      BY <1>2, <1>6, <3>4
    <3> QED BY <3>3, <3>5
  <2>2. CASE ~(Len(w.conns) < ConnsShown)
    <3>1. x = w.conns /\ Len(w.conns) = ConnsShown /\ ~((k + 1) - lo + 1 < ConnsShown)
      BY <1>2, <1>6, <1>7, <1>8, <2>2
    <3>2. Len(x) = IF (k + 1) - lo + 1 < ConnsShown THEN (k + 1) - lo + 1 ELSE ConnsShown
      BY <3>1
    <3>3. \A m \in 1..Len(x) : x[m] = o[lo + m - 1]
      BY <1>7, <3>1
    <3> QED BY <3>2, <3>3
  <2> QED BY <2>1, <2>2
<1>12. Tells(e, o, lo, k + 1)
  BY <1>7, <1>9, <1>10, <1>11 DEF Tells
<1> QED BY <1>4, <1>5, <1>12 DEF Window

(* A row after a gap, or the first, begins one.                                     *)
LEMMA WindowBegins ==
  ASSUME NEW S, NEW o \in Seq(S), NEW k \in 0..(Len(o) - 1), k = 0 \/ o[k + 1].at - o[k].at > Gap
  PROVE  Window(NewWindow(o[k + 1]), o, k + 1, k + 1, k + 1)
<1>1. Len(o) \in Nat /\ k \in Nat /\ (k + 1) - 1 = k /\ k + 1 \in 1..(k + 1) /\ k + 1 \in (k + 1)..(k + 1)
  BY LenProperties
<1>2. IsPeriod(o, k + 1, k + 1, k + 1)
  BY <1>1 DEF IsPeriod
<1>3. ConnsShown \in Nat \ {0}
  BY TimelineAssumption
<1>4. PICK c : c = o[k + 1]
  OBVIOUS
<1>5. Len(<<c>>) = 1 /\ <<c>>[1] = c
  OBVIOUS
<1>6. PICK w : w = NewWindow(c)
  OBVIOUS
<1>7. w.start = c.at /\ w.last = c.at /\ w.count = 1 /\ w.conns = <<c>>
  BY <1>6 DEF NewWindow
<1>8. (k + 1) - (k + 1) + 1 = 1 /\ (k + 1) + 1 - 1 = k + 1
  BY <1>1
<1>9. Len(w.conns) = (IF (k + 1) - (k + 1) + 1 < ConnsShown THEN (k + 1) - (k + 1) + 1 ELSE ConnsShown)
  BY <1>3, <1>5, <1>7, <1>8
<1>10. \A m \in 1..Len(w.conns) : w.conns[m] = o[(k + 1) + m - 1]
  BY <1>4, <1>5, <1>7, <1>8
<1>11. Tells(w, o, k + 1, k + 1)
  BY <1>4, <1>7, <1>8, <1>9, <1>10 DEF Tells
<1> QED BY <1>2, <1>4, <1>6, <1>11 DEF Window

(* What the windows of the first k rows are.                                        *)
IsWindow(w, o, k)    == \E lo \in 1..k, hi \in 1..k : Window(w, o, k, lo, hi)
InWindow(w, o, k, i) == \E lo \in 1..k, hi \in 1..k : Window(w, o, k, lo, hi) /\ lo <= i /\ i <= hi

IsSplit(ws, o, k) ==
  /\ \A j \in 1..Len(ws) : IsWindow(ws[j], o, k)
  /\ \A i \in 1..k : \E j \in 1..Len(ws) : InWindow(ws[j], o, k, i)
  /\ \A i, j \in 1..Len(ws) : i < j => ws[i].last < ws[j].start
  /\ k = 0 => Len(ws) = 0
  /\ k # 0 => Len(ws) > 0 /\ ws[Len(ws)].last = o[k].at

(* A row within the gap goes into the last window.                                  *)
LEMMA RowContinues ==
  ASSUME NEW S, NEW o \in Seq(S), Timed(o), NEW k \in 0..(Len(o) - 1), NEW ws \in Seq(WindowOf(S)),
         IsSplit(ws, o, k), NEW m, m = Len(ws), m > 0, Continues(ws[m], o[k + 1]),
         NEW new, Len(new) = m, new[m] = ExtendWindow(ws[m], o[k + 1]), \A j \in 1..(m - 1) : new[j] = ws[j]
  PROVE  IsSplit(new, o, k + 1)
<1>1. Len(o) \in Nat /\ m \in Nat /\ m \in 1..Len(ws) /\ m - 1 \in Nat
  BY LenProperties
<1>2. k \in 1..(Len(o) - 1) /\ k \in 1..Len(o) /\ k + 1 \in 1..Len(o) /\ ws[m].last = o[k].at
  BY <1>1 DEF IsSplit
<1>3. o[k + 1].at - o[k].at <= Gap
  BY <1>2 DEF Continues
<1>4. ws[m] \in WindowOf(S)
  BY <1>1, ElementOfSeq
<1>5. PICK from \in 1..k : Window(ws[m], o, k, from, k)
  <2>1. PICK lo \in 1..k, hi \in 1..k : Window(ws[m], o, k, lo, hi)
    BY <1>1 DEF IsSplit, IsWindow
  <2>2. hi = k
    BY <1>1, <1>2, <2>1, LastWindowEnds
  <2> QED BY <2>1, <2>2
<1>6. Window(new[m], o, k + 1, from, k + 1)
  BY <1>2, <1>3, <1>4, <1>5, WindowGrows
<1>7. ws[m].start = o[from].at /\ o[from].at <= o[k].at /\ o[from].at \in Nat /\ o[k].at \in Nat
  <2>1. from \in 1..Len(o) /\ from <= k
    BY <1>2
  <2> QED BY <1>2, <1>5, <2>1 DEF Window, Tells, Timed
<1>8. ASSUME NEW j \in 1..(m - 1), NEW lo \in 1..k, NEW hi \in 1..k, Window(ws[j], o, k, lo, hi)
      PROVE  Window(new[j], o, k + 1, lo, hi)
  <2>1. j \in 1..Len(ws) /\ j < m
    BY <1>1
  <2>2. ws[j].last < ws[m].start /\ ws[j].last = o[hi].at
    BY <1>1, <1>8, <2>1 DEF IsSplit, Window, Tells
  <2>3. hi # k
    BY <1>7, <2>2
  <2> QED BY <1>1, <1>8, <2>3, WindowKept
<1>9. new[m].start = ws[m].start /\ new[m].last = o[k + 1].at
  BY <1>4 DEF ExtendWindow, WindowOf
<1>10. ASSUME NEW j \in 1..Len(new) PROVE IsWindow(new[j], o, k + 1)
  <2>1. CASE j = m
    BY <1>2, <1>6, <2>1 DEF IsWindow
  <2>2. CASE j # m
    <3>1. j \in 1..(m - 1) /\ j \in 1..Len(ws)
      BY <1>1, <2>2
    <3>2. PICK lo \in 1..k, hi \in 1..k : Window(ws[j], o, k, lo, hi)
      BY <3>1 DEF IsSplit, IsWindow
    <3>3. lo \in 1..(k + 1) /\ hi \in 1..(k + 1)
      BY <1>2
    <3> QED BY <1>8, <3>1, <3>2, <3>3 DEF IsWindow
  <2> QED BY <2>1, <2>2
<1>11. ASSUME NEW i \in 1..(k + 1) PROVE \E j \in 1..Len(new) : InWindow(new[j], o, k + 1, i)
  <2>1. ASSUME from <= i PROVE InWindow(new[m], o, k + 1, i)
    <3>1. from \in 1..(k + 1) /\ k + 1 \in 1..(k + 1) /\ i <= k + 1
      BY <1>2
    <3> QED BY <1>6, <2>1, <3>1 DEF InWindow
  <2>2. CASE ~(from <= i)
    <3>1. i \in 1..k
      BY <1>2, <2>2
    <3>2. PICK j \in 1..Len(ws) : InWindow(ws[j], o, k, i)
      BY <3>1 DEF IsSplit
    <3>3. PICK lo \in 1..k, hi \in 1..k : Window(ws[j], o, k, lo, hi) /\ lo <= i /\ i <= hi
      BY <3>2 DEF InWindow
    <3>4. j # m
      <4>1. SUFFICES ASSUME j = m PROVE FALSE
        OBVIOUS
      <4>2. o[lo].at = o[from].at /\ hi = k
        <5>1. hi = k
          BY <1>1, <1>2, <3>3, <4>1, LastWindowEnds
        <5> QED BY <1>7, <3>3, <4>1, <5>1 DEF Window, Tells
      <4>3. lo < from /\ lo \in 1..Len(o) /\ from \in 1..Len(o) /\ from - 1 \in 1..Len(o) /\ lo <= from - 1 /\ from # 1
        BY <1>2, <2>2, <3>3
      <4>4. o[from].at - o[from - 1].at > Gap
        BY <1>5, <4>3 DEF Window, IsPeriod
      <4>5. o[lo].at <= o[from - 1].at /\ o[lo].at \in Nat /\ o[from - 1].at \in Nat /\ Gap \in Nat
        BY <4>3, TimelineAssumption DEF Timed
      <4> QED BY <4>2, <4>4, <4>5
    <3>5. j \in 1..(m - 1) /\ j \in 1..Len(new)
      BY <1>1, <3>4
    <3>6. lo \in 1..(k + 1) /\ hi \in 1..(k + 1)
      BY <1>2
    <3>7. InWindow(new[j], o, k + 1, i)
      BY <1>8, <3>3, <3>5, <3>6 DEF InWindow
    <3> QED BY <3>5, <3>7
  <2> QED BY <1>1, <2>1, <2>2
<1>12. ASSUME NEW i \in 1..Len(new), NEW j \in 1..Len(new), i < j PROVE new[i].last < new[j].start
  <2>1. i \in 1..(m - 1) /\ new[i] = ws[i] /\ i \in 1..Len(ws) /\ j \in 1..Len(ws)
    BY <1>1, <1>12
  <2>2. new[j].start = ws[j].start
    BY <1>1, <1>9
  <2> QED BY <1>12, <2>1, <2>2 DEF IsSplit
<1>13. k + 1 # 0 /\ Len(new) > 0 /\ new[Len(new)].last = o[k + 1].at
  BY <1>1, <1>2, <1>9
<1> QED BY <1>10, <1>11, <1>12, <1>13 DEF IsSplit

(* A row after a gap makes a window.                                                *)
LEMMA RowBegins ==
  ASSUME NEW S, NEW o \in Seq(S), Timed(o), NEW k \in 0..(Len(o) - 1), NEW ws \in Seq(WindowOf(S)),
         IsSplit(ws, o, k), NEW m, m = Len(ws), m > 0 => ~Continues(ws[m], o[k + 1]),
         NEW new, Len(new) = m + 1, new[m + 1] = NewWindow(o[k + 1]), \A j \in 1..m : new[j] = ws[j]
  PROVE  IsSplit(new, o, k + 1)
<1>1. Len(o) \in Nat /\ m \in Nat /\ k \in Nat /\ k + 1 \in 1..Len(o) /\ Gap \in Nat
  BY LenProperties, TimelineAssumption
<1>2. ASSUME k # 0 PROVE o[k + 1].at - o[k].at > Gap /\ k \in 1..Len(o)
  <2>1. m > 0 /\ ws[m].last = o[k].at
    BY <1>2 DEF IsSplit
  <2>2. k \in 1..Len(o) /\ o[k].at \in Nat /\ o[k + 1].at \in Nat
    BY <1>1, <1>2 DEF Timed
  <2> QED BY <1>1, <2>1, <2>2 DEF Continues
<1>3. Window(new[m + 1], o, k + 1, k + 1, k + 1)
  BY <1>2, WindowBegins
<1>4. ASSUME NEW j \in 1..m, NEW lo \in 1..k, NEW hi \in 1..k, Window(ws[j], o, k, lo, hi)
      PROVE  Window(new[j], o, k + 1, lo, hi)
  <2>1. o[k + 1].at - o[k].at > Gap
    BY <1>2
  <2> QED BY <1>1, <1>4, <2>1, WindowKept
<1>5. new[m + 1].start = o[k + 1].at /\ new[m + 1].last = o[k + 1].at
  BY DEF NewWindow
<1>6. ASSUME NEW j \in 1..Len(new) PROVE IsWindow(new[j], o, k + 1)
  <2>1. CASE j = m + 1
    BY <1>1, <1>3, <2>1 DEF IsWindow
  <2>2. CASE j # m + 1
    <3>1. j \in 1..m /\ j \in 1..Len(ws)
      BY <1>1, <2>2
    <3>2. PICK lo \in 1..k, hi \in 1..k : Window(ws[j], o, k, lo, hi)
      BY <3>1 DEF IsSplit, IsWindow
    <3>3. lo \in 1..(k + 1) /\ hi \in 1..(k + 1)
      BY <1>1
    <3> QED BY <1>4, <3>1, <3>2, <3>3 DEF IsWindow
  <2> QED BY <2>1, <2>2
<1>7. ASSUME NEW i \in 1..(k + 1) PROVE \E j \in 1..Len(new) : InWindow(new[j], o, k + 1, i)
  <2>1. CASE i = k + 1
    <3>1. InWindow(new[m + 1], o, k + 1, i)
      BY <1>1, <1>3, <2>1 DEF InWindow
    <3> QED BY <1>1, <3>1
  <2>2. CASE i # k + 1
    <3>1. i \in 1..k
      BY <1>1, <2>2
    <3>2. PICK j \in 1..Len(ws) : InWindow(ws[j], o, k, i)
      BY <3>1 DEF IsSplit
    <3>3. PICK lo \in 1..k, hi \in 1..k : Window(ws[j], o, k, lo, hi) /\ lo <= i /\ i <= hi
      BY <3>2 DEF InWindow
    <3>4. j \in 1..m /\ j \in 1..Len(new) /\ lo \in 1..(k + 1) /\ hi \in 1..(k + 1)
      BY <1>1
    <3>5. InWindow(new[j], o, k + 1, i)
      BY <1>4, <3>3, <3>4 DEF InWindow
    <3> QED BY <3>4, <3>5
  <2> QED BY <2>1, <2>2
<1>8. ASSUME NEW i \in 1..Len(new), NEW j \in 1..Len(new), i < j PROVE new[i].last < new[j].start
  <2>1. i \in 1..m /\ new[i] = ws[i] /\ i \in 1..Len(ws)
    BY <1>1, <1>8
  <2>2. CASE j = m + 1
    <3>1. PICK lo \in 1..k, hi \in 1..k : Window(ws[i], o, k, lo, hi)
      BY <2>1 DEF IsSplit, IsWindow
    <3>2. ws[i].last = o[hi].at /\ k # 0 /\ hi \in 1..Len(o) /\ hi <= k
      BY <1>1, <3>1 DEF Window, Tells
    <3>3. o[hi].at <= o[k].at /\ o[hi].at \in Nat /\ o[k].at \in Nat /\ o[k + 1].at \in Nat
      BY <1>1, <1>2, <3>2 DEF Timed
    <3>4. new[i].last = o[hi].at /\ new[j].start = o[k + 1].at /\ o[k + 1].at - o[k].at > Gap
      BY <1>2, <1>5, <2>1, <2>2, <3>2
    <3>5. o[hi].at < o[k + 1].at
      <4>1. \A a, b, c \in Nat : a <= b /\ c - b > Gap => a < c
        BY <1>1
      <4> QED BY <3>3, <3>4, <4>1
    <3> QED BY <3>4, <3>5
  <2>3. CASE j # m + 1
    <3>1. j \in 1..m /\ j \in 1..Len(ws) /\ new[j] = ws[j]
      BY <1>1, <2>3
    <3> QED BY <1>8, <2>1, <3>1 DEF IsSplit
  <2> QED BY <2>2, <2>3
<1>9. k + 1 # 0 /\ Len(new) > 0 /\ new[Len(new)].last = o[k + 1].at
  BY <1>1, <1>5
<1> QED BY <1>6, <1>7, <1>8, <1>9 DEF IsSplit

(* The windows of rows in the order of time are their periods.                      *)
LEMMA WindowsSplit ==
  ASSUME NEW S, \A c \in S : c.at \in Nat, NEW o \in Seq(S), Timed(o)
  PROVE  /\ FoldLeft(TakeRow, <<>>, o) \in Seq(WindowOf(S))
         /\ IsSplit(FoldLeft(TakeRow, <<>>, o), o, Len(o))
<1> DEFINE n == Len(o)
<1>1. n \in Nat /\ \A i \in 1..n : o[i] \in S
  BY LenProperties, ElementOfSeq
<1>2. PICK r \in [0..n -> Seq(WindowOf(S))] :
        /\ r[0] = <<>> /\ r[n] = FoldLeft(TakeRow, <<>>, o)
        /\ \A k \in 1..n : r[k] = TakeRow(r[k - 1], o[k])
  BY RowsFold
<1> HIDE DEF n
<1>3. IsSplit(r[0], o, 0)
  <2>1. Len(r[0]) = 0 /\ 1..0 = {}
    BY <1>2
  <2> QED BY <2>1 DEF IsSplit
<1>4. ASSUME NEW k \in 0..(n - 1), IsSplit(r[k], o, k) PROVE IsSplit(r[k + 1], o, k + 1)
  <2>1. k + 1 \in 1..n /\ (k + 1) - 1 = k /\ k \in 0..n /\ k \in 0..(Len(o) - 1)
    BY <1>1 DEF n
  <2>2. r[k] \in Seq(WindowOf(S)) /\ o[k + 1] \in S /\ o[k + 1].at \in Nat /\ r[k + 1] = TakeRow(r[k], o[k + 1])
    BY <1>1, <1>2, <2>1
  <2>3. PICK ws \in Seq(WindowOf(S)) : ws = r[k]
    BY <2>2
  <2>4. PICK c \in S : c = o[k + 1] /\ c.at \in Nat
    BY <2>2
  <2>5. PICK new : new = TakeRow(ws, c)
    OBVIOUS
  <2>6. PICK m : m = Len(ws)
    OBVIOUS
  <2>9. \/ /\ m > 0 /\ Continues(ws[m], c)
           /\ Len(new) = m /\ new[m] = ExtendWindow(ws[m], c)
           /\ \A j \in 1..(m - 1) : new[j] = ws[j]
        \/ /\ m > 0 => ~Continues(ws[m], c)
           /\ Len(new) = m + 1 /\ new[m + 1] = NewWindow(c)
           /\ \A j \in 1..m : new[j] = ws[j]
    <3>1. Taken(ws, c, new)
      BY <2>4, <2>5, RowIsTaken
    <3> QED BY <3>1, <2>6 DEF Taken
  <2>7. IsSplit(ws, o, k)
    BY <1>4, <2>3
  <2>8. IsSplit(new, o, k + 1)
    BY <2>1, <2>4, <2>6, <2>7, <2>9, RowContinues, RowBegins
  <2> QED BY <2>2, <2>3, <2>4, <2>5, <2>8
<1> DEFINE N == {k \in 0..n : IsSplit(r[k], o, k)}
<1>5. 0 \in N /\ \A k \in 0..(n - 1) : k \in N => k + 1 \in N
  BY <1>1, <1>3, <1>4
<1>6. n \in N
  <2> HIDE DEF N
  <2>1. \A k \in 0..n : k \in N
    BY <1>1, <1>5, Upward
  <2> QED BY <1>1, <2>1
<1>7. r[n] \in Seq(WindowOf(S))
  BY <1>1, <1>2
<1> QED BY <1>2, <1>6, <1>7 DEF n

-----------------------------------------------------------------------------
(* Periods.                                                                         *)

(* The first row after a moment.                                                    *)
LEMMA RowAfter ==
  ASSUME NEW o, NEW n \in Nat, n = Len(o), Timed(o), NEW a \in 1..n, NEW b \in 1..n, NEW t \in Nat,
         o[a].at <= t, t < o[b].at
  PROVE  \E i \in a..(b - 1) : o[i].at <= t /\ t < o[i + 1].at
<1> DEFINE s == {z \in 1..n : o[z].at <= t}
           i == Max(s)
<1>1. i \in s /\ \A y \in s : i >= y
  <2>1. s \in SUBSET (1..n) /\ s # {}
    OBVIOUS
  <2> HIDE DEF s
  <2> QED BY <2>1, TopOf
<1>2. i \in 1..n /\ o[i].at <= t /\ i >= a
  BY <1>1
<1> HIDE DEF i
<1>3. i < b
  <2>1. SUFFICES ASSUME b <= i PROVE FALSE
    BY <1>2
  <2>2. o[b].at <= o[i].at /\ o[b].at \in Nat /\ o[i].at \in Nat
    BY <1>2, <2>1 DEF Timed
  <2> QED BY <1>2, <2>2
<1>4. i + 1 \in 1..n /\ i + 1 \notin s
  BY <1>1, <1>2, <1>3
<1>5. o[i + 1].at \in Nat
  BY <1>4 DEF Timed
<1> QED BY <1>2, <1>3, <1>4, <1>5

(* Rows with no gap between them are together.                                      *)
LEMMA LinkedTogether ==
  ASSUME NEW S, NEW o \in Seq(S), NEW n, n = Len(o), Timed(o), NEW lo, NEW hi, IsPeriod(o, n, lo, hi),
         NEW a \in lo..hi, NEW b \in lo..hi
  PROVE  Together(Range(o), o[a], o[b])
<1>1. n \in Nat /\ DOMAIN o = 1..n /\ lo \in 1..n /\ hi \in lo..n /\ Gap \in Nat
  BY LenProperties, TimelineAssumption DEF IsPeriod
<1>2. ASSUME NEW x \in Range(o), NEW c \in lo..hi, NEW d \in lo..hi, o[c].at <= x.at, x.at < o[d].at
      PROVE  \E y \in Range(o) : x.at < y.at /\ y.at <= x.at + Gap
  <2>1. PICK z \in 1..n : x = o[z]
    BY <1>1 DEF Range
  <2>2. x.at \in Nat /\ c \in 1..n /\ d \in 1..n
    BY <1>1, <2>1 DEF Timed
  <2>3. PICK i \in c..(d - 1) : o[i].at <= x.at /\ x.at < o[i + 1].at
    BY <1>1, <1>2, <2>2, RowAfter
  <2>4. i + 1 \in (lo + 1)..hi /\ (i + 1) - 1 = i /\ i \in 1..n /\ i + 1 \in 1..n
    BY <1>1
  <2>5. o[i + 1].at - o[i].at <= Gap
    BY <2>4 DEF IsPeriod
  <2>6. o[i].at \in Nat /\ o[i + 1].at \in Nat /\ o[i + 1] \in Range(o)
    BY <1>1, <2>4 DEF Timed, Range
  <2>7. o[i + 1].at <= x.at + Gap
    BY <1>1, <2>2, <2>3, <2>5, <2>6
  <2> QED BY <2>3, <2>6, <2>7
<1> QED BY <1>2 DEF Together

(* Rows with a gap between them are not.                                            *)
LEMMA GapParts ==
  ASSUME NEW S, NEW o \in Seq(S), NEW n, n = Len(o), Timed(o), NEW g \in 1..(n - 1), o[g + 1].at - o[g].at > Gap,
         NEW a \in 1..g, NEW b \in (g + 1)..n
  PROVE  ~Together(Range(o), o[a], o[b]) /\ ~Together(Range(o), o[b], o[a])
<1>1. n \in Nat /\ DOMAIN o = 1..n /\ g \in 1..n /\ g + 1 \in 1..n /\ a \in 1..n /\ b \in 1..n /\ Gap \in Nat
  BY LenProperties, TimelineAssumption
<1>2. /\ o[a].at \in Nat /\ o[b].at \in Nat /\ o[g].at \in Nat /\ o[g + 1].at \in Nat
      /\ o[a].at <= o[g].at /\ o[g + 1].at <= o[b].at
  BY <1>1 DEF Timed
<1>3. o[g] \in Range(o)
  BY <1>1 DEF Range
<1>4. o[a].at <= o[g].at /\ o[g].at < o[b].at
  BY <1>1, <1>2
<1>5. ASSUME NEW y \in Range(o), o[g].at < y.at PROVE ~(y.at <= o[g].at + Gap)
  <2>1. PICK j \in 1..n : y = o[j]
    BY <1>1 DEF Range
  <2>2. j >= g + 1
    <3>1. SUFFICES ASSUME j <= g PROVE FALSE
      BY <1>1
    <3>2. o[j].at <= o[g].at /\ o[j].at \in Nat
      BY <1>1, <3>1 DEF Timed
    <3> QED BY <1>2, <1>5, <2>1, <3>2
  <2>3. o[g + 1].at <= o[j].at /\ o[j].at \in Nat
    BY <1>1, <2>2 DEF Timed
  <2> QED BY <1>1, <1>2, <2>1, <2>3
<1> QED BY <1>3, <1>4, <1>5 DEF Together

RowsBetween(o, lo, hi) == {o[m] : m \in lo..hi}

(* The period of a row is the rows lo to hi.                                        *)
LEMMA PeriodOfRow ==
  ASSUME NEW S, NEW o \in Seq(S), NEW n, n = Len(o), Timed(o), NEW lo, NEW hi, IsPeriod(o, n, lo, hi), NEW p \in lo..hi
  PROVE  {d \in Range(o) : Together(Range(o), o[p], d)} = RowsBetween(o, lo, hi)
<1>1. n \in Nat /\ DOMAIN o = 1..n /\ lo \in 1..n /\ hi \in lo..n
  BY LenProperties DEF IsPeriod
<1>2. ASSUME NEW m \in lo..hi PROVE o[m] \in Range(o) /\ Together(Range(o), o[p], o[m])
  <2>1. m \in 1..n
    BY <1>1
  <2>2. o[m] \in Range(o)
    BY <1>1, <2>1 DEF Range
  <2> QED BY <2>2, LinkedTogether
<1>3. ASSUME NEW m \in 1..n, Together(Range(o), o[p], o[m]) PROVE m \in lo..hi
  <2>1. ASSUME m > hi PROVE FALSE
    <3>1. hi \in 1..(n - 1) /\ p \in 1..hi /\ m \in (hi + 1)..n /\ hi # n
      BY <1>1, <2>1
    <3>2. o[hi + 1].at - o[hi].at > Gap
      BY <3>1 DEF IsPeriod
    <3> QED BY <1>3, <3>1, <3>2, GapParts
  <2>2. ASSUME m < lo PROVE FALSE
    <3>1. PICK g : g = lo - 1
      OBVIOUS
    <3>2. g \in 1..(n - 1) /\ m \in 1..g /\ p \in (g + 1)..n /\ lo # 1 /\ g + 1 = lo
      BY <1>1, <2>2, <3>1
    <3>3. o[g + 1].at - o[g].at > Gap
      BY <3>1, <3>2 DEF IsPeriod
    <3> QED BY <1>3, <3>2, <3>3, GapParts
  <2> QED BY <1>1, <2>1, <2>2
<1>4. \A d \in Range(o) : \E m \in 1..n : d = o[m]
  BY <1>1 DEF Range
<1>5. {d \in Range(o) : Together(Range(o), o[p], d)} \subseteq RowsBetween(o, lo, hi)
  <2> SUFFICES ASSUME NEW d \in Range(o), Together(Range(o), o[p], d) PROVE d \in RowsBetween(o, lo, hi)
    OBVIOUS
  <2>1. PICK m \in 1..n : d = o[m]
    BY <1>4
  <2>2. m \in lo..hi
    BY <1>3, <2>1
  <2> QED BY <2>1, <2>2 DEF RowsBetween
<1>6. RowsBetween(o, lo, hi) \subseteq {d \in Range(o) : Together(Range(o), o[p], d)}
  BY <1>2 DEF RowsBetween
<1> QED BY <1>5, <1>6

(* What a window ought to say of them.                                              *)
LEMMA RowsAsWindow ==
  ASSUME NEW S, NEW o \in Seq(S), Timed(o), InTime(o), NEW lo \in 1..Len(o), NEW hi \in lo..Len(o)
  PROVE  /\ EarliestIn(RowsBetween(o, lo, hi)) = o[lo].at /\ LatestIn(RowsBetween(o, lo, hi)) = o[hi].at
         /\ Cardinality(RowsBetween(o, lo, hi)) = hi - lo + 1
<1>1. PICK k : k = RowsBetween(o, lo, hi)
  OBVIOUS
<1>2. PICK t : t = {c.at : c \in k}
  OBVIOUS
<1>3. Len(o) \in Nat /\ lo \in lo..hi /\ hi \in lo..hi /\ lo \in Nat /\ hi \in Nat
  BY LenProperties
<1>4. \A m \in lo..hi : o[lo].at <= o[m].at /\ o[m].at <= o[hi].at /\ o[m].at \in Nat
  <2> SUFFICES ASSUME NEW m \in lo..hi PROVE o[lo].at <= o[m].at /\ o[m].at <= o[hi].at /\ o[m].at \in Nat
    OBVIOUS
  <2>1. m \in 1..Len(o) /\ lo <= m /\ m <= hi /\ lo \in 1..Len(o) /\ hi \in 1..Len(o)
    BY <1>3
  <2> QED BY <2>1 DEF Timed
<1>5. o[lo].at \in t /\ o[hi].at \in t
  BY <1>1, <1>2, <1>3 DEF RowsBetween
<1>6. \A x \in t : x \in Nat /\ o[lo].at <= x /\ x <= o[hi].at
  BY <1>1, <1>2, <1>4 DEF RowsBetween
<1>7. Min(t) = o[lo].at
  <2>1. Min(t) \in t /\ \A y \in t : Min(t) <= y
    BY <1>5, <1>6 DEF Min
  <2> QED BY <1>5, <1>6, <2>1
<1>8. Max(t) = o[hi].at
  <2>1. Max(t) \in t /\ \A y \in t : Max(t) >= y
    BY <1>5, <1>6 DEF Max
  <2> QED BY <1>5, <1>6, <2>1
<1>9. Cardinality(k) = hi - lo + 1
  <2> DEFINE f == [m \in lo..hi |-> o[m]]
  <2>1. \A m \in lo..hi : f[m] \in k
    BY <1>1 DEF RowsBetween
  <2>2. ASSUME NEW i \in lo..hi, NEW j \in lo..hi, i # j PROVE f[i] # f[j]
    <3>1. i \in 1..Len(o) /\ j \in 1..Len(o) /\ (i < j \/ j < i)
      BY <1>3, <2>2
    <3> QED BY <3>1 DEF InTime
  <2>3. \A c \in k : \E m \in lo..hi : f[m] = c
    BY <1>1 DEF RowsBetween
  <2>4. f \in Bijection(lo..hi, k)
    BY <2>1, <2>2, <2>3 DEF Bijection, Injection, Surjection, IsInjective
  <2>5. IsFiniteSet(lo..hi) /\ Cardinality(lo..hi) = hi - lo + 1
    <3>1. ~(lo > hi) /\ lo \in Int /\ hi \in Int
      BY <1>3
    <3> QED BY <3>1, FS_Interval
  <2> HIDE DEF f
  <2> QED BY <2>4, <2>5, FS_Bijection DEF ExistsBijection
<1> QED BY <1>1, <1>2, <1>7, <1>8, <1>9 DEF EarliestIn, LatestIn

(* The newest windows, newest first.                                                *)
Kept(ws) == IF Len(ws) > WindowLimit THEN WindowLimit ELSE Len(ws)

LEMMA WindowsBuilt ==
  ASSUME NEW q, NEW T, NEW ws \in Seq(T), ws = FoldLeft(TakeRow, <<>>, q), NEW now
  PROVE  /\ Kept(ws) \in 0..Len(ws) /\ DOMAIN BuildWindows(q, now) = 1..Kept(ws) /\ Len(BuildWindows(q, now)) = Kept(ws)
         /\ \A i \in 1..Kept(ws) : BuildWindows(q, now)[i] = Shape(ws[Len(ws) - i + 1], now)
<1>1. PICK n : n = Len(ws)
  OBVIOUS
<1>2. n \in Nat /\ WindowLimit \in Nat
  BY <1>1, LenProperties, TimelineAssumption
<1>3. PICK m : m = Kept(ws)
  OBVIOUS
<1>4. m = (IF n > WindowLimit THEN WindowLimit ELSE n) /\ m \in 0..n
  BY <1>1, <1>2, <1>3 DEF Kept
<1>5. PICK from : from = IF n > WindowLimit THEN n - WindowLimit + 1 ELSE 1
  OBVIOUS
<1>6. from = n - m + 1 /\ from \in Nat /\ from >= 1
  BY <1>2, <1>4, <1>5
<1>7. PICK kept : kept = SubSeq(ws, from, n)
  OBVIOUS
<1>8. kept \in Seq(T) /\ Len(kept) = m /\ DOMAIN kept = 1..m /\ \A i \in 1..m : kept[i] = ws[from + i - 1]
  <2>1. \A i \in from..n : ws[i] \in T
    BY <1>1, <1>2, <1>6, ElementOfSeq
  <2>2. n - from + 1 = m /\ from \in Int /\ n \in Int /\ (~(from <= n) => m = 0)
    BY <1>2, <1>4, <1>6
  <2>3. kept \in Seq(T) /\ Len(kept) = (IF from <= n THEN n - from + 1 ELSE 0)
        /\ \A i \in 1..(n - from + 1) : kept[i] = ws[from + i - 1]
    BY <1>7, <2>1, <2>2, SubSeqProperties
  <2> QED BY <2>2, <2>3, LenProperties
<1>9. ASSUME NEW i \in 1..m PROVE Reverse(kept)[i] = ws[n - i + 1]
  <2>1. (m - i) + 1 \in 1..m /\ from + ((m - i) + 1) - 1 = n - i + 1
    BY <1>2, <1>4, <1>6
  <2>2. Reverse(kept)[i] = kept[(m - i) + 1]
    BY <1>8 DEF Reverse
  <2>3. kept[(m - i) + 1] = ws[from + ((m - i) + 1) - 1]
    BY <1>8, <2>1
  <2> QED BY <2>1, <2>2, <2>3
<1>10. PICK b : b = BuildWindows(q, now)
  OBVIOUS
<1>11. b = [i \in DOMAIN kept |-> Shape(Reverse(kept)[i], now)]
  <2>1. BuildWindows(q, now) = LET w == FoldLeft(TakeRow, <<>>, q)
                                   k == SubSeq(w, IF Len(w) > WindowLimit THEN Len(w) - WindowLimit + 1 ELSE 1, Len(w))
                               IN  [i \in DOMAIN k |-> Shape(Reverse(k)[i], now)]
    BY DEF BuildWindows
  <2> QED BY <1>1, <1>5, <1>7, <1>10, <2>1
<1>12. DOMAIN b = 1..m /\ \A i \in 1..m : b[i] = Shape(ws[n - i + 1], now)
  BY <1>8, <1>9, <1>11
<1>13. Len(b) = m
  <2>1. b \in [1..m -> {b[i] : i \in 1..m}]
    BY <1>11, <1>12
  <2> QED BY <1>4, <2>1
<1> QED BY <1>1, <1>3, <1>4, <1>10, <1>12, <1>13

(* What it says is what it ought to say.                                            *)
Said(w) == [start |-> w.start, count |-> w.count, stop |-> w.stop]

LEMMA WindowSays ==
  ASSUME NEW S, NEW o \in Seq(S), Timed(o), InTime(o), NEW w, NEW lo, NEW hi, Window(w, o, Len(o), lo, hi)
  PROVE  AsWindow(RowsBetween(o, lo, hi)) = Said(Shape(w, clock))
<1>1. Len(o) \in Nat /\ lo \in 1..Len(o) /\ hi \in lo..Len(o)
  BY LenProperties DEF Window, IsPeriod
<1>2. PICK k : k = RowsBetween(o, lo, hi)
  OBVIOUS
<1>3. EarliestIn(k) = o[lo].at /\ LatestIn(k) = o[hi].at /\ Cardinality(k) = hi - lo + 1
  BY <1>1, <1>2, RowsAsWindow
<1>4. w.start = o[lo].at /\ w.last = o[hi].at /\ w.count = hi - lo + 1
  BY DEF Window, Tells
<1> QED BY <1>2, <1>3, <1>4 DEF AsWindow, Said, Shape

(* A window begins no later than it ends.                                           *)
LEMMA WindowForward ==
  ASSUME NEW o, Timed(o), Len(o) \in Nat, NEW w, NEW lo, NEW hi, Window(w, o, Len(o), lo, hi)
  PROVE  w.start \in Nat /\ w.last \in Nat /\ w.start <= w.last
<1>1. lo \in 1..Len(o) /\ hi \in 1..Len(o) /\ lo <= hi
  BY DEF Window, IsPeriod
<1> QED BY <1>1 DEF Window, Tells, Timed

(* Rows in the order of time are.                                                   *)
LEMMA InTimeTimed ==
  ASSUME NEW S, \A c \in S : c.at \in Nat, NEW o \in Seq(S), InTime(o)
  PROVE  Timed(o)
<1>1. Len(o) \in Nat /\ \A i \in 1..Len(o) : o[i].at \in Nat
  BY LenProperties, ElementOfSeq
<1>2. ASSUME NEW i \in 1..Len(o), NEW j \in 1..Len(o), i <= j PROVE o[i].at <= o[j].at
  <2>1. CASE i < j
    BY <2>1 DEF InTime
  <2>2. CASE ~(i < j)
    <3>1. i = j
      BY <1>1, <1>2, <2>2
    <3> QED BY <1>1, <3>1
  <2> QED BY <2>1, <2>2
<1> QED BY <1>1, <1>2 DEF Timed

(* The windows kept are of the periods, and the newest of them.                     *)
Told(page) == {Said(w) : w \in Range(page)}
Due(o)     == {AsWindow(k) : k \in Periods(Range(o))}

PeriodWith(o, c) == {d \in Range(o) : Together(Range(o), c, d)}

AreNewest(page, told, due) ==
  /\ told \subseteq due
  /\ \A i, j \in DOMAIN page : i < j => page[j].start < page[i].start
  /\ \A k \in due \ told : Len(page) = WindowLimit /\ \A w \in told : k.start < w.start

LEMMA PeriodsShown ==
  ASSUME NEW S, \A c \in S : c.at \in Nat, NEW o \in Seq(S), InTime(o)
  PROVE  AreNewest(BuildWindows(o, clock), Told(BuildWindows(o, clock)), Due(o))
<1> DEFINE page == BuildWindows(o, clock)
           told == Told(page)
           due  == Due(o)
<1>0. /\ told = {Said(w) : w \in Range(page)}
      /\ \A c \in Range(o) : AsWindow(PeriodWith(o, c)) \in due
      /\ \A k \in due : \E c \in Range(o) : k = AsWindow(PeriodWith(o, c))
  BY DEF Told, Due, Periods, PeriodWith
<1>1. PICK ws : ws = FoldLeft(TakeRow, <<>>, o)
  OBVIOUS
<1>2. PICK n : n = Len(o)
  OBVIOUS
<1>3. Timed(o) /\ n \in Nat /\ DOMAIN o = 1..n
  BY <1>2, InTimeTimed, LenProperties
<1>4. ws \in Seq(WindowOf(S)) /\ IsSplit(ws, o, n) /\ Len(ws) \in Nat
  BY <1>1, <1>2, <1>3, WindowsSplit, LenProperties
<1>5. PICK m : m = Kept(ws)
  OBVIOUS
<1>6. PICK z : z = Len(ws)
  OBVIOUS
<1>7. /\ m \in 0..z /\ DOMAIN page = 1..m /\ Len(page) = m
      /\ \A i \in 1..m : page[i] = Shape(ws[z - i + 1], clock)
  BY <1>1, <1>4, <1>5, <1>6, WindowsBuilt
<1> HIDE DEF page, told, due
<1>8. \A j \in 1..z : \E lo \in 1..n, hi \in 1..n : Window(ws[j], o, n, lo, hi)
  BY <1>4, <1>6 DEF IsSplit, IsWindow
<1>9. ASSUME NEW i \in 1..m
      PROVE  z - i + 1 \in 1..z /\ page[i].start = ws[z - i + 1].start /\ Said(page[i]) \in told
  <2>1. z - i + 1 \in 1..z
    BY <1>4, <1>6, <1>7
  <2>2. page[i] \in Range(page)
    BY <1>7 DEF Range
  <2> QED BY <1>0, <1>7, <2>1, <2>2 DEF Shape
<1>10. \A t \in told : \E i \in 1..m : t = Said(page[i])
  BY <1>0, <1>7 DEF Range
<1>11. \A j \in 1..z : ws[j].start \in Nat /\ ws[j].last \in Nat /\ ws[j].start <= ws[j].last
  <2> TAKE j \in 1..z
  <2>1. PICK lo \in 1..n, hi \in 1..n : Window(ws[j], o, n, lo, hi)
    BY <1>8
  <2> QED BY <1>2, <1>3, <2>1, WindowForward
<1>12. \A i, j \in 1..z : i < j => ws[i].start < ws[j].start
  <2> SUFFICES ASSUME NEW i \in 1..z, NEW j \in 1..z, i < j PROVE ws[i].start < ws[j].start
    OBVIOUS
  <2>1. ws[i].last < ws[j].start
    BY <1>4, <1>6 DEF IsSplit
  <2> QED BY <1>11, <2>1
<1>13. ASSUME NEW j \in 1..z, NEW lo, NEW hi, Window(ws[j], o, n, lo, hi), NEW p \in lo..hi
       PROVE  AsWindow(PeriodWith(o, o[p])) = Said(Shape(ws[j], clock))
  <2>1. PeriodWith(o, o[p]) = RowsBetween(o, lo, hi)
    BY <1>2, <1>3, <1>13, PeriodOfRow DEF Window, PeriodWith
  <2>2. AsWindow(RowsBetween(o, lo, hi)) = Said(Shape(ws[j], clock))
    BY <1>2, <1>3, <1>13, WindowSays
  <2> QED BY <2>1, <2>2
<1>14. told \subseteq due
  <2> SUFFICES ASSUME NEW t \in told PROVE t \in due
    OBVIOUS
  <2>1. PICK i \in 1..m : t = Said(page[i])
    BY <1>10
  <2>2. PICK j : j = z - i + 1
    OBVIOUS
  <2>3. j \in 1..z /\ page[i] = Shape(ws[j], clock)
    BY <1>7, <1>9, <2>2
  <2>4. PICK lo \in 1..n, hi \in 1..n : Window(ws[j], o, n, lo, hi)
    BY <1>8, <2>3
  <2>5. lo \in lo..hi
    BY <2>4 DEF Window, IsPeriod
  <2>6. AsWindow(PeriodWith(o, o[lo])) = t
    BY <1>13, <2>1, <2>3, <2>4, <2>5
  <2>7. o[lo] \in Range(o)
    BY <1>3 DEF Range
  <2> QED BY <1>0, <2>6, <2>7
<1>15. ASSUME NEW i \in 1..m, NEW j \in 1..m, i < j PROVE page[j].start < page[i].start
  <2>1. z - j + 1 < z - i + 1
    BY <1>4, <1>6, <1>7, <1>15
  <2> QED BY <1>9, <1>12, <2>1
<1>16. ASSUME NEW k \in due, k \notin told PROVE Len(page) = WindowLimit /\ \A w \in told : k.start < w.start
  <2>1. PICK c \in Range(o) : k = AsWindow(PeriodWith(o, c))
    BY <1>0
  <2>2. PICK p \in 1..n : c = o[p]
    BY <1>3 DEF Range
  <2>3. PICK j \in 1..z : InWindow(ws[j], o, n, p)
    BY <1>4, <1>6 DEF IsSplit
  <2>4. PICK lo \in 1..n, hi \in 1..n : Window(ws[j], o, n, lo, hi) /\ lo <= p /\ p <= hi
    BY <2>3 DEF InWindow
  <2>5. p \in lo..hi
    BY <1>3, <2>4
  <2>6. k = Said(Shape(ws[j], clock)) /\ k.start = ws[j].start
    <3>1. k = Said(Shape(ws[j], clock))
      BY <1>13, <2>1, <2>2, <2>4, <2>5
    <3> QED BY <3>1 DEF Said, Shape
  <2>7. ~(j >= z - m + 1)
    <3>1. SUFFICES ASSUME j >= z - m + 1 PROVE FALSE
      OBVIOUS
    <3>2. PICK i : i = z - j + 1
      OBVIOUS
    <3>3. i \in 1..m /\ z - i + 1 = j
      BY <1>4, <1>6, <1>7, <3>1, <3>2
    <3> QED BY <1>7, <1>9, <1>16, <2>6, <3>3
  <2>8. j < z - m + 1 /\ m < z
    BY <1>4, <1>6, <1>7, <2>7
  <2>9. m = WindowLimit
    BY <1>5, <1>6, <2>8 DEF Kept
  <2>10. ASSUME NEW w \in told PROVE k.start < w.start
    <3>1. PICK i \in 1..m : w = Said(page[i])
      BY <1>10
    <3>2. w.start = ws[z - i + 1].start
      BY <1>9, <3>1 DEF Said
    <3>3. j < z - i + 1
      BY <1>4, <1>6, <1>7, <2>8
    <3> QED BY <1>9, <1>12, <2>6, <3>2, <3>3
  <2> QED BY <1>7, <2>9, <2>10
<1> QED BY <1>7, <1>14, <1>15, <1>16 DEF AreNewest, page, told, due

(* Connections can be told apart.                                                   *)
LEMMA ConnsSortable == ConnsInv => \A p, lo, hi : Sortable(ConnsOf(p, lo, hi))
<1> SUFFICES ASSUME ConnsInv, NEW p, NEW lo, NEW hi PROVE Sortable(ConnsOf(p, lo, hi))
  OBVIOUS
<1>1. ConnsOf(p, lo, hi) \subseteq conns
  BY DEF ConnsOf
<1>2. IsFiniteSet(ConnsOf(p, lo, hi))
  BY <1>1, FS_Subset DEF ConnsInv
<1> QED BY <1>1, <1>2 DEF Sortable, ConnsInv, LoginIsOfOne

(* The windows a username query shows are the periods of activity of the rows it    *)
(* read, for any number of rows and any limits.                                     *)
THEOREM ActivityIsShown == TimelineSpec => []WindowsAreActivity
<1>1. TimelineInv => WindowsAreActivity
  <2> SUFFICES ASSUME ConnsInv, NEW p \in Users, NEW hi \in {clock - 1, clock}
               PROVE  LET S    == Range(Oldest(ConnsOf(p, 0, hi), RowLimit))
                          ws   == UsernameQuery(p, 0, hi)
                          told == {[start |-> w.start, count |-> w.count, stop |-> w.stop] : w \in Range(ws)}
                          due  == {AsWindow(k) : k \in Periods(S)}
                      IN  /\ told \subseteq due
                          /\ \A i, j \in DOMAIN ws : i < j => ws[j].start < ws[i].start
                          /\ \A k \in due \ told : Len(ws) = WindowLimit /\ \A w \in told : k.start < w.start
    BY DEF TimelineInv, WindowsAreActivity
  <2>1. PICK S : S = ConnsOf(p, 0, hi)
    OBVIOUS
  <2>2. PICK o : o = Oldest(S, RowLimit)
    OBVIOUS
  <2>3. Sortable(S) /\ RowLimit \in Nat \ {0}
    BY <2>1, ConnsSortable, TimelineAssumption
  <2>4. o \in Seq(S) /\ InTime(o) /\ \A c \in S : c.at \in Nat
    BY <2>2, <2>3, OldestOf DEF Sortable, Connection
  <2>5. PICK page : page = BuildWindows(o, clock)
    OBVIOUS
  <2>6. UsernameQuery(p, 0, hi) = page
    BY <2>1, <2>2, <2>5 DEF UsernameQuery
  <2>7. AreNewest(page, Told(page), Due(o))
    BY <2>4, <2>5, PeriodsShown
  <2>8. Told(page) = {[start |-> w.start, count |-> w.count, stop |-> w.stop] : w \in Range(page)}
    BY DEF Said, Told
  <2> QED BY <2>1, <2>2, <2>6, <2>7, <2>8 DEF AreNewest, Due
<1> QED BY <1>1, TimelineInvariance, PTL

-----------------------------------------------------------------------------
(* What is shown, and where.                                                        *)

(* A window shows connections of its rows, and all of them if they are few.         *)
LEMMA WindowShows ==
  ASSUME NEW S, NEW o \in Seq(S), Timed(o), NEW w \in WindowOf(S), NEW lo, NEW hi, Window(w, o, Len(o), lo, hi)
  PROVE  /\ \A x \in Range(w.conns) : x \in S /\ x.at \in Nat /\ w.start <= x.at /\ x.at <= w.last
         /\ Len(o) <= ConnsShown => \A p \in lo..hi : o[p] \in Range(w.conns)
<1>1. /\ Len(o) \in Nat /\ lo \in 1..Len(o) /\ hi \in lo..Len(o) /\ ConnsShown \in Nat
  BY LenProperties, TimelineAssumption DEF Window, IsPeriod
<1>2. PICK n : n = Len(w.conns)
  OBVIOUS
<1>3. n = (IF hi - lo + 1 < ConnsShown THEN hi - lo + 1 ELSE ConnsShown) /\ \A m \in 1..n : w.conns[m] = o[lo + m - 1]
  BY <1>2 DEF Window, Tells
<1>4. DOMAIN w.conns = 1..n
  <2>1. w.conns \in Seq(S)
    BY DEF WindowOf
  <2> QED BY <1>2, <2>1, LenProperties
<1>5. w.start = o[lo].at /\ w.last = o[hi].at
  BY DEF Window, Tells
<1>6. ASSUME NEW x \in Range(w.conns) PROVE x \in S /\ x.at \in Nat /\ w.start <= x.at /\ x.at <= w.last
  <2>1. PICK m \in 1..n : x = o[lo + m - 1]
    BY <1>3, <1>4 DEF Range
  <2>2. PICK p : p = lo + m - 1
    OBVIOUS
  <2>3. n <= hi - lo + 1 /\ n \in Nat
    BY <1>1, <1>3
  <2>4. p \in lo..hi /\ p \in 1..Len(o) /\ lo \in 1..Len(o) /\ hi \in 1..Len(o) /\ lo <= p /\ p <= hi
    BY <1>1, <2>2, <2>3
  <2>5. o[p] \in S
    BY <2>4, ElementOfSeq
  <2> QED BY <1>5, <2>1, <2>2, <2>4, <2>5 DEF Timed
<1>7. ASSUME Len(o) <= ConnsShown, NEW p \in lo..hi PROVE o[p] \in Range(w.conns)
  <2>1. PICK m : m = p - lo + 1
    OBVIOUS
  <2>2. m \in 1..n /\ lo + m - 1 = p
    BY <1>1, <1>3, <1>7, <2>1
  <2>3. w.conns[m] = o[p]
    BY <1>3, <2>2
  <2> QED BY <1>4, <2>2, <2>3 DEF Range
<1> QED BY <1>6, <1>7

(* Windows show connections they are made of, none of them twice, and all of them   *)
(* if no limit is reached.                                                          *)
ShowsOnce(page, S) ==
  /\ \A e \in Range(page) : Range(e.conns) \subseteq S
  /\ \A e, f \in Range(page) : e # f => Range(e.conns) \cap Range(f.conns) = {}

ShowsAll(page, S) == \A c \in S : \E e \in Range(page) : c \in Range(e.conns)

LEMMA PageShows ==
  ASSUME NEW S, Sortable(S), NEW o, o = Oldest(S, RowLimit), NEW now, NEW page, page = BuildWindows(o, now)
  PROVE  /\ ShowsOnce(page, S) /\ Len(page) \in Nat
         /\ Cardinality(S) <= ConnsShown /\ Len(page) < WindowLimit => ShowsAll(page, S)
<1>1. ConnsShown \in Nat /\ RowLimit \in Nat \ {0} /\ WindowLimit \in Nat \ {0} /\ ConnsShown <= RowLimit
  BY TimelineAssumption
<1>2. /\ o \in Seq(S) /\ InTime(o) /\ Len(o) <= Cardinality(S)
      /\ Cardinality(S) <= RowLimit => \A c \in S : \E i \in 1..Len(o) : o[i] = c
  BY <1>1, OldestOf
<1>3. \A c \in S : c.at \in Nat
  BY DEF Sortable, Connection
<1>4. PICK ws : ws = FoldLeft(TakeRow, <<>>, o)
  OBVIOUS
<1>5. PICK n : n = Len(o)
  OBVIOUS
<1>6. Timed(o) /\ n \in Nat
  BY <1>2, <1>3, <1>5, InTimeTimed, LenProperties
<1>7. ws \in Seq(WindowOf(S)) /\ IsSplit(ws, o, n) /\ Len(ws) \in Nat
  BY <1>2, <1>3, <1>4, <1>5, <1>6, WindowsSplit, LenProperties
<1>8. PICK m : m = Kept(ws)
  OBVIOUS
<1>9. PICK z : z = Len(ws)
  OBVIOUS
<1>10. /\ m \in 0..z /\ DOMAIN page = 1..m /\ Len(page) = m
       /\ \A i \in 1..m : page[i] = Shape(ws[z - i + 1], now)
  BY <1>4, <1>7, <1>8, <1>9, WindowsBuilt
<1>11. ASSUME NEW j \in 1..z
       PROVE  /\ ws[j].start \in Nat /\ ws[j].last \in Nat
              /\ \A x \in Range(ws[j].conns) : x \in S /\ x.at \in Nat /\ ws[j].start <= x.at /\ x.at <= ws[j].last
  <2>1. PICK lo \in 1..n, hi \in 1..n : Window(ws[j], o, n, lo, hi)
    BY <1>7, <1>9 DEF IsSplit, IsWindow
  <2>2. ws[j] \in WindowOf(S)
    BY <1>7, <1>9, ElementOfSeq
  <2>3. ws[j].start \in Nat /\ ws[j].last \in Nat
    BY <1>5, <1>6, <2>1, WindowForward
  <2>4. \A x \in Range(ws[j].conns) : x \in S /\ x.at \in Nat /\ ws[j].start <= x.at /\ x.at <= ws[j].last
    BY <1>2, <1>5, <1>6, <2>1, <2>2, WindowShows
  <2> QED BY <2>3, <2>4
<1>12. ASSUME NEW e \in Range(page) PROVE \E j \in 1..z : e = Shape(ws[j], now) /\ e.conns = ws[j].conns
  <2>1. PICK i \in 1..m : e = page[i]
    BY <1>10 DEF Range
  <2>2. PICK j : j = z - i + 1
    OBVIOUS
  <2>3. j \in 1..z /\ e = Shape(ws[j], now)
    BY <1>7, <1>9, <1>10, <2>1, <2>2
  <2> QED BY <2>3 DEF Shape
<1>13. ASSUME NEW i \in 1..z, NEW j \in 1..z, i < j, NEW x \in Range(ws[i].conns) PROVE x \notin Range(ws[j].conns)
  <2>1. ws[i].last < ws[j].start
    BY <1>7, <1>9, <1>13 DEF IsSplit
  <2>2. x.at \in Nat /\ x.at <= ws[i].last /\ ws[i].last \in Nat /\ ws[j].start \in Nat
    BY <1>11
  <2>3. x \in Range(ws[j].conns) => ws[j].start <= x.at
    BY <1>11
  <2> QED BY <2>1, <2>2, <2>3
<1>14. ShowsOnce(page, S)
  <2>1. ASSUME NEW e \in Range(page) PROVE Range(e.conns) \subseteq S
    BY <1>11, <1>12
  <2>2. ASSUME NEW e \in Range(page), NEW f \in Range(page), e # f PROVE Range(e.conns) \cap Range(f.conns) = {}
    <3>1. PICK i \in 1..z : e = Shape(ws[i], now) /\ e.conns = ws[i].conns
      BY <1>12
    <3>2. PICK j \in 1..z : f = Shape(ws[j], now) /\ f.conns = ws[j].conns
      BY <1>12
    <3>3. i # j
      BY <2>2, <3>1, <3>2
    <3>4. i < j \/ j < i
      BY <1>7, <1>9, <3>3
    <3> QED BY <1>13, <3>1, <3>2, <3>4
  <2> QED BY <2>1, <2>2 DEF ShowsOnce
<1>15. ASSUME Cardinality(S) <= ConnsShown, Len(page) < WindowLimit, NEW c \in S
       PROVE  \E e \in Range(page) : c \in Range(e.conns)
  <2>1. Cardinality(S) \in Nat
    BY FS_CardinalityType DEF Sortable
  <2>2. Cardinality(S) <= RowLimit /\ Len(o) <= ConnsShown
    BY <1>1, <1>2, <1>5, <1>6, <1>15, <2>1
  <2>3. PICK p \in 1..n : o[p] = c
    BY <1>2, <1>5, <2>2
  <2>4. PICK j \in 1..z : InWindow(ws[j], o, n, p)
    BY <1>7, <1>9 DEF IsSplit
  <2>5. PICK lo \in 1..n, hi \in 1..n : Window(ws[j], o, n, lo, hi) /\ lo <= p /\ p <= hi
    BY <2>4 DEF InWindow
  <2>6. p \in lo..hi
    BY <1>6, <2>5
  <2>7. ws[j] \in WindowOf(S)
    BY <1>7, <1>9, ElementOfSeq
  <2>8. c \in Range(ws[j].conns)
    BY <1>2, <1>5, <1>6, <2>2, <2>3, <2>5, <2>6, <2>7, WindowShows
  <2>9. m = z
    BY <1>1, <1>7, <1>8, <1>9, <1>10, <1>15 DEF Kept
  <2>10. PICK i : i = z - j + 1
    OBVIOUS
  <2>11. i \in 1..m /\ z - i + 1 = j
    BY <1>7, <1>9, <2>9, <2>10
  <2>12. page[i] \in Range(page) /\ page[i] = Shape(ws[j], now)
    BY <1>10, <2>11 DEF Range
  <2>13. page[i].conns = ws[j].conns
    BY <2>12 DEF Shape
  <2> QED BY <2>8, <2>12, <2>13
<1>16. Len(page) \in Nat
  BY <1>7, <1>9, <1>10
<1> QED BY <1>14, <1>15, <1>16 DEF ShowsAll

(* The connections of a session: those of the user from its start to its last poll, *)
(* or to now.                                                                       *)
LEMMA SessionShows ==
  ASSUME ConnsInv, NEW p, NEW r
  PROVE  /\ \A c \in Range(SessionEntry(p, r).conns) :
              c \in ConnsOf(p, r.start, IF IsOpen(r) THEN clock ELSE r.stop)
         /\ Cardinality(ConnsOf(p, r.start, IF IsOpen(r) THEN clock ELSE r.stop)) <= ConnsShown =>
              \A c \in ConnsOf(p, r.start, IF IsOpen(r) THEN clock ELSE r.stop) : c \in Range(SessionEntry(p, r).conns)
<1>1. PICK S : S = ConnsOf(p, r.start, IF IsOpen(r) THEN clock ELSE r.stop)
  OBVIOUS
<1>2. PICK o : o = Oldest(S, ConnsShown)
  OBVIOUS
<1>3. Sortable(S) /\ ConnsShown \in Nat \ {0}
  BY <1>1, ConnsSortable, TimelineAssumption
<1>4. /\ o \in Seq(S)
      /\ Cardinality(S) <= ConnsShown => \A c \in S : \E i \in 1..Len(o) : o[i] = c
  BY <1>2, <1>3, OldestOf
<1>5. SessionEntry(p, r).conns = o
  BY <1>1, <1>2 DEF SessionEntry
<1>6. DOMAIN o = 1..Len(o) /\ \A i \in 1..Len(o) : o[i] \in S
  BY <1>4, LenProperties, ElementOfSeq
<1>7. \A c \in Range(o) : c \in S
  BY <1>6 DEF Range
<1>8. Cardinality(S) <= ConnsShown => \A c \in S : c \in Range(o)
  BY <1>4, <1>6 DEF Range
<1> QED BY <1>1, <1>5, <1>7, <1>8

(* A connection falls into one recorded session of its user at most.                *)
LEMMA InOneSession ==
  ASSUME HistoryInv, ConnsInv, NEW u, Plain(u), NEW c, NEW r \in SessionsListed(u), NEW s \in SessionsListed(u),
         c \in ConnsOf(u, r.start, IF IsOpen(r) THEN clock ELSE r.stop),
         c \in ConnsOf(u, s.start, IF IsOpen(s) THEN clock ELSE s.stop)
  PROVE  r = s
<1>1. r \in rows /\ s \in rows /\ r.user = s.user
  BY DEF SessionsListed, Plain
<1>2. ASSUME NEW q \in rows PROVE q.start \in Nat /\ q.seen \in Nat /\ (~IsOpen(q) => q.stop = q.seen)
  BY DEF HistoryInv, TypeInv, TypeOK, Row, Time, StopIsLastConfirmed
<1>3. c.at \in Nat /\ r.start <= c.at /\ s.start <= c.at
  BY DEF ConnsOf, ConnsInv, Connection
<1>4. (~IsOpen(r) => c.at <= r.seen) /\ (~IsOpen(s) => c.at <= s.seen)
  BY <1>1, <1>2 DEF ConnsOf
<1>5. SUFFICES ASSUME r # s PROVE FALSE
  OBVIOUS
<1>6. (IsOpen(r) => s.seen < r.start) /\ (IsOpen(s) => r.seen < s.start)
  BY <1>1, <1>5 DEF HistoryInv, OpenIsLatest
<1>7. r.seen < s.start \/ s.seen < r.start
  BY <1>1, <1>5 DEF HistoryInv, SessionsDisjoint
<1>8. r.start <= r.seen /\ s.start <= s.seen
  BY <1>1 DEF HistoryInv, StopIsLastConfirmed
<1> QED BY <1>1, <1>2, <1>3, <1>4, <1>6, <1>7, <1>8

(* What was made before polling began falls into no session.                        *)
LEMMA InSessionOrBefore ==
  ASSUME SinceInv, TypeInv, ConnsInv, NEW u, since # Null, NEW c, c \in BeforePolling(u), NEW r \in SessionsListed(u)
  PROVE  c \notin ConnsOf(u, r.start, IF IsOpen(r) THEN clock ELSE r.stop)
<1>1. since \in Nat /\ since <= r.start /\ r \in rows
  BY DEF SinceInv, SessionsListed
<1>2. c.at \in Nat /\ c.at <= since - 1
  BY DEF BeforePolling, ConnsOf, ConnsInv, Connection
<1>3. r.start \in Nat
  BY <1>1 DEF TypeInv, TypeOK, Row, Time
<1> QED BY <1>1, <1>2, <1>3 DEF ConnsOf

(* The windows before polling.                                                      *)
LEMMA BeforeShows ==
  ASSUME ConnsInv, NEW u
  PROVE  /\ \A e \in Range(Reconstructed(u)) : since # Null
         /\ ShowsOnce(Reconstructed(u), BeforePolling(u)) /\ Len(Reconstructed(u)) \in Nat
         /\ since # Null /\ Cardinality(BeforePolling(u)) <= ConnsShown /\ Len(Reconstructed(u)) < WindowLimit
              => ShowsAll(Reconstructed(u), BeforePolling(u))
<1>1. CASE since = Null
  <2>1. Reconstructed(u) = <<>> /\ Range(<<>>) = {} /\ Len(<<>>) = 0
    BY <1>1 DEF Reconstructed, Range
  <2> QED BY <1>1, <2>1 DEF ShowsOnce
<1>2. CASE since # Null
  <2>1. PICK S : S = BeforePolling(u)
    OBVIOUS
  <2>2. PICK o : o = Oldest(S, RowLimit)
    OBVIOUS
  <2>3. Sortable(S)
    BY <2>1, ConnsSortable DEF BeforePolling
  <2>4. Reconstructed(u) = BuildWindows(o, since)
    BY <1>2, <2>1, <2>2 DEF Reconstructed
  <2> QED BY <1>2, <2>1, <2>2, <2>3, <2>4, PageShows
<1> QED BY <1>1, <1>2

(* A set whose elements are all the same.                                           *)
LEMMA AtMostOneElement ==
  ASSUME NEW S, \A x, y \in S : x = y
  PROVE  Cardinality(S) <= 1 /\ (S # {} => Cardinality(S) = 1)
<1>1. CASE S = {}
  BY <1>1, FS_EmptySet
<1>2. CASE S # {}
  <2>1. PICK x : x \in S
    BY <1>2
  <2>2. S = {x}
    BY <2>1
  <2> QED BY <2>2, FS_Singleton
<1> QED BY <1>1, <1>2

(* No two entries of the timeline show one connection.                              *)
LEMMA ShownAtMostOnce ==
  ASSUME TimelineInv, NEW c \in conns, Plain(c.user)
  PROVE  \A e, f \in EntriesShowing(c) : e = f
<1>1. HistoryInv /\ ConnsInv /\ SinceInv /\ TypeInv
  BY DEF TimelineInv, SessionInv, HistoryInv
<1>2. PICK u : u = c.user
  OBVIOUS
<1>3. Plain(u)
  BY <1>2
<1> DEFINE Held(r) == ConnsOf(u, r.start, IF IsOpen(r) THEN clock ELSE r.stop)
<1>4. ASSUME NEW e \in EntriesShowing(c)
      PROVE  \/ \E r \in SessionsListed(u) : e = SessionEntry(u, r) /\ c \in Held(r)
             \/ e \in Range(Reconstructed(u)) /\ c \in Range(e.conns) /\ c \in BeforePolling(u) /\ since # Null
  <2>1. c \in Range(e.conns) /\ (e \in Range(Reconstructed(u)) \/ \E r \in SessionsListed(u) : e = SessionEntry(u, r))
    BY <1>2 DEF EntriesShowing, SubscriberTimeline
  <2>2. ASSUME NEW r \in SessionsListed(u), e = SessionEntry(u, r) PROVE c \in Held(r)
    BY <1>1, <2>1, <2>2, SessionShows
  <2>3. ASSUME e \in Range(Reconstructed(u)) PROVE c \in BeforePolling(u) /\ since # Null
    BY <1>1, <2>1, <2>3, BeforeShows DEF ShowsOnce
  <2> QED BY <2>1, <2>2, <2>3
<1>5. ASSUME NEW r \in SessionsListed(u), NEW s \in SessionsListed(u), c \in Held(r), c \in Held(s) PROVE r = s
  BY <1>1, <1>3, <1>5, InOneSession
<1>6. ASSUME NEW r \in SessionsListed(u), c \in BeforePolling(u), since # Null PROVE c \notin Held(r)
  BY <1>1, <1>6, InSessionOrBefore
<1>7. \A e, f \in Range(Reconstructed(u)) : c \in Range(e.conns) /\ c \in Range(f.conns) => e = f
  BY <1>1, BeforeShows DEF ShowsOnce
<1> HIDE DEF Held
<1> QED BY <1>4, <1>5, <1>6, <1>7

(* With no limit reached, what was made before polling or between polls that heard  *)
(* of its session is shown.                                                         *)
LEMMA ShownIfKnown ==
  ASSUME TimelineInv, NEW c \in conns, Plain(c.user), Exclusive(c.user), since # Null,
         c.at < since \/ Confirmed(c),
         Cardinality(ConnsOf(c.user, 0, clock)) <= ConnsShown,
         Cardinality({r \in rows : r.user = c.user}) <= SessionLimit,
         Len(Reconstructed(c.user)) < WindowLimit
  PROVE  EntriesShowing(c) # {}
<1>1. HistoryInv /\ ConnsInv /\ SinceInv /\ TypeInv /\ HeardIsRecorded /\ UserRowsFinite
  BY DEF TimelineInv, SessionInv, HistoryInv, HeardInv
<1>2. PICK u : u = c.user
  OBVIOUS
<1>3. \A d \in conns : d.at \in Nat /\ d.at <= clock
  BY <1>1 DEF ConnsInv, Connection
<1>4. clock \in Nat /\ ConnsShown \in Nat /\ SessionLimit \in Nat
  BY <1>1, TimelineAssumption DEF TypeInv, TypeOK, Time
<1>5. ASSUME NEW lo, NEW hi PROVE Cardinality(ConnsOf(u, lo, hi)) <= ConnsShown
  <2>1. ConnsOf(u, lo, hi) \subseteq ConnsOf(u, 0, clock)
    BY <1>3 DEF ConnsOf
  <2>2. IsFiniteSet(ConnsOf(u, 0, clock))
    BY <1>1, ConnsSortable DEF Sortable
  <2>3. /\ Cardinality(ConnsOf(u, lo, hi)) <= Cardinality(ConnsOf(u, 0, clock))
        /\ IsFiniteSet(ConnsOf(u, lo, hi))
    BY <2>1, <2>2, FS_Subset
  <2>4. Cardinality(ConnsOf(u, lo, hi)) \in Nat /\ Cardinality(ConnsOf(u, 0, clock)) \in Nat
    BY <2>2, <2>3, FS_CardinalityType
  <2> QED BY <1>2, <1>4, <2>3, <2>4
<1>6. u \in Matching(u) /\ Matching(u) = {u}
  BY <1>2 DEF Plain
<1>7. CASE c.at < since
  <2>1. since \in Nat
    BY <1>1 DEF SinceInv
  <2>2. c \in BeforePolling(u)
    BY <1>2, <1>3, <1>6, <1>7, <2>1 DEF BeforePolling, ConnsOf
  <2>3. Cardinality(BeforePolling(u)) <= ConnsShown
    BY <1>5 DEF BeforePolling
  <2>4. \E e \in Range(Reconstructed(u)) : c \in Range(e.conns)
    BY <1>1, <1>2, <2>2, <2>3, BeforeShows DEF ShowsAll
  <2> QED BY <1>2, <2>4 DEF EntriesShowing, SubscriberTimeline
<1>8. CASE Confirmed(c)
  <2>1. PICK e \in polls, f \in polls : /\ e.user = u /\ e.rid = c.login /\ e.at <= c.at
                                        /\ f.user = u /\ f.rid = c.login /\ f.at >= c.at
    BY <1>2, <1>8 DEF Confirmed
  <2>2. PICK r \in rows : Covers(r, e) /\ Covers(r, f)
    BY <1>1, <1>2, <2>1 DEF HeardIsRecorded
  <2>3. r.user = u /\ r.start <= e.at /\ f.at <= r.seen
    BY <2>1, <2>2 DEF Covers
  <2>4. /\ r.start \in Nat /\ r.seen \in Nat /\ (~IsOpen(r) => r.stop = r.seen)
        /\ e.at \in Nat /\ f.at \in Nat /\ c.at \in Nat /\ c.at <= clock
    BY <1>1, <1>3 DEF HistoryInv, TypeOK, TypeInv, Row, Time, StopIsLastConfirmed, SinceInv
  <2>5. r.start <= c.at /\ (~IsOpen(r) => c.at <= r.stop)
    BY <2>1, <2>3, <2>4
  <2>6. c \in ConnsOf(u, r.start, IF IsOpen(r) THEN clock ELSE r.stop)
    BY <1>2, <1>6, <2>4, <2>5 DEF ConnsOf
  <2>7. c \in Range(SessionEntry(u, r).conns)
    BY <1>1, <1>5, <2>6, SessionShows
  <2>8. r \in SessionsListed(u)
    <3>1. PICK own : own = {s \in rows : s.user \in Matching(u)}
      OBVIOUS
    <3>2. own = RowsOf(u) /\ r \in own
      BY <1>6, <2>3, <3>1 DEF RowsOf
    <3>3. IsFiniteSet(own) /\ Cardinality(own) <= SessionLimit
      BY <1>1, <1>2, <3>2 DEF UserRowsFinite, RowsOf
    <3>4. PICK later : later = {s \in own : s.start > r.start}
      OBVIOUS
    <3>5. later \in SUBSET own /\ later # own
      BY <2>4, <3>2, <3>4
    <3>6. IsFiniteSet(later) /\ Cardinality(later) <= Cardinality(own) /\ Cardinality(later) # Cardinality(own)
      BY <3>3, <3>5, FS_Subset
    <3>7. Cardinality(later) \in Nat /\ Cardinality(own) \in Nat
      BY <3>3, <3>6, FS_CardinalityType
    <3>8. Cardinality({s \in own : s.start > r.start}) < SessionLimit
      BY <1>4, <3>3, <3>4, <3>6, <3>7
    <3> QED BY <3>1, <3>2, <3>8 DEF SessionsListed
  <2> QED BY <1>2, <2>7, <2>8 DEF EntriesShowing, SubscriberTimeline
<1> QED BY <1>7, <1>8

(* A connection of a user with a plain name and one session at a time is shown at   *)
(* most once, and is shown if it was made before polling began or between two polls *)
(* that heard of its session, as long as no limit of the page is reached: for any   *)
(* users, times and limits.                                                         *)
THEOREM EvidenceIsShownOnce == TimelineSpec => []EvidenceShownOnce
<1>1. TimelineInv => EvidenceShownOnce
  <2> SUFFICES ASSUME TimelineInv, NEW c \in conns, Plain(c.user), Exclusive(c.user)
               PROVE  /\ Cardinality(EntriesShowing(c)) <= 1
                      /\ since # Null /\ (c.at < since \/ Confirmed(c))
                         /\ ~(\/ Cardinality(ConnsOf(c.user, 0, clock)) > ConnsShown
                              \/ Cardinality({r \in rows : r.user = c.user}) > SessionLimit
                              \/ Len(Reconstructed(c.user)) >= WindowLimit)
                         => Cardinality(EntriesShowing(c)) = 1
    BY DEF EvidenceShownOnce
  <2>1. /\ Cardinality(EntriesShowing(c)) <= 1
        /\ EntriesShowing(c) # {} => Cardinality(EntriesShowing(c)) = 1
    BY ShownAtMostOnce, AtMostOneElement
  <2>2. ConnsInv /\ UserRowsFinite
    BY DEF TimelineInv
  <2>3. /\ Cardinality(ConnsOf(c.user, 0, clock)) \in Nat /\ ConnsShown \in Nat
        /\ Cardinality({r \in rows : r.user = c.user}) \in Nat /\ SessionLimit \in Nat
    BY <2>2, ConnsSortable, FS_CardinalityType, TimelineAssumption DEF Sortable, UserRowsFinite, RowsOf
  <2>4. Len(Reconstructed(c.user)) \in Nat /\ WindowLimit \in Nat
    BY <2>2, BeforeShows, TimelineAssumption
  <2> QED BY <2>1, <2>3, <2>4, ShownIfKnown
<1> QED BY <1>1, TimelineInvariance, PTL
=============================================================================
