-------------------------- MODULE DhcpLeasesProofs --------------------------
(* Theorems about DhcpLeases, for any number of pollers, MACs, addresses and *)
(* events.                                                                    *)
EXTENDS DhcpLeases, TLAPS

(* No statement of a poll deletes a lease row: the rows `stored` was read with *)
(* are there when the loop updates them.                                       *)
RowsKept == \A m \in MACs : stored[m] # NoRow => txLeases[m] # NoRow

TypeInv == TypeOK /\ RowsKept

LEMMA TypeInvInit == Init => TypeInv
  BY DhcpAssumption DEF Init, TypeInv, TypeOK, RowsKept, Leases, Time

(* The rows and intervals one turn of the loop writes are well typed.          *)
LEMMA ApplyEntryTypes ==
  ASSUME TypeInv, NEW p \in Pollers, NEW e \in todo[p],
         InsertLease(p, e) \/ UpdateLease(p, e)
  PROVE  /\ txLeases' \in Leases
         /\ txHist' \subseteq Interval
         /\ \A m \in MACs : stored[m] # NoRow => txLeases'[m] # NoRow
<1> USE DhcpAssumption
<1>1. e.mac \in MACs /\ e.ip \in IPs \cup {NoIp} /\ now[p] \in Nat
  BY DEF TypeInv, TypeOK, Entry, Time
<1>2. \A ip \in IPs \cup {NoIp}, t \in Nat : /\ [ip |-> ip, seen |-> t, active |-> TRUE] \in Row
                                             /\ [ip |-> ip, seen |-> t, active |-> TRUE] # NoRow
  <2>1. NoRow \notin Row
    BY DEF DhcpAssumption, Row, Time
  <2>2. \A ip \in IPs \cup {NoIp}, t \in Nat : [ip |-> ip, seen |-> t, active |-> TRUE] \in Row
    BY DEF Row, Time
  <2> QED BY <2>1, <2>2
<1>3. e.ip # NoIp => Open(e.mac, e.ip, now[p]) \in Interval
  BY <1>1 DEF Open, Interval, Time
<1>4. CASE InsertLease(p, e)
  BY <1>1, <1>2, <1>3, <1>4 DEF TypeInv, TypeOK, RowsKept, InsertLease, Leases
<1>5. CASE UpdateLease(p, e)
  <2> DEFINE new == [ip     |-> IF e.ip = NoIp THEN txLeases[e.mac].ip ELSE e.ip,
                     seen   |-> now[p],
                     active |-> TRUE]
  <2>1. txLeases[e.mac] \in Row
    BY <1>1, <1>5 DEF TypeInv, TypeOK, RowsKept, UpdateLease, Leases
  <2>2. new \in Row /\ new # NoRow
    BY <1>1, <1>2, <2>1 DEF Row
  <2>3. txLeases' = [txLeases EXCEPT ![e.mac] = new]
    BY <1>5 DEF UpdateLease, ChangeAddress
  <2>4. CloseOpen(txHist, e.mac, now[p]) \subseteq Interval
    BY <1>1 DEF TypeInv, TypeOK, CloseOpen, Interval, Time
  <2>5. txHist' \subseteq Interval
    BY <1>3, <1>5, <2>4 DEF TypeInv, TypeOK, UpdateLease, ChangeAddress
  <2> HIDE DEF new
  <2> QED BY <1>1, <2>2, <2>3, <2>5 DEF TypeInv, TypeOK, RowsKept, Leases
<1> QED BY <1>4, <1>5

LEMMA TypeInvNext == TypeInv /\ [Next]_vars => TypeInv'
<1> SUFFICES ASSUME TypeInv, [Next]_vars PROVE TypeInv'
  OBVIOUS
<1> USE DhcpAssumption DEF TypeInv
<1>1. ASSUME NEW s \in Servers, NEW m \in MACs, NEW ip \in IPs \cup {NoIp}, RouterLeases(s, m, ip)
      PROVE  TypeInv'
  BY <1>1 DEF TypeOK, RowsKept, RouterLeases, tables, tx, Time
<1>2. ASSUME NEW s \in Servers, NEW m \in MACs, RouterReleases(s, m)
      PROVE  TypeInv'
  BY <1>2 DEF TypeOK, RowsKept, RouterReleases, tables, tx, Time
<1>3. ASSUME NEW p \in Pollers, FetchLeases(p) PROVE TypeInv'
  BY <1>3 DEF TypeOK, RowsKept, FetchLeases, tables, tx
<1>4. ASSUME NEW p \in Pollers, StampNow(p) PROVE TypeInv'
  BY <1>4 DEF TypeOK, RowsKept, StampNow, tables, tx, Time
<1>5. ASSUME NEW p \in Pollers, BeginTx(p) PROVE TypeInv'
  BY <1>5 DEF TypeOK, RowsKept, BeginTx, tables
<1>6. ASSUME NEW p \in Pollers, ApplyEntry(p) PROVE TypeInv'
  <2>1. PICK e \in todo[p] : /\ InsertLease(p, e) \/ UpdateLease(p, e)
                             /\ todo' = [todo EXCEPT ![p] = @ \ {e}]
                             /\ seen' = seen \cup {e.mac}
    BY <1>6 DEF ApplyEntry
  <2>2. /\ txLeases' \in Leases
        /\ txHist' \subseteq Interval
        /\ \A m \in MACs : stored[m] # NoRow => txLeases'[m] # NoRow
    BY <2>1, ApplyEntryTypes
  <2>3. e.mac \in MACs
    BY <2>1 DEF TypeOK, Entry
  <2> QED BY <1>6, <2>1, <2>2, <2>3 DEF TypeOK, RowsKept, ApplyEntry, tables
<1>7. ASSUME NEW p \in Pollers, CommitTx(p) PROVE TypeInv'
  <2>1. MarkUnseen \in Leases
    <3> SUFFICES ASSUME NEW m \in MACs, txLeases[m] # NoRow
                 PROVE  [txLeases[m] EXCEPT !.active = FALSE] \in Row
      BY DEF MarkUnseen, TypeOK, Leases
    <3> QED BY DEF TypeOK, Leases, Row
  <2> QED BY <1>7, <2>1 DEF TypeOK, RowsKept, CommitTx
<1>8. ASSUME NEW p \in Pollers, Abort(p) PROVE TypeInv'
  BY <1>8 DEF TypeOK, RowsKept, Abort, tables, tx
<1>9. CASE UNCHANGED vars
  BY <1>9 DEF TypeOK, RowsKept, vars, tables, tx
<1> QED
  BY <1>1, <1>2, <1>3, <1>4, <1>5, <1>6, <1>7, <1>8, <1>9 DEF Next, Poll

LEMMA TypeInvariance == Spec => []TypeInv
  BY TypeInvInit, TypeInvNext, PTL DEF Spec

(* Every variable keeps its type: in particular no interval without an address *)
(* reaches the history, whose ip column is NOT NULL.                           *)
THEOREM TypeCorrect == Spec => []TypeOK
<1>1. TypeInv => TypeOK
  BY DEF TypeInv
<1> QED BY <1>1, TypeInvariance, PTL

-----------------------------------------------------------------------------
(* The history is append-only.                                                  *)

(* The transaction in progress has kept every committed interval so far.        *)
TxKeeps == lock # Null => Keeps(hist, txHist)

LEMMA KeepsReflexive == ASSUME NEW h PROVE Keeps(h, h)
  BY DEF Keeps

(* One turn of the loop keeps the intervals the transaction has: it adds some   *)
(* and closes some that are open.                                               *)
LEMMA ApplyEntryKeeps ==
  ASSUME TypeOK, NEW p \in Pollers, NEW e \in todo[p],
         InsertLease(p, e) \/ UpdateLease(p, e),
         Keeps(hist, txHist)
  PROVE  Keeps(hist, txHist')
<1> SUFFICES ASSUME NEW i \in hist
             PROVE  i \in txHist' \/ (i.to = Null /\ \E j \in txHist' : j = [i EXCEPT !.to = j.to])
  BY DEF Keeps
<1>1. i \in Interval /\ now[p] \in Nat
  BY DEF TypeOK, Time
<1>2. PICK k \in txHist : k = i \/ (i.to = Null /\ k = [i EXCEPT !.to = k.to])
  BY DEF Keeps
<1>3. CASE txHist \subseteq txHist'
  BY <1>2, <1>3
<1>4. CASE CloseOpen(txHist, e.mac, now[p]) \subseteq txHist'
  <2>1. CASE k.mac = e.mac /\ k.to = Null
    <3>1. [k EXCEPT !.to = now[p]] \in txHist'
      BY <1>4, <2>1 DEF CloseOpen
    <3>2. i.to = Null /\ k = i
      BY <1>1, <1>2, <2>1 DEF Interval
    <3>3. [i EXCEPT !.to = now[p]].to = now[p]
      BY <1>1 DEF Interval
    <3> QED BY <3>1, <3>2, <3>3
  <2>2. CASE ~(k.mac = e.mac /\ k.to = Null)
    <3>1. k \in txHist'
      BY <1>4, <2>2 DEF CloseOpen
    <3> QED BY <3>1, <1>2
  <2> QED BY <2>1, <2>2
<1>5. txHist \subseteq txHist' \/ CloseOpen(txHist, e.mac, now[p]) \subseteq txHist'
  BY DEF InsertLease, UpdateLease, ChangeAddress
<1> QED BY <1>3, <1>4, <1>5

LEMMA TxKeepsInit == Init => TxKeeps
  BY DEF Init, TxKeeps

LEMMA TxKeepsNext == TypeOK /\ TxKeeps /\ [Next]_vars => TxKeeps'
<1> SUFFICES ASSUME TypeOK, TxKeeps, [Next]_vars PROVE TxKeeps'
  OBVIOUS
<1> USE DhcpAssumption DEF TxKeeps
<1>1. ASSUME UNCHANGED <<lock, hist, txHist>> PROVE TxKeeps'
  BY <1>1 DEF Keeps
<1>2. ASSUME NEW p \in Pollers, BeginTx(p) PROVE TxKeeps'
  BY <1>2, KeepsReflexive DEF BeginTx, tables
<1>3. ASSUME NEW p \in Pollers, ApplyEntry(p) PROVE TxKeeps'
  <2>1. PICK e \in todo[p] : InsertLease(p, e) \/ UpdateLease(p, e)
    BY <1>3 DEF ApplyEntry
  <2>2. lock = p /\ lock # Null /\ hist' = hist /\ lock' = lock
    BY <1>3 DEF ApplyEntry, tables
  <2>3. Keeps(hist, txHist')
    BY <2>1, <2>2, ApplyEntryKeeps
  <2> QED BY <2>2, <2>3
<1>4. ASSUME NEW p \in Pollers, CommitTx(p) PROVE TxKeeps'
  BY <1>4 DEF CommitTx
<1>5. ASSUME NEW p \in Pollers, Abort(p) PROVE TxKeeps'
  BY <1>1, <1>5 DEF Abort, tables, tx
<1> QED
  BY <1>1, <1>2, <1>3, <1>4, <1>5
     DEF Next, Poll, RouterLeases, RouterReleases, FetchLeases, StampNow, vars, tables, tx

(* Whatever the pollers do, crash or overlap, a committed interval never        *)
(* disappears and never changes except by being closed once.                    *)
THEOREM HistoryIsAppendOnly == Spec => HistoryAppendOnly
<1>1. TypeOK /\ TxKeeps /\ [Next]_vars => Keeps(hist, hist')
  <2> SUFFICES ASSUME TypeOK, TxKeeps, [Next]_vars PROVE Keeps(hist, hist')
    OBVIOUS
  <2>1. CASE hist' = hist
    BY <2>1, KeepsReflexive
  <2>2. ASSUME NEW p \in Pollers, CommitTx(p) PROVE Keeps(hist, hist')
    BY <2>2, DhcpAssumption DEF TxKeeps, CommitTx
  <2> QED
    BY <2>1, <2>2
       DEF Next, Poll, RouterLeases, RouterReleases, FetchLeases, StampNow, BeginTx, ApplyEntry,
           Abort, vars, tables
<1> QED
  BY <1>1, TypeCorrect, TxKeepsInit, TxKeepsNext, PTL DEF Spec, HistoryAppendOnly

-----------------------------------------------------------------------------
(* The two tables agree, when the router lists each MAC at most once.            *)

(* The list a poller works through names each MAC once, and the transaction has  *)
(* not yet touched the rows of the entries to come: the loop's reads of `stored` *)
(* are never stale.                                                              *)
ListInv ==
  /\ \A p \in Pollers : \A e, f \in todo[p] : e.mac = f.mac => e = f
  /\ lock # Null => pc[lock] = "applying"
  /\ lock # Null => \A e \in todo[lock] : txLeases[e.mac] = stored[e.mac]

TxAgrees == lock # Null => Agrees(txLeases, txHist)

AgreeInv == ListInv /\ TxAgrees /\ HistoryAgreesWithLease

LEMMA AgreeInvInit == Init => AgreeInv
  BY DhcpAssumption DEF Init, AgreeInv, ListInv, TxAgrees, HistoryAgreesWithLease, Agrees, OpenOf

(* One turn of the loop changes the row and the open interval of its MAC together *)
(* and leaves those of the other MACs.                                            *)
LEMMA ApplyEntryAgrees ==
  ASSUME TypeInv, NEW p \in Pollers, NEW e \in todo[p],
         InsertLease(p, e) \/ UpdateLease(p, e),
         Agrees(txLeases, txHist), txLeases[e.mac] = stored[e.mac]
  PROVE  /\ Agrees(txLeases', txHist')
         /\ \A m \in MACs : m # e.mac => txLeases'[m] = txLeases[m]
<1> DEFINE opened == {Open(e.mac, e.ip, now[p])}
<1>1. /\ e.mac \in MACs /\ e.ip \in IPs \cup {NoIp} /\ now[p] \in Nat
      /\ txLeases \in Leases /\ txHist \subseteq Interval
      /\ NoRow \notin Row /\ Null \notin Nat /\ NoIp \notin IPs
  BY DhcpAssumption DEF TypeInv, TypeOK, Entry, Row, Time
<1>2. \A m \in MACs : m # e.mac => txLeases'[m] = txLeases[m]
  BY <1>1 DEF InsertLease, UpdateLease, Leases
<1>3. \A m \in MACs : m # e.mac => OpenOf(txHist', m) = OpenOf(txHist, m)
  BY <1>1 DEF InsertLease, UpdateLease, ChangeAddress, OpenOf, Open, CloseOpen, Interval
<1>4. txLeases'[e.mac] \in Row /\ txLeases'[e.mac] # NoRow
  <2>1. txLeases' \in Leases /\ (stored[e.mac] # NoRow => txLeases'[e.mac] # NoRow)
    BY <1>1, ApplyEntryTypes
  <2>2. stored[e.mac] = NoRow => txLeases'[e.mac] = [ip |-> e.ip, seen |-> now[p], active |-> TRUE]
    BY <1>1 DEF InsertLease, UpdateLease, Leases
  <2>3. [ip |-> e.ip, seen |-> now[p], active |-> TRUE] \in Row
    BY <1>1 DEF Row, Time
  <2> QED BY <1>1, <2>1, <2>2, <2>3 DEF Leases
<1>5. CASE e.ip # NoIp /\ (txLeases[e.mac] = NoRow \/ txLeases[e.mac].ip # e.ip)
  <2>1. OpenOf(txHist', e.mac) = opened
    <3>1. CASE InsertLease(p, e)
      <4>1. OpenOf(txHist, e.mac) = {}
        BY <1>1, <3>1 DEF InsertLease, Agrees
      <4> QED BY <1>1, <1>5, <3>1, <4>1 DEF InsertLease, OpenOf, Open
    <3>2. CASE UpdateLease(p, e)
      BY <1>1, <1>5, <3>2 DEF UpdateLease, ChangeAddress, OpenOf, Open, CloseOpen, Interval
    <3> QED BY <3>1, <3>2
  <2>2. txLeases'[e.mac].ip = e.ip
    BY <1>1, <1>5 DEF InsertLease, UpdateLease, Leases
  <2>3. \A i \in opened : i.ip = e.ip
    BY DEF Open
  <2> QED BY <1>1, <1>2, <1>3, <1>4, <2>1, <2>2, <2>3 DEF Agrees
<1>6. CASE ~(e.ip # NoIp /\ (txLeases[e.mac] = NoRow \/ txLeases[e.mac].ip # e.ip))
  <2>1. txHist' = txHist
    BY <1>6 DEF InsertLease, UpdateLease
  <2>2. CASE txLeases[e.mac] = NoRow
    <3>1. e.ip = NoIp /\ txLeases'[e.mac].ip = NoIp /\ OpenOf(txHist, e.mac) = {}
      BY <1>1, <1>6, <2>2 DEF InsertLease, UpdateLease, Leases, Agrees
    <3> QED BY <1>1, <1>2, <2>1, <3>1 DEF Agrees
  <2>3. CASE txLeases[e.mac] # NoRow
    <3>1. txLeases'[e.mac].ip = txLeases[e.mac].ip
      BY <1>1, <1>6, <2>3 DEF InsertLease, UpdateLease, Leases
    <3> QED BY <1>1, <1>2, <1>4, <2>1, <2>3, <3>1 DEF Agrees
  <2> QED BY <2>2, <2>3
<1> QED BY <1>2, <1>5, <1>6

(* Marking rows inactive changes no address.                                      *)
LEMMA MarkUnseenAgrees ==
  ASSUME TypeInv, Agrees(txLeases, txHist) PROVE Agrees(MarkUnseen, txHist)
<1>1. \A m \in MACs : /\ MarkUnseen[m] # NoRow <=> txLeases[m] # NoRow
                      /\ txLeases[m] # NoRow => MarkUnseen[m].ip = txLeases[m].ip
  <2> TAKE m \in MACs
  <2>1. txLeases[m] # NoRow => /\ [txLeases[m] EXCEPT !.active = FALSE] \in Row
                               /\ [txLeases[m] EXCEPT !.active = FALSE].ip = txLeases[m].ip
    BY DEF TypeInv, TypeOK, Leases, Row
  <2>2. NoRow \notin Row
    BY DhcpAssumption DEF Row, Time
  <2> QED BY <2>1, <2>2 DEF MarkUnseen
<1> QED BY <1>1 DEF Agrees

LEMMA AgreeInvNext ==
  ASSUME \A s, t \in Servers : s = t
  PROVE  TypeInv /\ AgreeInv /\ [Next]_vars => AgreeInv'
<1> SUFFICES ASSUME TypeInv, AgreeInv, [Next]_vars PROVE AgreeInv'
  OBVIOUS
<1>0. Null \notin Pollers /\ lock \in Pollers \cup {Null} /\ pc \in [Pollers -> {"idle", "fetched", "stamped", "applying"}]
      /\ todo \in [Pollers -> SUBSET Entry]
  BY DhcpAssumption DEF TypeInv, TypeOK
<1> USE DEF AgreeInv, ListInv, TxAgrees, HistoryAgreesWithLease
<1>1. ASSUME UNCHANGED <<leases, hist, todo, pc, tx>> PROVE AgreeInv'
  BY <1>1 DEF tx, Agrees, OpenOf
<1>2. ASSUME NEW p \in Pollers, FetchLeases(p) PROVE AgreeInv'
  <2>1. lock # p
    BY <1>0, <1>2 DEF FetchLeases
  <2>2. \A e, f \in todo'[p] : e.mac = f.mac => e = f
    BY <1>0, <1>2 DEF FetchLeases, Entry
  <2>3. UNCHANGED <<leases, hist, lock, txLeases, txHist, stored>>
    BY <1>2 DEF FetchLeases, tables, tx
  <2>4. \A q \in Pollers \ {p} : todo'[q] = todo[q] /\ pc'[q] = pc[q]
    BY <1>0, <1>2 DEF FetchLeases
  <2> QED BY <1>0, <2>1, <2>2, <2>3, <2>4 DEF Agrees, OpenOf
<1>3. ASSUME NEW p \in Pollers, StampNow(p) PROVE AgreeInv'
  <2>1. lock # p
    BY <1>0, <1>3 DEF StampNow
  <2>2. UNCHANGED <<leases, hist, lock, txLeases, txHist, stored, todo>>
    BY <1>3 DEF StampNow, tables, tx
  <2>3. \A q \in Pollers \ {p} : pc'[q] = pc[q]
    BY <1>0, <1>3 DEF StampNow
  <2> QED BY <1>0, <2>1, <2>2, <2>3 DEF Agrees, OpenOf
<1>4. ASSUME NEW p \in Pollers, BeginTx(p) PROVE AgreeInv'
  BY <1>0, <1>4 DEF BeginTx, tables, Agrees, OpenOf
<1>5. ASSUME NEW p \in Pollers, ApplyEntry(p) PROVE AgreeInv'
  <2>1. PICK e \in todo[p] : /\ InsertLease(p, e) \/ UpdateLease(p, e)
                             /\ todo' = [todo EXCEPT ![p] = @ \ {e}]
    BY <1>5 DEF ApplyEntry
  <2>2. lock = p /\ lock # Null /\ UNCHANGED <<leases, hist, lock, stored, pc>>
    BY <1>0, <1>5 DEF ApplyEntry, tables
  <2>3. /\ Agrees(txLeases', txHist')
        /\ \A m \in MACs : m # e.mac => txLeases'[m] = txLeases[m]
    BY <2>1, <2>2, ApplyEntryAgrees
  <2>4. todo'[p] = todo[p] \ {e} /\ \A q \in Pollers : todo'[q] \subseteq todo[q]
    BY <1>0, <2>1
  <2>5. \A f \in todo'[p] : f.mac \in MACs /\ f.mac # e.mac
    BY <1>0, <2>1, <2>4 DEF Entry
  <2> QED BY <1>0, <2>2, <2>3, <2>4, <2>5 DEF Agrees, OpenOf
<1>6. ASSUME NEW p \in Pollers, CommitTx(p) PROVE AgreeInv'
  <2>1. lock = p /\ lock # Null /\ lock' = Null
    BY <1>0, <1>6 DEF CommitTx
  <2>2. Agrees(leases', hist')
    BY <1>6, <2>1, MarkUnseenAgrees DEF CommitTx
  <2> QED BY <1>6, <2>1, <2>2 DEF CommitTx, Agrees, OpenOf
<1>7. ASSUME NEW p \in Pollers, Abort(p) PROVE AgreeInv'
  <2>1. UNCHANGED <<leases, hist>> /\ lock' # p /\ (lock' # Null => UNCHANGED tx)
    BY <1>0, <1>7 DEF Abort, tables, tx
  <2>2. /\ todo'[p] = {}
        /\ \A q \in Pollers \ {p} : todo'[q] = todo[q] /\ pc'[q] = pc[q]
    BY <1>0, <1>7 DEF Abort
  <2> QED BY <1>0, <2>1, <2>2 DEF tx, Agrees, OpenOf
<1> QED
  BY <1>1, <1>2, <1>3, <1>4, <1>5, <1>6, <1>7
     DEF Next, Poll, RouterLeases, RouterReleases, vars, tables

(* With one DHCP server a MAC's lease row and its open interval always show the  *)
(* same address, however many pollers overlap and wherever they die.             *)
THEOREM HistoryAgreement ==
  ASSUME \A s, t \in Servers : s = t
  PROVE  Spec => []HistoryAgreesWithLease
<1>1. AgreeInv => HistoryAgreesWithLease
  BY DEF AgreeInv
<1>2. TypeInv /\ AgreeInv /\ [Next]_vars => AgreeInv'
  BY AgreeInvNext
<1> QED BY <1>1, <1>2, AgreeInvInit, TypeInvariance, PTL DEF Spec
-----------------------------------------------------------------------------
(* The history of a MAC has no gap.                                              *)

NoGap(h) == \A i \in h : i.to # Null => \E j \in h : j.mac = i.mac /\ j.from = i.to

(* Nor has the history that the transaction in progress will commit.             *)
GapInv == NoGap(hist) /\ (lock # Null => NoGap(txHist))

LEMMA GapInvInit == Init => GapInv
  BY DEF Init, GapInv, NoGap

(* Closing intervals keeps each one's MAC and beginning.                          *)
LEMMA ClosedBegins ==
  ASSUME NEW h \in SUBSET Interval, NEW m, NEW t, NEW j \in h
  PROVE  \E k \in CloseOpen(h, m, t) : k.mac = j.mac /\ k.from = j.from
<1>1. j \in Interval
  OBVIOUS
<1>2. CASE j.mac = m /\ j.to = Null
  <2>1. [j EXCEPT !.to = t] \in CloseOpen(h, m, t)
    BY <1>2 DEF CloseOpen
  <2>2. [j EXCEPT !.to = t].mac = j.mac /\ [j EXCEPT !.to = t].from = j.from
    BY <1>1 DEF Interval
  <2> QED BY <2>1, <2>2
<1>3. CASE ~(j.mac = m /\ j.to = Null)
  BY <1>3 DEF CloseOpen
<1> QED BY <1>2, <1>3

(* What a change of address closes at t is followed by what it opens at t.        *)
LEMMA ChangeLeavesNoGap ==
  ASSUME NEW h \in SUBSET Interval, NoGap(h), NEW m \in MACs, NEW ip, NEW t \in Time
  PROVE  NoGap(ChangeAddress(h, m, ip, t))
<1> DEFINE g == CloseOpen(h, m, t)
<1>1. ASSUME NEW i \in g, i.to # Null
      PROVE  \E j \in g \cup {Open(m, ip, t)} : j.mac = i.mac /\ j.from = i.to
  <2>1. PICK k \in h : i = IF k.mac = m /\ k.to = Null THEN [k EXCEPT !.to = t] ELSE k
    BY <1>1 DEF CloseOpen
  <2>2. CASE k.mac = m /\ k.to = Null
    <3>1. i.mac = m /\ i.to = t
      BY <2>1, <2>2 DEF Interval
    <3>2. Open(m, ip, t).mac = m /\ Open(m, ip, t).from = t
      BY DEF Open
    <3> QED BY <3>1, <3>2
  <2>3. CASE ~(k.mac = m /\ k.to = Null)
    <3>1. i = k
      BY <2>1, <2>3
    <3>2. PICK j \in h : j.mac = i.mac /\ j.from = i.to
      BY <1>1, <3>1 DEF NoGap
    <3>3. PICK l \in g : l.mac = j.mac /\ l.from = j.from
      BY ClosedBegins
    <3> QED BY <3>2, <3>3
  <2> QED BY <2>2, <2>3
<1>2. Open(m, ip, t).to = Null
  BY DEF Open
<1> QED BY <1>1, <1>2 DEF NoGap, ChangeAddress

LEMMA GapInvNext == TypeInv /\ GapInv /\ [Next]_vars => GapInv'
<1> SUFFICES ASSUME TypeInv, GapInv, [Next]_vars PROVE GapInv'
  OBVIOUS
<1>0. Null \notin Pollers /\ txHist \in SUBSET Interval
  BY DhcpAssumption DEF TypeInv, TypeOK
<1> USE DEF GapInv
<1>1. ASSUME UNCHANGED <<lock, hist, txHist>> PROVE GapInv'
  BY <1>1 DEF NoGap
<1>2. ASSUME NEW p \in Pollers, BeginTx(p) PROVE GapInv'
  BY <1>2 DEF BeginTx, tables, NoGap
<1>3. ASSUME NEW p \in Pollers, ApplyEntry(p) PROVE GapInv'
  <2>1. PICK e \in todo[p] : InsertLease(p, e) \/ UpdateLease(p, e)
    BY <1>3 DEF ApplyEntry
  <2>2. lock = p /\ lock # Null /\ hist' = hist /\ NoGap(txHist)
    BY <1>0, <1>3 DEF ApplyEntry, tables
  <2>3. e.mac \in MACs /\ now[p] \in Time
    BY DEF TypeInv, TypeOK, Entry
  <2>4. CASE InsertLease(p, e)
    <3>1. \A i \in txHist' \ txHist : i.to = Null
      BY <2>4 DEF InsertLease, Open
    <3>2. txHist \subseteq txHist'
      BY <2>4 DEF InsertLease
    <3> QED BY <2>2, <3>1, <3>2 DEF NoGap
  <2>5. CASE UpdateLease(p, e)
    <3>1. txHist' = txHist \/ txHist' = ChangeAddress(txHist, e.mac, e.ip, now[p])
      BY <2>5 DEF UpdateLease
    <3>2. NoGap(ChangeAddress(txHist, e.mac, e.ip, now[p]))
      BY <1>0, <2>2, <2>3, ChangeLeavesNoGap
    <3> QED BY <2>2, <3>1, <3>2 DEF NoGap
  <2> QED BY <2>1, <2>4, <2>5
<1>4. ASSUME NEW p \in Pollers, CommitTx(p) PROVE GapInv'
  BY <1>0, <1>4 DEF CommitTx, NoGap
<1>5. ASSUME NEW p \in Pollers, Abort(p) PROVE GapInv'
  BY <1>1, <1>5 DEF Abort, tables, tx, NoGap
<1> QED
  BY <1>1, <1>2, <1>3, <1>4, <1>5
     DEF Next, Poll, RouterLeases, RouterReleases, FetchLeases, StampNow, vars, tables, tx

(* Wherever a poll is cut short and however polls overlap, each closed interval   *)
(* of a MAC ends at the moment the next one begins.                                *)
THEOREM HistoryIsGapless == Spec => []HistoryHasNoGap
<1>1. GapInv => HistoryHasNoGap
  BY DEF GapInv, NoGap, HistoryHasNoGap
<1> QED BY <1>1, GapInvInit, GapInvNext, TypeInvariance, PTL DEF Spec

-----------------------------------------------------------------------------
(* A lease row is active exactly when the last poll saw it.                        *)

(* A poller that has stamped its poll.                                             *)
Stamped(p) == pc[p] \in {"stamped", "applying"}

(* Each poll has a stamp of its own: no committed row and no other poll has it.    *)
StampsDiffer ==
  /\ lastPoll # Null => lastPoll <= clock
  /\ \A m \in MACs : leases[m] # NoRow => leases[m].seen <= clock
  /\ \A p \in Pollers :
       Stamped(p) => /\ now[p] <= clock
                     /\ \A m \in MACs : leases[m] # NoRow => leases[m].seen # now[p]
                     /\ \A q \in Pollers : Stamped(q) /\ q # p => now[q] # now[p]

(* The transaction has given its stamp to the rows it saw, and no others.          *)
TxMarks ==
  /\ \A p \in Pollers : pc[p] = "applying" <=> lock = p
  /\ lock # Null =>
       /\ stored = leases
       /\ \A m \in MACs :
            IF m \in seen
            THEN txLeases[m] # NoRow /\ txLeases[m].active /\ txLeases[m].seen = now[lock]
            ELSE txLeases[m] = leases[m]

MarkInv == StampsDiffer /\ TxMarks /\ ActiveIffInLastPoll

LEMMA MarkInvInit == Init => MarkInv
  BY DhcpAssumption DEF Init, MarkInv, StampsDiffer, TxMarks, ActiveIffInLastPoll, Stamped

(* One turn of the loop stamps the row of its MAC, and sees it.                     *)
LEMMA ApplyEntryMarks ==
  ASSUME TypeInv, MarkInv, NEW p \in Pollers, lock = p, NEW e \in todo[p],
         InsertLease(p, e) \/ UpdateLease(p, e), seen' = seen \cup {e.mac}
  PROVE  \A m \in MACs :
           IF m \in seen'
           THEN txLeases'[m] # NoRow /\ txLeases'[m].active /\ txLeases'[m].seen = now[p]
           ELSE txLeases'[m] = leases[m]
<1>1. /\ e.mac \in MACs /\ e.ip \in IPs \cup {NoIp} /\ now[p] \in Time
      /\ txLeases \in Leases /\ NoRow \notin Row /\ Null \notin Pollers
  BY DhcpAssumption DEF TypeInv, TypeOK, Entry, Row, Time
<1>2. \A m \in MACs :
        IF m \in seen
        THEN txLeases[m] # NoRow /\ txLeases[m].active /\ txLeases[m].seen = now[p]
        ELSE txLeases[m] = leases[m]
  BY <1>1 DEF MarkInv, TxMarks
<1>3. stored = leases
  BY <1>1 DEF MarkInv, TxMarks
<1>4. txLeases'[e.mac] # NoRow /\ txLeases'[e.mac].active /\ txLeases'[e.mac].seen = now[p]
  <2>1. CASE InsertLease(p, e) /\ txLeases[e.mac] = NoRow
    <3>1. [ip |-> e.ip, seen |-> now[p], active |-> TRUE] \in Row
      BY <1>1 DEF Row
    <3> QED BY <1>1, <2>1, <3>1 DEF InsertLease, Leases
  <2>2. CASE InsertLease(p, e) /\ txLeases[e.mac] # NoRow
    BY <1>1, <1>2, <1>3, <2>2 DEF InsertLease
  <2>3. CASE UpdateLease(p, e)
    <3> DEFINE new == [ip     |-> IF e.ip = NoIp THEN txLeases[e.mac].ip ELSE e.ip,
                       seen   |-> now[p],
                       active |-> TRUE]
    <3>1. txLeases[e.mac] \in Row
      BY <1>1, <2>3 DEF TypeInv, RowsKept, UpdateLease, Leases
    <3>2. new \in Row /\ new.active /\ new.seen = now[p]
      BY <1>1, <3>1 DEF Row
    <3>3. txLeases' = [txLeases EXCEPT ![e.mac] = new]
      BY <2>3 DEF UpdateLease
    <3> HIDE DEF new
    <3> QED BY <1>1, <3>2, <3>3 DEF Leases
  <2> QED BY <2>1, <2>2, <2>3
<1>5. \A m \in MACs : m # e.mac => txLeases'[m] = txLeases[m]
  BY <1>1 DEF InsertLease, UpdateLease, Leases
<1> QED BY <1>2, <1>4, <1>5

(* The commit takes over the rows the transaction saw, and turns off the others.    *)
LEMMA CommitMarks ==
  ASSUME TypeInv, MarkInv, NEW p \in Pollers, CommitTx(p), NEW m \in MACs
  PROVE  /\ leases'[m] # NoRow => (leases'[m].active <=> leases'[m].seen = now[p])
         /\ leases'[m] # NoRow => leases'[m].seen = now[p] \/ (leases[m] # NoRow /\ leases'[m].seen = leases[m].seen)
<1>1. lock = p /\ lock # Null /\ pc[p] = "applying" /\ leases' = MarkUnseen
  BY DhcpAssumption DEF MarkInv, TxMarks, CommitTx
<1>2. leases \in Leases /\ txLeases \in Leases
  BY DEF TypeInv, TypeOK
<1>3. CASE m \in seen
  BY <1>1, <1>3 DEF MarkInv, TxMarks, MarkUnseen
<1>4. CASE m \notin seen
  <2>1. txLeases[m] = leases[m]
    BY <1>1, <1>4 DEF MarkInv, TxMarks
  <2>2. CASE leases[m] = NoRow
    BY <1>1, <1>4, <2>1, <2>2 DEF MarkUnseen
  <2>3. CASE leases[m] # NoRow
    <3>1. leases[m] \in Row /\ leases[m].seen # now[p]
      BY <1>1, <1>2, <2>3 DEF Leases, MarkInv, StampsDiffer, Stamped
    <3>2. leases'[m] = [leases[m] EXCEPT !.active = FALSE]
      BY <1>1, <1>4, <2>1, <2>3 DEF MarkUnseen
    <3>3. leases'[m].active = FALSE /\ leases'[m].seen = leases[m].seen
      BY <3>1, <3>2 DEF Row
    <3> QED BY <2>3, <3>1, <3>3
  <2> QED BY <2>2, <2>3
<1> QED BY <1>3, <1>4

LEMMA MarkInvNext == TypeInv /\ MarkInv /\ [Next]_vars => MarkInv'
<1> SUFFICES ASSUME TypeInv, MarkInv, [Next]_vars PROVE MarkInv'
  OBVIOUS
<1>0. /\ Null \notin Pollers /\ lock \in Pollers \cup {Null} /\ clock \in Nat /\ now \in [Pollers -> Nat]
      /\ pc \in [Pollers -> {"idle", "fetched", "stamped", "applying"}]
      /\ lastPoll \in Nat \cup {Null} /\ leases \in Leases
      /\ \A m \in MACs : leases[m] # NoRow => leases[m].seen \in Nat
  BY DhcpAssumption DEF TypeInv, TypeOK, Time, Leases, Row
<1> USE DEF MarkInv, StampsDiffer, TxMarks, ActiveIffInLastPoll, Stamped
<1>1. ASSUME UNCHANGED <<leases, lastPoll, now, pc, tx>>, clock' \in {clock, clock + 1} PROVE MarkInv'
  BY <1>0, <1>1 DEF tx
<1>2. ASSUME NEW p \in Pollers, FetchLeases(p) PROVE MarkInv'
  BY <1>0, <1>2 DEF FetchLeases, tables, tx
<1>3. ASSUME NEW p \in Pollers, StampNow(p) PROVE MarkInv'
  BY <1>0, <1>3 DEF StampNow, tables, tx
<1>4. ASSUME NEW p \in Pollers, BeginTx(p) PROVE MarkInv'
  BY <1>0, <1>4 DEF BeginTx, tables
<1>5. ASSUME NEW p \in Pollers, ApplyEntry(p) PROVE MarkInv'
  <2>1. PICK e \in todo[p] : /\ InsertLease(p, e) \/ UpdateLease(p, e)
                             /\ seen' = seen \cup {e.mac}
    BY <1>5 DEF ApplyEntry
  <2>2. lock = p /\ UNCHANGED <<clock, leases, lastPoll, lock, pc, now, stored>>
    BY <1>5 DEF ApplyEntry, tables
  <2>3. \A m \in MACs :
          IF m \in seen'
          THEN txLeases'[m] # NoRow /\ txLeases'[m].active /\ txLeases'[m].seen = now[p]
          ELSE txLeases'[m] = leases[m]
    BY <2>1, <2>2, ApplyEntryMarks
  <2> QED BY <1>0, <2>2, <2>3
<1>6. ASSUME NEW p \in Pollers, CommitTx(p) PROVE MarkInv'
  <2>1. /\ lock = p /\ pc[p] = "applying" /\ lock' = Null /\ lastPoll' = now[p]
        /\ pc' = [pc EXCEPT ![p] = "idle"] /\ UNCHANGED <<clock, now>>
    BY <1>0, <1>6 DEF CommitTx
  <2>2. \A m \in MACs :
          /\ leases'[m] # NoRow => (leases'[m].active <=> leases'[m].seen = now[p])
          /\ leases'[m] # NoRow => \/ leases'[m].seen = now[p]
                                   \/ leases[m] # NoRow /\ leases'[m].seen = leases[m].seen
    BY <1>6, CommitMarks
  <2> QED BY <1>0, <2>1, <2>2
<1>7. ASSUME NEW p \in Pollers, Abort(p) PROVE MarkInv'
  <2>1. /\ UNCHANGED <<clock, leases, lastPoll, now>> /\ pc' = [pc EXCEPT ![p] = "idle"]
        /\ IF lock = p THEN lock' = Null ELSE UNCHANGED tx
    BY <1>7 DEF Abort, tables
  <2> QED BY <1>0, <2>1 DEF tx
<1> QED
  BY <1>0, <1>1, <1>2, <1>3, <1>4, <1>5, <1>6, <1>7
     DEF Next, Poll, RouterLeases, RouterReleases, vars, tables

(* With any number of DHCP servers and polls that overlap, a lease row is active    *)
(* exactly when the poll that poll_state records saw its MAC.                        *)
THEOREM ActiveMeansListed == Spec => []ActiveIffInLastPoll
<1>1. MarkInv => ActiveIffInLastPoll
  BY DEF MarkInv
<1> QED BY <1>1, MarkInvInit, MarkInvNext, TypeInvariance, PTL DEF Spec
=============================================================================
