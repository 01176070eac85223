------------------------- MODULE RadiusWatchProofs -------------------------
(***************************************************************************)
(* Theorems about RadiusWatch, for any subscribers, addresses, detail      *)
(* files, events and faults.  The table and the position file are two      *)
(* stores, so what a record has done to the table is followed through the  *)
(* open transaction, the committed table, and both copies of the position. *)
(***************************************************************************)
EXTENDS RadiusWatch, SequenceTheorems, WellFoundedInduction, TLAPS

Kinds    == {"Start", "Interim", "Stop"}
Record   == [kind : Kinds \cup {"Garbled"}, user : Users, sid : Nat, ip : IPs, at : Nat]
RowOf    == [kind : Kinds, user : Users, sid : Nat \cup {NoSid}, ip : IPs \cup {Null}, at : Nat]
Row      == [user : Users, sid : Nat \cup {NoSid}, ip : IPs \cup {Null}, start : Nat, stop : Nat \cup {Null}]
Visit    == [user : Users, sid : Nat, ip : IPs, end : Nat \cup {Null}]
Position == [n : Nat, had : SUBSET Attrs]
Reading  == [from : Nat \ {0}, upto : Nat, had : SUBSET Attrs, head : SUBSET Attrs]

TypeInv ==
  /\ sessions \subseteq Visit
  /\ file \in [Files -> Seq(Record)] /\ day \in Files /\ clock \in Nat
  /\ table \subseteq Row /\ tx \subseteq Row
  /\ pos \in [Files -> Position] /\ saved \in [Files -> Position]
  /\ pc \in {"list", "scan", "apply", "saving"}
  /\ listed \subseteq Files /\ cur \in Nat \ {0} /\ read \in Reading /\ count \in Nat
  /\ pc = "apply" => cur \in Files

-----------------------------------------------------------------------------
LEMMA RecordAt ==
  ASSUME TypeInv, NEW f \in Files
  PROVE  /\ file[f] \in Seq(Record) /\ Len(file[f]) \in Nat /\ DOMAIN file[f] = 1..Len(file[f])
         /\ \A i \in 1..Len(file[f]) : file[f][i] \in Record
<1>1. file[f] \in Seq(Record)
  BY DEF TypeInv
<1> HIDE DEF Record
<1> QED BY <1>1, LenProperties, ElementOfSeq

-----------------------------------------------------------------------------
(* Rows.                                                                           *)

LEMMA SessionRow ==
  ASSUME NEW row \in RowOf, NEW start \in Nat, NEW stop \in Nat \cup {Null}
  PROVE  /\ Session(row, start, stop) \in Row
         /\ Session(row, start, stop).user = row.user /\ Session(row, start, stop).sid = row.sid
         /\ Session(row, start, stop).ip = row.ip /\ Session(row, start, stop).start = start
         /\ Session(row, start, stop).stop = stop
  BY DEF Session, RowOf, Row

(* What a step makes of the rows that are there: the row itself, or the row closed,  *)
(* or the row with the new address, the last two if it is open and of the session.   *)
LEMMA Rewritten ==
  ASSUME NEW T \in SUBSET Row, NEW row \in RowOf, clock \in Nat, NEW x \in T
  PROVE  \E y \in Inserted(T, row) :
           /\ y.user = x.user /\ y.sid = x.sid /\ y.start = x.start
           /\ y = x \/ (x \in OpenOf(T, row) /\ y.stop = row.at /\ y.ip = x.ip /\ row.kind = "Stop")
                    \/ (x \in OpenOf(T, row) /\ y.stop = x.stop /\ y.ip \in {x.ip, row.ip}
                        /\ (y.ip = x.ip \/ row.ip # Null) /\ row.kind = "Interim")
<1> DEFINE closed == [x EXCEPT !.stop = row.at]
           moved == [x EXCEPT !.ip = IF row.ip = Null THEN @ ELSE row.ip]
<1>1. x \in Row /\ row.kind \in Kinds
  BY DEF RowOf
<1>2. /\ closed.user = x.user /\ closed.sid = x.sid /\ closed.start = x.start
      /\ closed.stop = row.at /\ closed.ip = x.ip
  BY <1>1 DEF Row
<1>3. /\ moved.user = x.user /\ moved.sid = x.sid /\ moved.start = x.start
      /\ moved.stop = x.stop /\ moved.ip = IF row.ip = Null THEN x.ip ELSE row.ip
  BY <1>1 DEF Row
<1>4. CASE row.kind = "Start"
  BY <1>4 DEF Inserted, AfterStart
<1>5. CASE row.kind = "Stop"
  <2>1. CASE x \in OpenOf(T, row)
    <3>1. closed \in Inserted(T, row)
      BY <1>5, <2>1 DEF Inserted, AfterStop
    <3> HIDE DEF closed
    <3> QED BY <1>2, <1>5, <2>1, <3>1
  <2>2. CASE x \notin OpenOf(T, row)
    <3>1. x \in Inserted(T, row)
      BY <1>5, <2>2 DEF Inserted, AfterStop
    <3> QED BY <3>1
  <2> QED BY <2>1, <2>2
<1>6. CASE row.kind = "Interim"
  <2>1. CASE x \in OpenOf(T, row)
    <3>1. moved \in Inserted(T, row)
      BY <1>6, <2>1 DEF Inserted, AfterInterim
    <3> HIDE DEF moved
    <3> QED BY <1>3, <1>6, <2>1, <3>1
  <2>2. CASE x \notin OpenOf(T, row)
    <3>1. x \in Inserted(T, row)
      BY <1>6, <2>2 DEF Inserted, AfterInterim
    <3> QED BY <3>1
  <2> QED BY <2>1, <2>2
<1> QED BY <1>1, <1>4, <1>5, <1>6 DEF Kinds

(* Where the rows of the new table come from.                                        *)
LEMMA Origins ==
  ASSUME NEW T \in SUBSET Row, NEW row \in RowOf, clock \in Nat, NEW y \in Inserted(T, row)
  PROVE  /\ y \in Row
         /\ \/ y \in T /\ (row.kind = "Stop" => y \notin OpenOf(T, row))
            \/ /\ \E x \in OpenOf(T, row) : y.start = x.start /\ y.ip \in {x.ip, row.ip}
               /\ y.user = row.user /\ y.sid = row.sid
               /\ row.kind = "Stop" => y.stop = row.at
               /\ row.kind = "Interim" => y.stop = Null
               /\ row.kind # "Start"
            \/ /\ y.user = row.user /\ y.sid = row.sid /\ y.ip = row.ip
               /\ row.kind = "Stop" => y.stop = row.at /\ y.start = row.at
               /\ row.kind = "Start" => y.stop = Null /\ y.start = row.at
               /\ row.kind = "Interim" => y.stop = Null /\ y.start = clock
<1>1. /\ row.kind \in Kinds /\ row.at \in Nat /\ Null \in Nat \cup {Null} /\ row.at \in Nat \cup {Null}
      /\ row.ip \in IPs \cup {Null}
  BY DEF RowOf
<1>2. \A x \in OpenOf(T, row) : x \in Row /\ x.user = row.user /\ x.sid = row.sid /\ x.stop = Null
  BY DEF OpenOf
<1>3. CASE row.kind = "Start"
  <2>1. y \in T \/ y = Session(row, row.at, Null)
    BY <1>3 DEF Inserted, AfterStart
  <2> QED BY <1>1, <1>3, <2>1, SessionRow
<1>4. CASE row.kind = "Stop"
  <2>1. CASE OpenOf(T, row) = {}
    <3>1. y \in T \/ y = Session(row, row.at, row.at)
      BY <1>4, <2>1 DEF Inserted, AfterStop
    <3> QED BY <1>1, <1>4, <2>1, <3>1, SessionRow
  <2>2. CASE OpenOf(T, row) # {}
    <3>1. \/ y \in T \ OpenOf(T, row)
          \/ \E x \in OpenOf(T, row) : y = [x EXCEPT !.stop = row.at]
      BY <1>4, <2>2 DEF Inserted, AfterStop
    <3>2. ASSUME NEW x \in OpenOf(T, row), y = [x EXCEPT !.stop = row.at]
          PROVE  /\ y \in Row /\ y.user = x.user /\ y.sid = x.sid /\ y.start = x.start /\ y.ip = x.ip
                 /\ y.stop = row.at
      BY <1>1, <1>2, <3>2 DEF Row
    <3> QED BY <1>2, <1>4, <3>1, <3>2
  <2> QED BY <2>1, <2>2
<1>5. CASE row.kind = "Interim"
  <2>1. CASE OpenOf(T, row) # {}
    <3>1. \/ y \in T \ OpenOf(T, row)
          \/ \E x \in OpenOf(T, row) : y = [x EXCEPT !.ip = IF row.ip = Null THEN @ ELSE row.ip]
      BY <1>5, <2>1 DEF Inserted, AfterInterim
    <3>2. ASSUME NEW x \in OpenOf(T, row), y = [x EXCEPT !.ip = IF row.ip = Null THEN @ ELSE row.ip]
          PROVE  /\ y \in Row /\ y.user = x.user /\ y.sid = x.sid /\ y.start = x.start /\ y.stop = x.stop
                 /\ y.ip \in {x.ip, row.ip}
      BY <1>1, <1>2, <3>2 DEF Row
    <3> QED BY <1>2, <1>5, <3>1, <3>2
  <2>2. CASE OpenOf(T, row) = {}
    <3>1. y \in T \/ y = Session(row, clock, Null)
      BY <1>5, <2>2 DEF Inserted, AfterInterim
    <3>2. CASE y \in T
      BY <1>5, <3>2
    <3>3. CASE y = Session(row, clock, Null)
      <4>1. /\ y \in Row /\ y.user = row.user /\ y.sid = row.sid
            /\ y.ip = row.ip /\ y.start = clock /\ y.stop = Null
        <5>1. PICK z : z = Session(row, clock, Null)
          OBVIOUS
        <5>2. /\ z \in Row /\ z.user = row.user /\ z.sid = row.sid
              /\ z.ip = row.ip /\ z.start = clock /\ z.stop = Null
          BY <1>1, <5>1, SessionRow
        <5> QED BY <3>3, <5>1, <5>2
      <4> QED BY <1>5, <4>1
    <3> QED BY <3>1, <3>2, <3>3
  <2> QED BY <2>1, <2>2
<1> QED BY <1>1, <1>3, <1>4, <1>5 DEF Kinds

LEMMA InsertedType ==
  ASSUME NEW T \in SUBSET Row, NEW row \in RowOf, clock \in Nat
  PROVE  Inserted(T, row) \in SUBSET Row
BY Origins

(* The mark a record leaves: a Start the beginning of a session, a Stop its end.     *)
Marked(T, r) ==
  /\ r.kind = "Start" => \E x \in T : x.user = r.user /\ x.sid = r.sid /\ x.start = r.at /\ x.ip = r.ip
  /\ r.kind = "Stop"  => \E x \in T : x.user = r.user /\ x.sid = r.sid /\ x.stop = r.at

LEMMA MarksStay ==
  ASSUME NEW T \in SUBSET Row, NEW row \in RowOf, clock \in Nat, NEW r \in Record, Marked(T, r),
         row.sid = r.sid => row.ip \in {Null, r.ip}
  PROVE  Marked(Inserted(T, row), r)
<1>1. ASSUME r.kind = "Start"
      PROVE  \E y \in Inserted(T, row) : y.user = r.user /\ y.sid = r.sid /\ y.start = r.at /\ y.ip = r.ip
  <2>1. PICK x \in T : x.user = r.user /\ x.sid = r.sid /\ x.start = r.at /\ x.ip = r.ip
    BY <1>1 DEF Marked
  <2>2. PICK y \in Inserted(T, row) :
          /\ y.user = x.user /\ y.sid = x.sid /\ y.start = x.start
          /\ y = x \/ (x \in OpenOf(T, row) /\ y.stop = row.at /\ y.ip = x.ip /\ row.kind = "Stop")
                   \/ (x \in OpenOf(T, row) /\ y.stop = x.stop /\ y.ip \in {x.ip, row.ip}
                       /\ (y.ip = x.ip \/ row.ip # Null) /\ row.kind = "Interim")
    BY Rewritten
  <2>3. x \in OpenOf(T, row) => row.sid = r.sid
    BY <2>1 DEF OpenOf
  <2> QED BY <2>1, <2>2, <2>3
<1>2. ASSUME r.kind = "Stop"
      PROVE  \E y \in Inserted(T, row) : y.user = r.user /\ y.sid = r.sid /\ y.stop = r.at
  <2>1. PICK x \in T : x.user = r.user /\ x.sid = r.sid /\ x.stop = r.at
    BY <1>2 DEF Marked
  <2>2. x \notin OpenOf(T, row)
    BY <2>1, RadiusAssumption DEF OpenOf, Record
  <2> QED BY <2>1, <2>2, Rewritten
<1> QED BY <1>1, <1>2 DEF Marked

LEMMA MarkMade ==
  ASSUME NEW T \in SUBSET Row, NEW row \in RowOf, clock \in Nat, NEW r \in Record,
         row.kind = r.kind, row.user = r.user, row.sid = r.sid, row.ip = r.ip, row.at = r.at
  PROVE  Marked(Inserted(T, row), r)
<1>1. row.at \in Nat /\ row.at \in Nat \cup {Null} /\ Null \in Nat \cup {Null}
  BY DEF RowOf
<1>2. CASE r.kind = "Start"
  <2>1. Session(row, row.at, Null) \in Inserted(T, row)
    BY <1>2 DEF Inserted, AfterStart
  <2>2. LET y == Session(row, row.at, Null)
        IN  y.user = row.user /\ y.sid = row.sid /\ y.start = row.at /\ y.ip = row.ip
    BY <1>1, SessionRow
  <2> QED BY <1>2, <2>1, <2>2 DEF Marked
<1>3. CASE r.kind = "Stop"
  <2>1. CASE OpenOf(T, row) = {}
    <3>1. Session(row, row.at, row.at) \in Inserted(T, row)
      BY <1>3, <2>1 DEF Inserted, AfterStop
    <3> QED BY <1>1, <1>3, <3>1, SessionRow DEF Marked
  <2>2. CASE OpenOf(T, row) # {}
    <3>1. PICK x \in OpenOf(T, row) : TRUE
      BY <2>2
    <3>2. [x EXCEPT !.stop = row.at] \in Inserted(T, row)
      BY <1>3, <2>2 DEF Inserted, AfterStop
    <3>3. x \in Row /\ x.user = row.user /\ x.sid = row.sid
      BY DEF OpenOf
    <3>4. /\ [x EXCEPT !.stop = row.at].user = row.user /\ [x EXCEPT !.stop = row.at].sid = row.sid
          /\ [x EXCEPT !.stop = row.at].stop = row.at
      BY <3>3 DEF Row
    <3> QED BY <1>3, <3>2, <3>4 DEF Marked
  <2> QED BY <2>1, <2>2
<1> QED BY <1>2, <1>3 DEF Marked

-----------------------------------------------------------------------------
(* The network.  What a step writes is at most one record, at the end of today's     *)
(* file, of one session and dated t.                                                 *)

OfSession(r, s) == r.user = s.user /\ r.sid = s.sid /\ r.ip = s.ip

Added(kind, s, t) ==
  /\ file' \in [Files -> Seq(Record)] /\ spoiled \subseteq spoiled'
  /\ \A f \in Files :
       /\ f # day => file'[f] = file[f]
       /\ Len(file[f]) <= Len(file'[f]) /\ Len(file'[f]) \in Nat
       /\ \A i \in 1..Len(file[f]) : i \in 1..Len(file'[f]) /\ file'[f][i] = file[f][i]
       /\ \A i \in 1..Len(file'[f]) :
            \/ i \in 1..Len(file[f])
            \/ /\ f = day /\ OfSession(file'[f][i], s)
               /\ file'[f][i].kind \in {kind, "Garbled"} /\ file'[f][i].at = t

(* The session is spoiled unless its Start or Stop was written when due.              *)
Told(kind, s, t) ==
  \/ s.sid \in spoiled' \/ kind = "Interim"
  \/ \E i \in 1..Len(file'[day]) :
       file'[day][i].sid = s.sid /\ file'[day][i].kind = kind /\ file'[day][i].at = t

LEMMA WriteAdds ==
  ASSUME TypeInv, NEW r \in Record, Writes(r), spoiled \subseteq spoiled',
         NEW kind, NEW s, NEW t, OfSession(r, s), r.kind \in {kind, "Garbled"}, r.at = t
  PROVE  Added(kind, s, t) /\ (r.kind = kind => Told(kind, s, t))
<1>1. /\ day \in Files /\ file \in [Files -> Seq(Record)] /\ file[day] \in Seq(Record)
      /\ file' = [file EXCEPT ![day] = Append(file[day], r)]
  BY DEF TypeInv, Writes
<1> HIDE DEF Record
<1> DEFINE old == file[day]
           new == Append(old, r)
<1>2. /\ old \in Seq(Record) /\ new \in Seq(Record) /\ Len(old) \in Nat /\ Len(new) = Len(old) + 1
      /\ \A i \in 1..Len(new) : new[i] = IF i <= Len(old) THEN old[i] ELSE r
  <2>1. old \in Seq(Record)
    BY <1>1
  <2> HIDE DEF old
  <2> QED BY <2>1, AppendProperties, LenProperties
<1>3. file'[day] = new /\ \A f \in Files : f # day => file'[f] = file[f]
  BY <1>1
<1>4. file' \in [Files -> Seq(Record)]
  <2> HIDE DEF old, new
  <2> QED BY <1>1, <1>2 DEF old, new
<1>5. file[day] = old
  OBVIOUS
<1> HIDE DEF old, new
<1>6. ASSUME NEW f \in Files
      PROVE  /\ f # day => file'[f] = file[f]
             /\ Len(file[f]) <= Len(file'[f]) /\ Len(file'[f]) \in Nat
             /\ \A i \in 1..Len(file[f]) : i \in 1..Len(file'[f]) /\ file'[f][i] = file[f][i]
             /\ \A i \in 1..Len(file'[f]) :
                  \/ i \in 1..Len(file[f])
                  \/ /\ f = day /\ OfSession(file'[f][i], s)
                     /\ file'[f][i].kind \in {kind, "Garbled"} /\ file'[f][i].at = t
  <2>1. CASE f # day
    BY <1>3, <2>1, RecordAt
  <2>2. CASE f = day
    <3>1. file'[f] = new /\ file[f] = old
      BY <1>3, <1>5, <2>2
    <3>2. \A i \in 1..Len(old) : i \in 1..Len(new) /\ new[i] = old[i]
      BY <1>2
    <3>3. \A i \in 1..Len(new) : i \in 1..Len(old) \/ new[i] = r
      BY <1>2
    <3>4. Len(old) <= Len(new) /\ Len(new) \in Nat
      BY <1>2
    <3> QED BY <2>2, <3>1, <3>2, <3>3, <3>4
  <2> QED BY <2>1, <2>2
<1>7. Added(kind, s, t)
  BY <1>4, <1>6 DEF Added
<1>8. Len(new) \in 1..Len(new) /\ new[Len(new)] = r
  BY <1>2
<1>9. r.kind = kind => Told(kind, s, t)
  BY <1>3, <1>8 DEF Told, OfSession
<1> QED BY <1>7, <1>9

LEMMA AccountAdds ==
  ASSUME TypeInv, NEW kind \in Kinds, NEW s \in Visit, Account(kind, s)
  PROVE  Added(kind, s, clock + 1) /\ Told(kind, s, clock + 1)
<1> DEFINE r == Packet(kind, s, clock + 1)
           g == [kind |-> "Garbled", user |-> s.user, sid |-> s.sid, ip |-> s.ip, at |-> clock + 1]
<1>1. r \in Record /\ OfSession(r, s) /\ r.kind = kind /\ r.at = clock + 1
  BY DEF TypeInv, Packet, Record, Visit, OfSession
<1>2. g \in Record /\ OfSession(g, s) /\ g.kind = "Garbled" /\ g.at = clock + 1
  BY DEF TypeInv, Record, Visit, OfSession
<1>3. [r EXCEPT !.kind = "Garbled"] = g
  BY DEF Packet
<1>4. \/ Writes(r) /\ spoiled' = spoiled
      \/ Writes(g) /\ spoiled' = spoiled \cup {s.sid}
      \/ file' = file /\ spoiled' = IF kind = "Interim" THEN spoiled ELSE spoiled \cup {s.sid}
  BY <1>3 DEF Account
<1> HIDE DEF r, g
<1>5. CASE Writes(r) /\ spoiled' = spoiled
  BY <1>1, <1>5, WriteAdds
<1>6. CASE Writes(g) /\ spoiled' = spoiled \cup {s.sid}
  BY <1>2, <1>6, WriteAdds DEF Told
<1>7. CASE file' = file /\ spoiled' = IF kind = "Interim" THEN spoiled ELSE spoiled \cup {s.sid}
  <2>1. Told(kind, s, clock + 1)
    BY <1>7 DEF Told
  <2>2. \A f \in Files : Len(file[f]) \in Nat
    BY RecordAt
  <2> QED BY <1>7, <2>1, <2>2 DEF Added, TypeInv
<1> QED BY <1>4, <1>5, <1>6, <1>7

(* A session's id is the time it began, so it is one subscriber's at one address; a  *)
(* record is of a session, and dated between its beginning and now.                  *)
Identified ==
  \A s \in sessions : /\ s.sid <= clock /\ (s.end # Null => s.end <= clock)
                      /\ \A q \in sessions : s.sid = q.sid => s = q

Recorded ==
  \A f \in Files : \A i \in 1..Len(file[f]) :
    /\ \E s \in sessions : OfSession(file[f][i], s)
    /\ file[f][i].sid <= file[f][i].at /\ file[f][i].at <= clock

NetInv == TypeInv /\ Identified /\ Recorded

LEMMA OneSession ==
  ASSUME NetInv, NEW f \in Files, NEW i \in 1..Len(file[f]), NEW g \in Files, NEW j \in 1..Len(file[g]),
         file[f][i].sid = file[g][j].sid
  PROVE  file[f][i].user = file[g][j].user /\ file[f][i].ip = file[g][j].ip
BY DEF NetInv, Identified, Recorded, OfSession

LEMMA RecordsOf ==
  ASSUME NetInv, NEW s \in sessions, NEW f \in Files, NEW i \in 1..Len(file[f]), file[f][i].sid = s.sid
  PROVE  OfSession(file[f][i], s)
BY DEF NetInv, Identified, Recorded, OfSession

(* The three things a step that accounts does to the sessions.                       *)
Begins(kind, s) ==
  /\ kind = "Start" /\ s.sid = clock + 1 /\ clock' = clock + 1 /\ s.end = Null
  /\ \A q \in sessions : q.end = Null => q.ip # s.ip
  /\ sessions' = sessions \cup {s}
  /\ Told(kind, s, clock + 1)

Goes(kind, s) ==
  /\ s \in sessions /\ sessions' = sessions
  /\ kind = "Stop" => s.end # Null

Ends(kind, s) ==
  /\ s \in sessions /\ s.end = Null /\ kind = "Stop" /\ clock' = clock + 1
  /\ sessions' = (sessions \ {s}) \cup {[s EXCEPT !.end = clock + 1]}
  /\ Told(kind, s, clock + 1)

Moves(kind, s) ==
  /\ kind \in Kinds /\ s \in Visit /\ Added(kind, s, clock')
  /\ clock' \in {clock, clock + 1} /\ day' = day /\ UNCHANGED <<db, pos, saved, at>>
  /\ Begins(kind, s) \/ Goes(kind, s) \/ Ends(kind, s)

Rests ==
  /\ UNCHANGED <<sessions, file, spoiled, db, pos, saved, at>>
  /\ clock' \in {clock, clock + 1} /\ day' \in Files /\ day <= day'

Network ==
  \/ \E u \in Users, ip \in IPs : Connect(u, ip)
  \/ \E s \in sessions :
       Report(s) \/ Disconnect(s) \/ \E kind \in {"Start", "Interim", "Stop"} : Resend(s, kind)
  \/ Quiet \/ NextDay

LEMMA NetworkMoves == NetInv /\ Network => Rests \/ \E kind, s : Moves(kind, s)
<1> SUFFICES ASSUME NetInv, Network PROVE Rests \/ \E kind, s : Moves(kind, s)
  OBVIOUS
<1>1. TypeInv /\ clock \in Nat /\ sessions \subseteq Visit /\ day \in Files /\ day \in Nat
  BY DEF NetInv, TypeInv, Files
<1>2. ASSUME NEW u \in Users, NEW ip \in IPs, Connect(u, ip) PROVE \E kind, s : Moves(kind, s)
  <2> DEFINE s == [user |-> u, sid |-> clock + 1, ip |-> ip, end |-> Null]
  <2>1. s \in Visit /\ s.sid = clock + 1 /\ s.ip = ip /\ s.end = Null
    BY <1>1 DEF Visit
  <2>2. /\ sessions' = sessions \cup {s} /\ Account("Start", s) /\ clock' = clock + 1 /\ day' = day
        /\ UNCHANGED <<db, pos, saved, at>> /\ \A q \in sessions : q.end = Null => q.ip # ip
    BY <1>2 DEF Connect, Event
  <2> HIDE DEF s
  <2>3. "Start" \in Kinds
    BY DEF Kinds
  <2>4. Added("Start", s, clock + 1) /\ Told("Start", s, clock + 1)
    BY <1>1, <2>1, <2>2, <2>3, AccountAdds
  <2>5. Begins("Start", s)
    BY <2>1, <2>2, <2>4 DEF Begins
  <2> QED BY <2>1, <2>2, <2>3, <2>4, <2>5 DEF Moves
<1>3. ASSUME NEW s \in sessions, Report(s) PROVE \E kind, q : Moves(kind, q)
  <2>1. /\ Account("Interim", s) /\ sessions' = sessions /\ clock' = clock + 1 /\ day' = day
        /\ UNCHANGED <<db, pos, saved, at>> /\ "Interim" \in Kinds /\ s \in Visit
    BY <1>1, <1>3 DEF Report, Event, Kinds
  <2>2. Added("Interim", s, clock + 1)
    BY <1>1, <2>1, AccountAdds
  <2>3. Goes("Interim", s)
    BY <2>1 DEF Goes
  <2> QED BY <2>1, <2>2, <2>3 DEF Moves
<1>4. ASSUME NEW s \in sessions, Disconnect(s) PROVE \E kind, q : Moves(kind, q)
  <2>1. /\ Account("Stop", s) /\ clock' = clock + 1 /\ day' = day /\ s.end = Null
        /\ sessions' = (sessions \ {s}) \cup {[s EXCEPT !.end = clock + 1]}
        /\ UNCHANGED <<db, pos, saved, at>> /\ "Stop" \in Kinds /\ s \in Visit
    BY <1>1, <1>4 DEF Disconnect, Event, Kinds
  <2>2. Added("Stop", s, clock + 1) /\ Told("Stop", s, clock + 1)
    BY <1>1, <2>1, AccountAdds
  <2>3. Ends("Stop", s)
    BY <2>1, <2>2 DEF Ends
  <2> QED BY <2>1, <2>2, <2>3 DEF Moves
<1>5. ASSUME NEW s \in sessions, NEW kind \in Kinds, Resend(s, kind) PROVE \E k, q : Moves(k, q)
  <2>1. /\ Writes(Packet(kind, s, clock)) /\ UNCHANGED <<sessions, day, clock, spoiled, db, pos, saved, at>>
        /\ (kind = "Stop" => s.end # Null) /\ s \in Visit
    BY <1>1, <1>5 DEF Resend
  <2>2. PICK r : r = Packet(kind, s, clock)
    OBVIOUS
  <2>3. r \in Record /\ OfSession(r, s) /\ r.kind = kind /\ r.at = clock
    BY <1>1, <2>1, <2>2 DEF Packet, Record, Visit, OfSession
  <2>4. Added(kind, s, clock)
    BY <1>1, <2>1, <2>2, <2>3, WriteAdds
  <2>5. Goes(kind, s)
    BY <2>1 DEF Goes
  <2> QED BY <2>1, <2>4, <2>5 DEF Moves
<1>6. ASSUME Quiet PROVE Rests
  BY <1>1, <1>6 DEF Quiet, Event, Rests
<1>7. ASSUME NextDay PROVE Rests
  BY <1>1, <1>7, RadiusAssumption DEF NextDay, Rests, Files
<1> QED BY <1>2, <1>3, <1>4, <1>5, <1>6, <1>7 DEF Network, Kinds

(* What the network does to the files, as far as the watcher is concerned.           *)
Grown ==
  /\ \A f \in Files :
       /\ Len(file[f]) <= Len(file'[f])
       /\ \A i \in 1..Len(file[f]) : i \in 1..Len(file'[f]) /\ file'[f][i] = file[f][i]
  /\ spoiled \subseteq spoiled'

(* A session goes on as it was, or ends; and the only other one is new.               *)
LEMMA SessionsMove ==
  ASSUME NetInv, NEW kind, NEW s, Moves(kind, s)
  PROVE  /\ clock \in Nat /\ clock' \in Nat /\ clock <= clock' /\ sessions' \subseteq Visit
         /\ \A q \in sessions : \E p \in sessions' :
              /\ p.user = q.user /\ p.sid = q.sid /\ p.ip = q.ip
              /\ p.end = IF q = s /\ Ends(kind, s) THEN clock + 1 ELSE q.end
         /\ \A p \in sessions' : \/ p = s /\ Begins(kind, s)
                                 \/ \E q \in sessions :
                                      /\ p.user = q.user /\ p.sid = q.sid /\ p.ip = q.ip
                                      /\ p.end = IF q = s /\ Ends(kind, s) THEN clock + 1 ELSE q.end
<1>1. clock \in Nat /\ clock' \in Nat /\ clock <= clock' /\ s \in Visit /\ sessions \subseteq Visit
  BY DEF NetInv, TypeInv, Moves
<1>2. CASE Begins(kind, s)
  <2>1. ~Ends(kind, s) /\ sessions' = sessions \cup {s}
    BY <1>2 DEF Begins, Ends
  <2> QED BY <1>1, <1>2, <2>1
<1>3. CASE Goes(kind, s)
  <2>1. ~Ends(kind, s) /\ sessions' = sessions
    BY <1>3 DEF Goes, Ends
  <2> QED BY <1>1, <2>1
<1>4. CASE Ends(kind, s)
  <2>1. PICK z : z = [s EXCEPT !.end = clock + 1]
    OBVIOUS
  <2>2. z \in Visit /\ z.user = s.user /\ z.sid = s.sid /\ z.ip = s.ip /\ z.end = clock + 1
    BY <1>1, <2>1 DEF Visit
  <2>3. sessions' = (sessions \ {s}) \cup {z} /\ s \in sessions
    BY <1>4, <2>1 DEF Ends
  <2> QED BY <1>1, <1>4, <2>2, <2>3
<1> QED BY <1>2, <1>3, <1>4 DEF Moves

LEMMA MovesKeepNet ==
  ASSUME NetInv, NEW kind, NEW s, Moves(kind, s)
  PROVE  NetInv' /\ Grown
<1>1. /\ clock \in Nat /\ clock' \in Nat /\ clock <= clock' /\ sessions' \subseteq Visit /\ s \in Visit
      /\ sessions \subseteq Visit /\ Added(kind, s, clock')
  BY SessionsMove DEF Moves, NetInv, TypeInv
<1>2. Grown
  BY <1>1 DEF Added, Grown
<1>3. TypeInv'
  <2>1. UNCHANGED <<db, pos, saved, at>> /\ day' = day /\ file' \in [Files -> Seq(Record)]
    BY <1>1 DEF Moves, Added
  <2> QED BY <1>1, <2>1 DEF NetInv, TypeInv, db, at
<1>4. \A q \in sessions : q.sid \in Nat /\ q.sid <= clock /\ (q.end # Null => q.end \in Nat /\ q.end <= clock)
  BY <1>1 DEF NetInv, Identified, Visit
<1>5. Begins(kind, s) => s.sid = clock + 1 /\ s.end = Null /\ clock' = clock + 1
  BY DEF Begins
<1>6. ASSUME NEW p \in sessions' PROVE p.sid <= clock' /\ (p.end # Null => p.end <= clock')
  <2>1. CASE p = s /\ Begins(kind, s)
    BY <1>1, <1>5, <2>1
  <2>2. CASE \E q \in sessions : /\ p.user = q.user /\ p.sid = q.sid /\ p.ip = q.ip
                                 /\ p.end = IF q = s /\ Ends(kind, s) THEN clock + 1 ELSE q.end
    <3>1. PICK q \in sessions : p.sid = q.sid /\ p.end = IF q = s /\ Ends(kind, s) THEN clock + 1 ELSE q.end
      BY <2>2
    <3>2. Ends(kind, s) => clock' = clock + 1
      BY DEF Ends
    <3> QED BY <1>1, <1>4, <3>1, <3>2
  <2> QED BY <2>1, <2>2, SessionsMove
<1>7. ASSUME NEW p \in sessions', NEW o \in sessions', p.sid = o.sid PROVE p = o
  <2>1. CASE p = s /\ Begins(kind, s)
    <3>1. \A q \in sessions : q.sid # s.sid
      BY <1>1, <1>4, <1>5, <2>1
    <3> QED BY <1>7, <2>1, <3>1, SessionsMove
  <2>2. CASE o = s /\ Begins(kind, s)
    <3>1. \A q \in sessions : q.sid # s.sid
      BY <1>1, <1>4, <1>5, <2>2
    <3> QED BY <1>7, <2>2, <3>1, SessionsMove
  <2>3. CASE /\ \E q \in sessions : /\ p.user = q.user /\ p.sid = q.sid /\ p.ip = q.ip
                                    /\ p.end = IF q = s /\ Ends(kind, s) THEN clock + 1 ELSE q.end
             /\ \E q \in sessions : /\ o.user = q.user /\ o.sid = q.sid /\ o.ip = q.ip
                                    /\ o.end = IF q = s /\ Ends(kind, s) THEN clock + 1 ELSE q.end
    <3>1. p.user = o.user /\ p.ip = o.ip /\ p.end = o.end
      BY <1>7, <2>3 DEF NetInv, Identified
    <3> QED BY <1>1, <1>7, <3>1 DEF Visit
  <2> QED BY <2>1, <2>2, <2>3, SessionsMove
<1>8. Identified'
  BY <1>6, <1>7 DEF Identified
<1>9. ASSUME NEW f \in Files, NEW i \in 1..Len(file'[f])
      PROVE  /\ \E p \in sessions' : OfSession(file'[f][i], p)
             /\ file'[f][i].sid <= file'[f][i].at /\ file'[f][i].at <= clock'
  <2>1. CASE i \in 1..Len(file[f])
    <3>1. file'[f][i] = file[f][i]
      BY <1>2, <2>1 DEF Grown
    <3>2. PICK q \in sessions : OfSession(file[f][i], q)
      BY <2>1 DEF NetInv, Recorded
    <3>3. \E p \in sessions' : OfSession(file[f][i], p)
      BY <3>2, SessionsMove DEF OfSession
    <3>4. file[f][i].sid <= file[f][i].at /\ file[f][i].at <= clock /\ file[f][i].at \in Nat
      BY <2>1, RecordAt DEF NetInv, Recorded, Record
    <3> QED BY <1>1, <3>1, <3>3, <3>4
  <2>2. CASE i \notin 1..Len(file[f])
    <3>1. OfSession(file'[f][i], s) /\ file'[f][i].at = clock'
      BY <1>1, <2>2 DEF Added
    <3>2. s.sid <= clock'
      BY <1>1, <1>4, <1>5 DEF Moves, Goes, Ends
    <3>3. \E p \in sessions' : p.user = s.user /\ p.sid = s.sid /\ p.ip = s.ip
      <4>1. CASE s \in sessions
        BY <4>1, SessionsMove
      <4>2. CASE Begins(kind, s)
        BY <4>2 DEF Begins
      <4> QED BY <4>1, <4>2 DEF Moves, Goes, Ends
    <3> QED BY <1>1, <3>1, <3>2, <3>3 DEF OfSession
  <2> QED BY <2>1, <2>2
<1>10. Recorded'
  BY <1>9 DEF Recorded, OfSession
<1> QED BY <1>2, <1>3, <1>8, <1>10 DEF NetInv

LEMMA RestsKeepNet ==
  ASSUME NetInv, Rests
  PROVE  NetInv' /\ Grown /\ clock \in Nat /\ clock' \in Nat /\ clock <= clock'
<1>1. /\ UNCHANGED <<sessions, file, spoiled, db, pos, saved, at>>
      /\ clock \in Nat /\ clock' \in Nat /\ clock <= clock' /\ day' \in Files
  BY DEF Rests, NetInv, TypeInv
<1>2. TypeInv'
  BY <1>1 DEF NetInv, TypeInv, db, at
<1>3. Grown
  BY <1>1, RecordAt DEF Grown, NetInv
<1>4. \A q \in sessions : /\ q.sid \in Nat /\ q.sid <= clock
                          /\ q.end # Null => q.end \in Nat /\ q.end <= clock
  BY DEF NetInv, TypeInv, Identified, Visit
<1>5. \A q \in sessions : q.sid <= clock' /\ (q.end # Null => q.end <= clock')
  BY <1>1, <1>4
<1>6. Identified'
  BY <1>1, <1>5 DEF NetInv, Identified
<1>7. \A f \in Files : \A i \in 1..Len(file[f]) : file[f][i].at \in Nat /\ file[f][i].at <= clock
  BY RecordAt DEF NetInv, Recorded, Record
<1>8. \A f \in Files : \A i \in 1..Len(file[f]) : file[f][i].at <= clock'
  BY <1>1, <1>7
<1>9. Recorded'
  BY <1>1, <1>8 DEF NetInv, Recorded, OfSession
<1> QED BY <1>1, <1>2, <1>3, <1>6, <1>9 DEF NetInv

LEMMA NetworkKeeps ==
  ASSUME NetInv, Network
  PROVE  NetInv' /\ Grown /\ UNCHANGED <<db, pos, saved, at>>
BY NetworkMoves, MovesKeepNet, RestsKeepNet DEF Moves, Rests

-----------------------------------------------------------------------------
(* The watcher.  A position within a record, and a read of half a record, are of a   *)
(* session that is spoiled; and nothing is counted as applied that is not.           *)

Cut(f, p) == p.had # {} => p.n + 1 <= Len(file[f]) /\ file[f][p.n + 1].sid \in spoiled

PosInv ==
  \A f \in Files : /\ Cut(f, pos[f]) /\ Cut(f, saved[f])
                   /\ saved[f].n <= pos[f].n /\ pos[f].n <= Len(file[f])

ReadInv ==
  pc = "apply" =>
    /\ pos[cur].n + 1 <= read.from /\ read.from <= read.upto + 1
    /\ pos[cur].n + 1 <= read.upto /\ read.upto <= Len(file[cur])
    /\ read.had # {} => read.from <= read.upto /\ file[cur][read.from].sid \in spoiled
    /\ read.head # Attrs => read.upto # 0 /\ file[cur][read.upto].sid \in spoiled

(* What the open transaction holds: a dead connection has none.                      *)
Applied(f, i) ==
  i <= pos[f].n \/ (pc = "apply" /\ conn = "up" /\ f = cur /\ i < read.from)

MarksInv ==
  \A f \in Files : \A i \in 1..Len(file[f]) : Whole(file[f][i]) =>
    /\ i <= pos[f].n => Marked(table, file[f][i])
    /\ Applied(f, i) => Marked(tx, file[f][i])

RadiusInv == NetInv /\ PosInv /\ ReadInv /\ MarksInv

(* A step of the watcher leaves the network as it is.                                *)
LEMMA NetKept ==
  ASSUME NetInv, TypeInv', UNCHANGED net
  PROVE  NetInv'
BY DEF NetInv, Identified, Recorded, OfSession, net

(* The row made of a record, whole or not.                                           *)
LEMMA RowMade ==
  ASSUME clock \in Nat, NEW r \in Record, r.kind # "Garbled", NEW has, NEW had, NEW row,
         row = [kind |-> r.kind, user |-> r.user,
             sid  |-> IF "sid" \in has THEN r.sid ELSE NoSid,
             ip   |-> IF "ip" \in has THEN r.ip ELSE Null,
             at   |-> IF had # {} THEN clock ELSE r.at]
  PROVE  /\ row \in RowOf /\ row.kind = r.kind /\ row.user = r.user
         /\ row.sid \in {r.sid, NoSid} /\ row.ip \in {r.ip, Null}
         /\ has = Attrs /\ had = {} => row.sid = r.sid /\ row.ip = r.ip /\ row.at = r.at
<1>2. /\ r.kind \in Kinds /\ r.user \in Users /\ r.sid \in Nat /\ r.ip \in IPs /\ r.at \in Nat
  BY DEF Record
<1> HIDE DEF Record
<1>3. row \in RowOf
  BY <1>2 DEF RowOf
<1>4. row.kind = r.kind /\ row.user = r.user /\ row.sid \in {r.sid, NoSid} /\ row.ip \in {r.ip, Null}
  OBVIOUS
<1>5. has = Attrs /\ had = {} => row.sid = r.sid /\ row.ip = r.ip /\ row.at = r.at
  BY DEF Attrs
<1> QED BY <1>3, <1>4, <1>5

(* What applying a record does: nothing, if who it is about was read before; else a   *)
(* row of its session, and all of it if the record was read whole.                    *)
LEMMA RecordApplied ==
  ASSUME RadiusInv, ApplyRecord \/ SkipRecord
  PROVE  LET r == file[cur][read.from] IN
         /\ cur \in Files /\ read.from \in 1..Len(file[cur]) /\ r \in Record
         /\ \/ /\ UNCHANGED <<tx, table, count>> /\ r.sid \in spoiled
            \/ /\ conn = "up"
               /\ \E row \in RowOf :
                    /\ tx' = Inserted(tx, row) /\ table' \in {table, tx'} /\ count' = count + 1
                    /\ row.user = r.user /\ row.sid \in {r.sid, NoSid} /\ row.ip \in {r.ip, Null}
                    /\ row.kind = r.kind
                    /\ Whole(r) => row.sid = r.sid /\ row.ip = r.ip /\ row.at = r.at
<1>1. /\ pc = "apply" /\ read.from <= read.upto /\ Current.kind # "Garbled" /\ cur \in Files
      /\ read \in Reading /\ clock \in Nat /\ TypeInv
  BY DEF RadiusInv, NetInv, TypeInv, ApplyRecord, SkipRecord, Ahead
<1>2. read.upto <= Len(file[cur]) /\ Len(file[cur]) \in Nat /\ read.from \in Nat \ {0} /\ read.upto \in Nat
      /\ read.head \in SUBSET Attrs /\ read.had \in SUBSET Attrs
  BY <1>1, RecordAt DEF RadiusInv, ReadInv, Reading
<1>3. read.from \in 1..Len(file[cur])
  BY <1>1, <1>2
<1> DEFINE r == file[cur][read.from]
           has == (IF read.from = read.upto THEN read.head ELSE Attrs) \ read.had
<1>4. r \in Record /\ r = Current
  BY <1>1, <1>3, RecordAt DEF Current
<1>5. \/ ToRow(r, has, read.had # {}) = {} /\ UNCHANGED <<db, count>>
      \/ /\ conn = "up"
         /\ \E row \in ToRow(r, has, read.had # {}) :
              /\ tx' = Inserted(tx, row)
              /\ count' = count + 1
              /\ table' = IF count' % CommitEvery = 0 THEN tx' ELSE table
  BY <1>4 DEF ApplyRecord, SkipRecord, CurrentRow
<1>6. r.sid \notin spoiled => has = Attrs /\ read.had = {}
  BY <1>1, <1>2 DEF RadiusInv, ReadInv
<1> HIDE DEF r, has
<1>7. CASE ToRow(r, has, read.had # {}) = {} /\ UNCHANGED <<db, count>>
  <2>1. "who" \notin has
    BY <1>7 DEF ToRow
  <2>2. r.sid \in spoiled
    BY <1>6, <2>1 DEF Attrs
  <2>3. UNCHANGED <<tx, table, count>>
    BY <1>7 DEF db
  <2> QED BY <1>1, <1>3, <1>4, <2>2, <2>3 DEF r
<1>8. CASE /\ conn = "up"
           /\ \E row \in ToRow(r, has, read.had # {}) :
                /\ tx' = Inserted(tx, row)
                /\ count' = count + 1
                /\ table' = IF count' % CommitEvery = 0 THEN tx' ELSE table
  <2>1. PICK row \in ToRow(r, has, read.had # {}) :
          /\ tx' = Inserted(tx, row)
          /\ count' = count + 1
          /\ table' = IF count' % CommitEvery = 0 THEN tx' ELSE table
    BY <1>8
  <2>2. row = [kind |-> r.kind, user |-> r.user,
             sid  |-> IF "sid" \in has THEN r.sid ELSE NoSid,
             ip   |-> IF "ip" \in has THEN r.ip ELSE Null,
             at   |-> IF read.had # {} THEN clock ELSE r.at]
    BY <2>1 DEF ToRow
  <2>3. /\ row \in RowOf /\ row.kind = r.kind /\ row.user = r.user
        /\ row.sid \in {r.sid, NoSid} /\ row.ip \in {r.ip, Null}
        /\ has = Attrs /\ read.had = {} => row.sid = r.sid /\ row.ip = r.ip /\ row.at = r.at
    BY <1>1, <1>4, <2>2, RowMade
  <2>4. tx' = Inserted(tx, row) /\ count' = count + 1 /\ table' \in {table, tx'}
    BY <2>1
  <2>5. Whole(r) => row.sid = r.sid /\ row.ip = r.ip /\ row.at = r.at
    BY <1>6, <2>3 DEF Whole
  <2> QED BY <1>1, <1>3, <1>4, <1>8, <2>3, <2>4, <2>5 DEF r
<1> QED BY <1>5, <1>7, <1>8

-----------------------------------------------------------------------------
LEMMA InvInit == Init => RadiusInv
<1> SUFFICES ASSUME Init PROVE RadiusInv
  OBVIOUS
<1>1. Files # {} /\ 1 \in Files
  BY RadiusAssumption DEF Files
<1>2. \A f \in Files : file[f] = <<>> /\ Len(file[f]) = 0
  BY DEF Init
<1>3. file \in [Files -> Seq(Record)]
  <2> HIDE DEF Record
  <2> QED BY DEF Init
<1>4. pos \in [Files -> Position] /\ saved \in [Files -> Position]
  BY DEF Init, Position, Origin
<1>5. sessions = {}
  BY DEF Init
<1>6. read \in Reading
  BY DEF Init, Reading, NothingRead
<1>7. TypeInv
  BY <1>1, <1>3, <1>4, <1>5, <1>6 DEF Init, TypeInv
<1>8. Identified /\ Recorded
  BY <1>2, <1>5 DEF Identified, Recorded
<1>9. PosInv
  BY <1>2 DEF PosInv, Cut, Init, Origin
<1>10. ReadInv /\ MarksInv
  BY <1>2 DEF ReadInv, MarksInv, Init
<1> QED BY <1>7, <1>8, <1>9, <1>10 DEF RadiusInv, NetInv

(* The network only adds records behind every position, and spoils sessions.         *)
LEMMA NetworkStep == RadiusInv /\ Network => RadiusInv'
<1> SUFFICES ASSUME RadiusInv, Network PROVE RadiusInv'
  OBVIOUS
<1>1. NetInv' /\ Grown /\ UNCHANGED <<db, pos, saved, at>> /\ TypeInv /\ TypeInv'
  BY NetworkKeeps DEF RadiusInv, NetInv
<1>2. \A f \in Files : /\ Len(file[f]) \in Nat /\ Len(file'[f]) \in Nat /\ Len(file[f]) <= Len(file'[f])
                       /\ pos[f].n \in Nat /\ saved[f].n \in Nat
  BY <1>1, RecordAt DEF Grown, TypeInv, Position
<1>3. \A f \in Files : \A i \in 1..Len(file[f]) : i \in 1..Len(file'[f]) /\ file'[f][i] = file[f][i]
  BY <1>1 DEF Grown
<1>4. spoiled \subseteq spoiled'
  BY <1>1 DEF Grown
<1>5. PosInv'
  <2>1. ASSUME NEW f \in Files, NEW p \in Position, Cut(f, p) PROVE Cut(f, p)'
    <3> SUFFICES ASSUME p.had # {} PROVE p.n + 1 <= Len(file'[f]) /\ file'[f][p.n + 1].sid \in spoiled'
      BY DEF Cut
    <3>1. p.n + 1 \in 1..Len(file[f]) /\ file[f][p.n + 1].sid \in spoiled
      BY <1>2, <2>1 DEF Cut, Position
    <3> QED BY <1>2, <1>3, <1>4, <3>1
  <2>2. pos' = pos /\ saved' = saved /\ pos \in [Files -> Position] /\ saved \in [Files -> Position]
    BY <1>1 DEF TypeInv
  <2>3. \A f \in Files : Cut(f, pos[f])' /\ Cut(f, saved[f])'
    BY <2>1, <2>2 DEF RadiusInv, PosInv, Cut
  <2> QED BY <1>2, <2>2, <2>3 DEF RadiusInv, PosInv
<1>6. ReadInv'
  <2> SUFFICES ASSUME pc' = "apply"
               PROVE  /\ pos'[cur'].n + 1 <= read'.from /\ read'.from <= read'.upto + 1
                      /\ pos'[cur'].n + 1 <= read'.upto /\ read'.upto <= Len(file'[cur'])
                      /\ read'.had # {} => read'.from <= read'.upto /\ file'[cur'][read'.from].sid \in spoiled'
                      /\ read'.head # Attrs => read'.upto # 0 /\ file'[cur'][read'.upto].sid \in spoiled'
    BY DEF ReadInv
  <2>1. /\ pc = "apply" /\ cur' = cur /\ read' = read /\ pos' = pos /\ cur \in Files
        /\ read.from \in Nat \ {0} /\ read.upto \in Nat
    BY <1>1 DEF at, TypeInv, Reading
  <2>2. /\ pos[cur].n + 1 <= read.from /\ read.from <= read.upto + 1
        /\ pos[cur].n + 1 <= read.upto /\ read.upto <= Len(file[cur])
        /\ read.had # {} => read.from <= read.upto /\ file[cur][read.from].sid \in spoiled
        /\ read.head # Attrs => read.upto # 0 /\ file[cur][read.upto].sid \in spoiled
    BY <2>1 DEF RadiusInv, ReadInv
  <2>3. read.upto <= Len(file'[cur])
    BY <1>2, <2>1, <2>2
  <2>4. read.had # {} => read.from \in 1..Len(file[cur]) /\ file[cur][read.from].sid \in spoiled
    BY <1>2, <2>1, <2>2
  <2>5. read.head # Attrs => read.upto \in 1..Len(file[cur]) /\ file[cur][read.upto].sid \in spoiled
    BY <1>2, <2>1, <2>2
  <2>6. \A i \in 1..Len(file[cur]) : file[cur][i].sid \in spoiled => file'[cur][i].sid \in spoiled'
    BY <1>3, <1>4, <2>1
  <2> QED BY <2>1, <2>2, <2>3, <2>4, <2>5, <2>6
<1>7. MarksInv'
  <2> SUFFICES ASSUME NEW f \in Files, NEW i \in 1..Len(file'[f]), Whole(file[f][i])'
               PROVE  /\ i <= pos'[f].n => Marked(table', file'[f][i])
                      /\ Applied(f, i)' => Marked(tx', file'[f][i])
    BY DEF MarksInv, Marked
  <2>1. /\ table' = table /\ tx' = tx /\ pos' = pos
        /\ Applied(f, i)' => Applied(f, i)
        /\ i <= pos'[f].n => i <= pos[f].n /\ Applied(f, i)
    BY <1>1 DEF db, at, Applied
  <2>2. Applied(f, i) => i \in 1..Len(file[f])
    <3>1. i \in Nat \ {0}
      BY <1>2
    <3>2. pos[f].n <= Len(file[f])
      BY DEF RadiusInv, PosInv
    <3>3. CASE i <= pos[f].n
      BY <1>2, <3>1, <3>2, <3>3
    <3>4. CASE pc = "apply" /\ conn = "up" /\ f = cur /\ i < read.from
      <4>1. read.from <= read.upto + 1 /\ read.upto <= Len(file[f]) /\ read.from \in Nat /\ read.upto \in Nat
        BY <1>1, <3>4 DEF RadiusInv, ReadInv, TypeInv, Reading
      <4> QED BY <1>2, <3>1, <3>4, <4>1
    <3> QED BY <3>3, <3>4 DEF Applied
  <2>3. CASE Applied(f, i)
    <3>1. i \in 1..Len(file[f]) /\ file'[f][i] = file[f][i]
      BY <1>3, <2>2, <2>3
    <3>2. Whole(file[f][i])
      BY <1>4, <3>1 DEF Whole
    <3>3. /\ i <= pos[f].n => Marked(table, file[f][i])
          /\ Applied(f, i) => Marked(tx, file[f][i])
      BY <3>1, <3>2 DEF RadiusInv, MarksInv
    <3> QED BY <2>1, <3>1, <3>3
  <2>4. CASE ~Applied(f, i)
    BY <2>1, <2>4
  <2> QED BY <2>3, <2>4
<1> QED BY <1>1, <1>5, <1>6, <1>7 DEF RadiusInv

(* Every other step leaves the files alone and spoils sessions at most.              *)
LEMMA CutKept ==
  ASSUME file' = file, spoiled \subseteq spoiled', NEW f, NEW p, Cut(f, p)
  PROVE  p.had # {} => p.n + 1 <= Len(file'[f]) /\ file'[f][p.n + 1].sid \in spoiled'
BY DEF Cut

LEMMA ReadStep ==
  ASSUME RadiusInv, NEW f \in Files, Reached(f), UNCHANGED <<net, db, pos, saved>>, spoiled \subseteq spoiled',
         pc' = "apply", cur' = f, listed' = listed, count' = count,
         NEW h \in SUBSET Attrs,
         read' = [from |-> pos[f].n + 1, upto |-> Len(file[f]), had |-> pos[f].had, head |-> h],
         h # Attrs => file[f][Len(file[f])].sid \in spoiled'
  PROVE  RadiusInv'
<1>1. /\ TypeInv /\ Len(file[f]) \in Nat /\ pos[f].n \in Nat /\ pos[f].had \in SUBSET Attrs
      /\ pos[f].n < Len(file[f]) /\ file' = file
  BY RecordAt DEF RadiusInv, NetInv, TypeInv, Position, Reached, Unread, net
<1>2. /\ read' \in Reading /\ read'.from = pos[f].n + 1 /\ read'.upto = Len(file[f])
      /\ read'.had = pos[f].had /\ read'.head = h
  BY <1>1 DEF Reading
<1>3. TypeInv'
  BY <1>1, <1>2 DEF TypeInv, net, db, Files
<1>4. NetInv'
  BY <1>3, NetKept DEF RadiusInv
<1>5. pos' = pos /\ saved' = saved
  OBVIOUS
<1>6. PosInv'
  <2>1. \A g \in Files : Cut(g, pos[g]) /\ Cut(g, saved[g])
    BY DEF RadiusInv, PosInv
  <2>2. \A g \in Files : Cut(g, pos[g])' /\ Cut(g, saved[g])'
    BY <1>1, <1>5, <2>1 DEF Cut
  <2> QED BY <1>1, <1>5, <2>2 DEF RadiusInv, PosInv
<1>7. ReadInv'
  <2>1. Cut(f, pos[f])
    BY DEF RadiusInv, PosInv
  <2>2. /\ pos[f].had # {} => file[f][pos[f].n + 1].sid \in spoiled'
        /\ pos[f].n + 1 <= Len(file[f]) /\ pos[f].n + 1 <= Len(file[f]) + 1 /\ Len(file[f]) # 0
    BY <1>1, <2>1 DEF Cut
  <2> QED BY <1>1, <1>2, <2>2 DEF ReadInv
<1>8. MarksInv'
  <2> SUFFICES ASSUME NEW g \in Files, NEW i \in 1..Len(file'[g]), Whole(file[g][i])'
               PROVE  /\ i <= pos'[g].n => Marked(table', file'[g][i])
                      /\ Applied(g, i)' => Marked(tx', file'[g][i])
    BY DEF MarksInv, Marked
  <2>1. Whole(file[g][i]) /\ i \in 1..Len(file[g]) /\ i \in Nat
    BY <1>1, RecordAt DEF Whole
  <2>2. Applied(g, i)' => i <= pos[g].n
    BY <1>1, <1>2, <1>5, <2>1 DEF Applied
  <2> QED BY <1>1, <1>5, <2>1, <2>2 DEF RadiusInv, MarksInv, Applied, db
<1> QED BY <1>4, <1>6, <1>7, <1>8 DEF RadiusInv

(* A step after which nothing is being read, and no position has moved on.            *)
LEMMA RestStep ==
  ASSUME RadiusInv, TypeInv', UNCHANGED <<net, spoiled>>, pc' # "apply",
         table' \in {table, tx}, tx' \in {table, tx},
         \A f \in Files : /\ Cut(f, pos'[f]) /\ Cut(f, saved'[f])
                          /\ saved'[f].n <= pos'[f].n /\ pos'[f].n <= pos[f].n
  PROVE  RadiusInv'
<1>1. TypeInv /\ file' = file /\ spoiled' = spoiled
  BY DEF RadiusInv, NetInv, net
<1>2. \A f \in Files : /\ Len(file[f]) \in Nat /\ pos[f].n \in Nat /\ pos'[f].n \in Nat
                       /\ pos[f].n <= Len(file[f])
  BY <1>1, RecordAt DEF TypeInv, Position, RadiusInv, PosInv
<1>3. NetInv'
  BY NetKept DEF RadiusInv
<1>4. PosInv'
  <2>1. \A f \in Files : Cut(f, pos[f])' /\ Cut(f, saved[f])'
    BY <1>1 DEF Cut
  <2> QED BY <1>1, <1>2, <2>1 DEF PosInv
<1>5. ReadInv'
  BY DEF ReadInv
<1>6. MarksInv'
  <2> SUFFICES ASSUME NEW f \in Files, NEW i \in 1..Len(file'[f]), Whole(file[f][i])', i <= pos'[f].n
               PROVE  Marked(table', file'[f][i]) /\ Marked(tx', file'[f][i])
    BY DEF MarksInv, Marked, Applied
  <2>1. Whole(file[f][i]) /\ i \in 1..Len(file[f]) /\ i <= pos[f].n
    BY <1>1, <1>2 DEF Whole
  <2>2. Marked(table, file[f][i]) /\ Marked(tx, file[f][i])
    BY <2>1 DEF RadiusInv, MarksInv, Applied
  <2> QED BY <1>1, <2>2
<1> QED BY <1>3, <1>4, <1>5, <1>6 DEF RadiusInv

LEMMA RoundStep == RadiusInv /\ (ListFiles \/ EmptyPositions \/ WritePositions) => RadiusInv'
<1> SUFFICES ASSUME RadiusInv, ListFiles \/ EmptyPositions \/ WritePositions PROVE RadiusInv'
  OBVIOUS
<1>1. /\ TypeInv /\ UNCHANGED <<net, spoiled, db, pos>> /\ pc' \in {"scan", "saving", "list"}
      /\ saved' \in {saved, [f \in Files |-> Origin], pos} /\ UNCHANGED <<read, count>>
  BY DEF RadiusInv, NetInv, ListFiles, EmptyPositions, WritePositions
<1>2. Origin \in Position /\ Origin.n = 0 /\ Origin.had = {}
  BY DEF Origin, Position
<1>3. TypeInv'
  <2>1. saved' \in [Files -> Position]
    BY <1>1, <1>2 DEF TypeInv
  <2>2. listed' \subseteq Files /\ cur' \in Nat \ {0}
    BY <1>1 DEF TypeInv, ListFiles, EmptyPositions, WritePositions
  <2> QED BY <1>1, <2>1, <2>2 DEF TypeInv, net, db
<1>4. ASSUME NEW f \in Files
      PROVE  /\ Cut(f, pos'[f]) /\ Cut(f, saved'[f])
             /\ saved'[f].n <= pos'[f].n /\ pos'[f].n <= pos[f].n
  <2>1. Cut(f, pos[f]) /\ Cut(f, saved[f]) /\ saved[f].n <= pos[f].n /\ pos[f].n \in Nat
    BY <1>1 DEF RadiusInv, PosInv, TypeInv, Position
  <2>2. Cut(f, Origin) /\ 0 <= pos[f].n
    BY <1>2, <2>1 DEF Cut
  <2>3. saved'[f] \in {saved[f], Origin, pos[f]}
    BY <1>1
  <2> QED BY <1>1, <1>2, <2>1, <2>2, <2>3
<1>5. pc' # "apply" /\ table' = table /\ tx' = tx
  BY <1>1 DEF db
<1> QED BY <1>1, <1>3, <1>4, <1>5, RestStep

Failure == RecordRefused \/ DbError \/ StillDead \/ CommitAnswerLost \/ Restart

LEMMA FaultStep == RadiusInv /\ Failure => RadiusInv'
<1> SUFFICES ASSUME RadiusInv, Failure PROVE RadiusInv'
  OBVIOUS
<1>1. /\ TypeInv /\ UNCHANGED <<net, spoiled, saved>> /\ Again
      /\ pos' \in {pos, saved} /\ table' \in {table, tx} /\ tx' \in {table, tx}
  BY DEF RadiusInv, NetInv, Failure, RecordRefused, DbError, StillDead, CommitAnswerLost, Restart, db
<1>2. TypeInv'
  <2>1. NothingRead \in Reading
    BY DEF NothingRead, Reading
  <2> QED BY <1>1, <2>1 DEF TypeInv, net, Again
<1>3. \A f \in Files : /\ Cut(f, pos'[f]) /\ Cut(f, saved'[f])
                       /\ saved'[f].n <= pos'[f].n /\ pos'[f].n <= pos[f].n
  <2> TAKE f \in Files
  <2>1. Cut(f, pos[f]) /\ Cut(f, saved[f]) /\ saved[f].n <= pos[f].n /\ pos[f].n \in Nat /\ saved[f].n \in Nat
    BY <1>1 DEF RadiusInv, PosInv, TypeInv, Position
  <2>2. saved'[f] = saved[f] /\ pos'[f] \in {pos[f], saved[f]}
    BY <1>1
  <2> QED BY <2>1, <2>2
<1>4. pc' # "apply"
  BY <1>1 DEF Again
<1> QED BY <1>1, <1>2, <1>3, <1>4, RestStep

(* The open transaction of a connection that dies is gone.                            *)
LEMMA DeathStep == RadiusInv /\ ConnectionDies => RadiusInv'
<1> SUFFICES ASSUME RadiusInv, ConnectionDies PROVE RadiusInv'
  OBVIOUS
<1>1. /\ TypeInv /\ UNCHANGED <<net, spoiled, table, pos, saved, at>> /\ tx' = table /\ conn' = "dead"
      /\ file' = file
  BY DEF RadiusInv, NetInv, ConnectionDies, net
<1>2. TypeInv'
  BY <1>1 DEF TypeInv, net, at
<1>3. NetInv'
  BY <1>1, <1>2, NetKept DEF RadiusInv
<1>4. PosInv' /\ ReadInv'
  BY <1>1 DEF RadiusInv, PosInv, ReadInv, Cut, at
<1>5. MarksInv'
  BY <1>1 DEF RadiusInv, MarksInv, Marked, Applied, Whole
<1> QED BY <1>3, <1>4, <1>5 DEF RadiusInv

LEMMA ReadsStep == RadiusInv /\ (\E f \in Files : Read(f) \/ ReadHalf(f)) => RadiusInv'
<1> SUFFICES ASSUME RadiusInv, NEW f \in Files, Read(f) \/ ReadHalf(f) PROVE RadiusInv'
  OBVIOUS
<1>1. CASE Read(f)
  BY <1>1, ReadStep DEF Read
<1>2. CASE ReadHalf(f)
  <2>1. PICK h \in SUBSET Attrs :
          read' = [from |-> pos[f].n + 1, upto |-> Len(file[f]), had |-> pos[f].had, head |-> h]
    BY <1>2 DEF ReadHalf
  <2>2. spoiled' = spoiled \cup {file[f][Len(file[f])].sid}
    BY <1>2 DEF ReadHalf
  <2> QED BY <1>2, <2>1, <2>2, ReadStep DEF ReadHalf
<1> QED BY <1>1, <1>2

(* A row of one session leaves the marks of every other record of it as they are.     *)
LEMMA MarksOfOthersStay ==
  ASSUME RadiusInv, NEW f \in Files, NEW i \in 1..Len(file[f]), NEW g \in Files, NEW j \in 1..Len(file[g]),
         NEW row \in RowOf, row.sid \in {file[g][j].sid, NoSid}, row.ip \in {file[g][j].ip, Null},
         NEW T \in SUBSET Row, Marked(T, file[f][i])
  PROVE  Marked(Inserted(T, row), file[f][i])
<1>1. clock \in Nat /\ file[f][i] \in Record /\ file[f][i].sid \in Nat
  <2>1. clock \in Nat /\ file[f][i] \in Record
    BY RecordAt DEF RadiusInv, NetInv, TypeInv
  <2> QED BY <2>1 DEF Record
<1>2. row.sid = file[f][i].sid => row.ip \in {Null, file[f][i].ip}
  <2> SUFFICES ASSUME row.sid = file[f][i].sid PROVE row.ip \in {Null, file[f][i].ip}
    OBVIOUS
  <2>1. file[g][j].sid = file[f][i].sid
    BY <1>1, RadiusAssumption
  <2>2. file[g][j].ip = file[f][i].ip
    BY <2>1, OneSession DEF RadiusInv
  <2> QED BY <2>2
<1> QED BY <1>1, <1>2, MarksStay

LEMMA ApplyStep == RadiusInv /\ (ApplyRecord \/ SkipRecord) => RadiusInv'
<1> SUFFICES ASSUME RadiusInv, ApplyRecord \/ SkipRecord PROVE RadiusInv'
  OBVIOUS
<1> DEFINE r == file[cur][read.from]
<1>1. /\ TypeInv /\ UNCHANGED <<net, spoiled, conn, pos, saved, pc, listed, cur>> /\ pc = "apply" /\ file' = file
      /\ read.from <= read.upto /\ read' = [read EXCEPT !.from = @ + 1, !.had = {}] /\ read \in Reading
  BY DEF RadiusInv, NetInv, ApplyRecord, SkipRecord, Ahead, NextRecord, TypeInv, net, db
<1>2. /\ cur \in Files /\ read.from \in 1..Len(file[cur]) /\ r \in Record
      /\ \/ /\ UNCHANGED <<tx, table, count>> /\ r.sid \in spoiled
         \/ \E row \in RowOf :
              /\ tx' = Inserted(tx, row) /\ table' \in {table, tx'} /\ count' = count + 1
              /\ row.user = r.user /\ row.sid \in {r.sid, NoSid} /\ row.ip \in {r.ip, Null}
              /\ row.kind = r.kind
              /\ Whole(r) => row.sid = r.sid /\ row.ip = r.ip /\ row.at = r.at
  BY RecordApplied
<1>3. /\ read' \in Reading /\ read'.from = read.from + 1 /\ read'.upto = read.upto
      /\ read'.had = {} /\ read'.head = read.head
  <2>1. /\ read.from \in Nat \ {0} /\ read.upto \in Nat /\ read.head \in SUBSET Attrs
        /\ read' = [from |-> read.from + 1, upto |-> read.upto, had |-> {}, head |-> read.head]
    BY <1>1 DEF Reading
  <2> QED BY <2>1 DEF Reading
<1>4. read.from \in Nat \ {0} /\ read.upto \in Nat
  BY <1>1 DEF Reading
<1>5. clock \in Nat /\ tx \in SUBSET Row /\ table \in SUBSET Row /\ count \in Nat
  BY <1>1 DEF TypeInv
<1> HIDE DEF r
<1>6. tx' \in SUBSET Row /\ table' \in SUBSET Row /\ count' \in Nat
  BY <1>2, <1>5, InsertedType
<1>7. TypeInv'
  BY <1>1, <1>3, <1>6 DEF TypeInv, net
<1>8. NetInv'
  BY <1>1, <1>7, NetKept DEF RadiusInv
<1>9. PosInv'
  BY <1>1 DEF RadiusInv, PosInv, Cut
<1>10. ReadInv'
  <2>1. /\ pos[cur].n + 1 <= read.from /\ pos[cur].n + 1 <= read.upto
        /\ read.upto <= Len(file[cur]) /\ pos[cur].n \in Nat
        /\ read.head # Attrs => read.upto # 0 /\ file[cur][read.upto].sid \in spoiled
    BY <1>1 DEF RadiusInv, ReadInv, TypeInv, Position
  <2>2. pos[cur].n + 1 <= read.from + 1 /\ read.from + 1 <= read.upto + 1
    BY <1>1, <1>4, <2>1
  <2> QED BY <1>1, <1>3, <2>1, <2>2 DEF ReadInv
<1>11. MarksInv'
  <2> SUFFICES ASSUME NEW f \in Files, NEW i \in 1..Len(file'[f]), Whole(file[f][i])'
               PROVE  /\ i <= pos'[f].n => Marked(table', file'[f][i])
                      /\ Applied(f, i)' => Marked(tx', file'[f][i])
    BY DEF MarksInv, Marked
  <2>1. /\ Whole(file[f][i]) /\ i \in 1..Len(file[f]) /\ i \in Nat \ {0} /\ file' = file /\ pos' = pos
        /\ file[f][i] \in Record
    BY <1>1, RecordAt DEF Whole
  <2>2. /\ i <= pos[f].n => Marked(table, file[f][i])
        /\ Applied(f, i) => Marked(tx, file[f][i])
        /\ i <= pos[f].n => Applied(f, i)
    BY <2>1 DEF RadiusInv, MarksInv, Applied
  <2>3. Applied(f, i)' => Applied(f, i) \/ (f = cur /\ i = read.from)
    BY <1>1, <1>3, <1>4, <2>1 DEF Applied
  <2>4. CASE UNCHANGED <<tx, table>> /\ r.sid \in spoiled
    <3>1. ~(f = cur /\ i = read.from)
      BY <2>1, <2>4 DEF r, Whole
    <3> QED BY <2>1, <2>2, <2>3, <2>4, <3>1
  <2>5. CASE \E row \in RowOf :
              /\ tx' = Inserted(tx, row) /\ table' \in {table, tx'}
              /\ row.user = r.user /\ row.sid \in {r.sid, NoSid} /\ row.ip \in {r.ip, Null}
              /\ row.kind = r.kind
              /\ Whole(r) => row.sid = r.sid /\ row.ip = r.ip /\ row.at = r.at
    <3>1. PICK row \in RowOf :
              /\ tx' = Inserted(tx, row) /\ table' \in {table, tx'}
              /\ row.user = r.user /\ row.sid \in {r.sid, NoSid} /\ row.ip \in {r.ip, Null}
              /\ row.kind = r.kind
              /\ Whole(r) => row.sid = r.sid /\ row.ip = r.ip /\ row.at = r.at
      BY <2>5
    <3>2. Applied(f, i) => Marked(tx', file[f][i])
      BY <1>2, <1>5, <2>1, <2>2, <3>1, MarksOfOthersStay DEF r
    <3>3. f = cur /\ i = read.from => Marked(tx', file[f][i])
      BY <1>5, <2>1, <3>1, MarkMade DEF r
    <3> QED BY <2>1, <2>2, <2>3, <3>1, <3>2, <3>3
  <2> QED BY <1>2, <2>4, <2>5
<1> QED BY <1>8, <1>9, <1>10, <1>11 DEF RadiusInv

LEMMA FinishStep == RadiusInv /\ FinishFile => RadiusInv'
<1> SUFFICES ASSUME RadiusInv, FinishFile PROVE RadiusInv'
  OBVIOUS
<1>1. /\ TypeInv /\ UNCHANGED <<net, spoiled, saved, listed, tx>> /\ table' = tx /\ file' = file
      /\ pc = "apply" /\ conn = "up" /\ read.from > read.upto /\ cur \in Files /\ read \in Reading
      /\ pos' = [pos EXCEPT ![cur] = ReadTo] /\ pos \in [Files -> Position]
      /\ pc' = "scan" /\ cur' = cur + 1 /\ read' = NothingRead /\ count' = 0
  BY DEF RadiusInv, NetInv, FinishFile, FileApplied, TypeInv, net
<1>2. read.from \in Nat \ {0} /\ read.upto \in Nat /\ read.head \in SUBSET Attrs
  BY <1>1 DEF Reading
<1>3. /\ pos[cur].n + 1 <= read.upto /\ read.from <= read.upto + 1 /\ read.upto <= Len(file[cur])
      /\ read.head # Attrs => read.upto # 0 /\ file[cur][read.upto].sid \in spoiled
      /\ read.had = {}
  BY <1>1, <1>2 DEF RadiusInv, ReadInv
<1>4. /\ ReadTo \in Position /\ ReadTo.n <= read.upto
      /\ ReadTo.n \in {read.upto, read.upto - 1}
      /\ ReadTo.had # {} => read.head # Attrs /\ ReadTo.n = read.upto - 1
  <2>1. CASE read.head = Attrs
    BY <1>2, <2>1 DEF ReadTo, Position
  <2>2. CASE read.head # Attrs
    BY <1>2, <1>3, <2>2 DEF ReadTo, Position
  <2> QED BY <2>1, <2>2
<1>5. \A f \in Files : pos'[f] = IF f = cur THEN ReadTo ELSE pos[f]
  BY <1>1
<1>6. pos[cur].n \in Nat /\ ReadTo.n \in Nat /\ Len(file[cur]) \in Nat
  BY <1>1, <1>4, RecordAt DEF Position
<1>7. TypeInv'
  <2>1. NothingRead \in Reading
    BY DEF NothingRead, Reading
  <2>2. pos' \in [Files -> Position] /\ cur' \in Nat \ {0}
    BY <1>1, <1>4 DEF Files
  <2> QED BY <1>1, <2>1, <2>2 DEF TypeInv, net
<1>8. NetInv'
  BY <1>1, <1>7, NetKept DEF RadiusInv
<1>9. PosInv'
  <2> SUFFICES ASSUME NEW f \in Files
               PROVE  /\ Cut(f, pos[f])' /\ Cut(f, saved[f])'
                      /\ saved'[f].n <= pos'[f].n /\ pos'[f].n <= Len(file'[f])
    BY DEF PosInv
  <2>1. Cut(f, pos[f]) /\ Cut(f, saved[f]) /\ saved[f].n <= pos[f].n /\ pos[f].n <= Len(file[f])
    BY DEF RadiusInv, PosInv
  <2>2. Cut(f, saved[f])' /\ saved' = saved
    BY <1>1, <2>1 DEF Cut
  <2>3. CASE f # cur
    <3>1. pos'[f] = pos[f]
      BY <1>5, <2>3
    <3> QED BY <1>1, <2>1, <2>2, <3>1 DEF Cut
  <2>4. CASE f = cur
    <3>1. pos'[f] = ReadTo
      BY <1>5, <2>4
    <3>2. /\ ReadTo.had # {} => read.head # Attrs /\ ReadTo.n + 1 = read.upto
          /\ ReadTo.n <= Len(file[f])
      BY <1>2, <1>3, <1>4, <1>6, <2>4
    <3>3. Cut(f, pos[f])'
      BY <1>1, <1>3, <2>4, <3>1, <3>2 DEF Cut
    <3>4. saved[f].n \in Nat /\ pos[f].n \in Nat
      BY <1>1 DEF TypeInv, Position
    <3>5. pos[f].n <= ReadTo.n
      BY <1>2, <1>3, <1>4, <1>6, <2>4
    <3>6. saved[f].n <= ReadTo.n
      BY <1>6, <2>1, <2>4, <3>4, <3>5
    <3> QED BY <1>1, <2>2, <3>1, <3>2, <3>3, <3>6
  <2> QED BY <2>3, <2>4
<1>10. ReadInv'
  BY <1>1 DEF ReadInv
<1>11. MarksInv'
  <2> SUFFICES ASSUME NEW f \in Files, NEW i \in 1..Len(file'[f]), Whole(file[f][i])', i <= pos'[f].n
               PROVE  Marked(table', file'[f][i]) /\ Marked(tx', file'[f][i])
    BY <1>1 DEF MarksInv, Marked, Applied
  <2>1. Whole(file[f][i]) /\ i \in 1..Len(file[f]) /\ i \in Nat
    BY <1>1, RecordAt DEF Whole
  <2>2. Applied(f, i)
    BY <1>1, <1>2, <1>4, <1>5, <1>6, <2>1 DEF Applied
  <2> QED BY <1>1, <2>1, <2>2 DEF RadiusInv, MarksInv
<1> QED BY <1>8, <1>9, <1>10, <1>11 DEF RadiusInv

LEMMA InvNext == RadiusInv /\ [Next]_vars => RadiusInv'
<1> SUFFICES ASSUME RadiusInv, [Next]_vars PROVE RadiusInv'
  OBVIOUS
<1>1. CASE Network
  BY <1>1, NetworkStep
<1>2. CASE ListFiles \/ EmptyPositions \/ WritePositions
  BY <1>2, RoundStep
<1>3. CASE \E f \in Files : Read(f) \/ ReadHalf(f)
  BY <1>3, ReadsStep
<1>4. CASE ApplyRecord \/ SkipRecord
  BY <1>4, ApplyStep
<1>5. CASE FinishFile
  BY <1>5, FinishStep
<1>6. CASE Failure
  BY <1>6, FaultStep
<1>7. CASE UNCHANGED vars
  <2>1. /\ TypeInv /\ TypeInv' /\ NetInv
    BY <1>7 DEF RadiusInv, NetInv, TypeInv, vars, net, db, at
  <2>2. NetInv'
    BY <1>7, <2>1, NetKept DEF vars
  <2>3. PosInv' /\ ReadInv' /\ MarksInv'
    BY <1>7 DEF RadiusInv, PosInv, ReadInv, MarksInv, Cut, Applied, Whole, vars, net, db, at
  <2> QED BY <2>2, <2>3 DEF RadiusInv
<1>8. CASE ConnectionDies
  BY <1>8, DeathStep
<1> QED BY <1>1, <1>2, <1>3, <1>4, <1>5, <1>6, <1>7, <1>8 DEF Next, Network, Watcher, Failure

LEMMA InvAlways == Spec => []RadiusInv
BY InvInit, InvNext, PTL DEF Spec

LEMMA MarksMeanNothingSkipped == RadiusInv => NothingSkipped
<1> SUFFICES ASSUME RadiusInv, NEW f \in Files, NEW i \in 1..pos[f].n, Whole(file[f][i])
             PROVE  LET r == file[f][i]
                        mine == {x \in table : x.user = r.user /\ x.sid = r.sid}
                    IN  /\ r.kind = "Start" => \E x \in mine : x.start = r.at /\ x.ip = r.ip
                        /\ r.kind = "Stop"  => \E x \in mine : x.stop = r.at
  BY DEF NothingSkipped
<1>1. pos[f].n \in Nat /\ pos[f].n <= Len(file[f]) /\ Len(file[f]) \in Nat
  BY RecordAt DEF RadiusInv, NetInv, TypeInv, PosInv, Position
<1>2. i \in 1..Len(file[f]) /\ i <= pos[f].n
  BY <1>1
<1>3. Marked(table, file[f][i])
  BY <1>2 DEF RadiusInv, MarksInv
<1> QED BY <1>3 DEF Marked

(* No record is skipped: each whole record before a file's position has left its mark *)
(* in the committed table, the Start the beginning of a row of its session and the    *)
(* Stop an end, whatever commits are lost, records cut in two and restarts met on the *)
(* way (watch_directory commits, and only then moves the position).                   *)
THEOREM EveryReadRecordIsStored == Spec => []NothingSkipped
BY InvAlways, MarksMeanNothingSkipped, PTL

-----------------------------------------------------------------------------
(* Who held an address: one session at a time.  A session that is not spoiled has the *)
(* record of its Start, and once it is over that of its Stop, written when it ended:  *)
(* whatever Stops of it there are besides come later.                                 *)

FilesInv == \A f \in Files : f > day => Len(file[f]) = 0

StopOf(sid, f, i) == f \in Files /\ i \in 1..Len(file[f]) /\ file[f][i].sid = sid /\ file[f][i].kind = "Stop"

Stopped(sid) == \E f, i : StopOf(sid, f, i)
Started(sid) == \E f \in Files : \E i \in 1..Len(file[f]) :
                  file[f][i].sid = sid /\ file[f][i].kind = "Start" /\ file[f][i].at = sid

OneHolder ==
  \A s, q \in sessions : s.ip = q.ip /\ s.sid < q.sid => s.end # Null /\ s.end < q.sid

StopsTell == \A s \in sessions : s.end = Null => ~Stopped(s.sid)

StartsAreThere == \A s \in sessions : s.sid \notin spoiled => Started(s.sid)
StopsAreThere  == \A s \in sessions : s.sid \notin spoiled /\ s.end # Null => Stopped(s.sid)

FirstStops ==
  \A s \in sessions : s.sid \notin spoiled => \A f, i : StopOf(s.sid, f, i) =>
    file[f][i].at = s.end \/ \E g, j : StopOf(s.sid, g, j) /\ Before(g, j, f, i)

SessionInv ==
  NetInv /\ FilesInv /\ OneHolder /\ StopsTell /\ StartsAreThere /\ StopsAreThere /\ FirstStops

LEMMA StopStays == ASSUME Grown, NEW sid, NEW f, NEW i, StopOf(sid, f, i) PROVE StopOf(sid, f, i)'
BY DEF Grown, StopOf

LEMMA StoppedStays == ASSUME Grown, NEW sid, Stopped(sid) PROVE Stopped(sid)'
BY StopStays DEF Stopped

LEMMA StartedStays == ASSUME Grown, NEW sid, Started(sid) PROVE Started(sid)'
<1>1. PICK f \in Files : \E i \in 1..Len(file[f]) :
                  file[f][i].sid = sid /\ file[f][i].kind = "Start" /\ file[f][i].at = sid
  BY DEF Started
<1>2. PICK i \in 1..Len(file[f]) : file[f][i].sid = sid /\ file[f][i].kind = "Start" /\ file[f][i].at = sid
  BY <1>1
<1>3. i \in 1..Len(file'[f]) /\ file'[f][i] = file[f][i]
  BY DEF Grown
<1> QED BY <1>2, <1>3 DEF Started

(* A Stop of the new files is one of the old, or it has just been written.            *)
LEMMA OldOrNew ==
  ASSUME SessionInv, NEW kind, NEW s, Moves(kind, s), NEW sid, NEW f, NEW i, StopOf(sid, f, i)'
  PROVE  \/ StopOf(sid, f, i) /\ file'[f][i] = file[f][i]
         \/ /\ sid = s.sid /\ kind = "Stop" /\ file'[f][i].at = clock'
            /\ \A g, j : StopOf(sid, g, j) => Before(g, j, f, i)
<1>1. f \in Files /\ i \in 1..Len(file'[f]) /\ file'[f][i].sid = sid /\ file'[f][i].kind = "Stop" /\ TypeInv
  BY DEF StopOf, SessionInv, NetInv
<1>2. Added(kind, s, clock') /\ Len(file[f]) \in Nat /\ Len(file'[f]) \in Nat /\ f \in Nat /\ day \in Nat
  <2>1. Added(kind, s, clock')
    BY DEF Moves
  <2>2. Len(file[f]) \in Nat
    BY <1>1, RecordAt
  <2>3. Len(file'[f]) \in Nat
    BY <1>1, <2>1 DEF Added
  <2>4. f \in Nat /\ day \in Nat
    BY <1>1 DEF Files, TypeInv
  <2> QED BY <2>1, <2>2, <2>3, <2>4
<1>3. CASE i \in 1..Len(file[f])
  <2>1. file'[f][i] = file[f][i]
    BY <1>1, <1>2, <1>3 DEF Added
  <2> QED BY <1>1, <1>3, <2>1 DEF StopOf
<1>4. CASE i \notin 1..Len(file[f])
  <2>1. f = day /\ OfSession(file'[f][i], s) /\ file'[f][i].kind \in {kind, "Garbled"} /\ file'[f][i].at = clock'
    BY <1>1, <1>2, <1>4 DEF Added
  <2>2. i > Len(file[f]) /\ i \in Nat
    BY <1>1, <1>2, <1>4
  <2>3. ASSUME NEW g, NEW j, StopOf(sid, g, j) PROVE Before(g, j, f, i)
    <3>1. g \in Files /\ g \in Nat /\ j \in 1..Len(file[g]) /\ Len(file[g]) \in Nat
      BY <1>1, <2>3, RecordAt DEF StopOf, Files
    <3>2. ~(g > day)
      BY <3>1 DEF SessionInv, FilesInv
    <3> QED BY <1>2, <2>1, <2>2, <3>1, <3>2 DEF Before
  <2> QED BY <1>1, <2>1, <2>3 DEF OfSession
<1> QED BY <1>3, <1>4

LEMMA SessionMoves ==
  ASSUME SessionInv, NEW kind, NEW s, Moves(kind, s)
  PROVE  SessionInv'
<1>1. /\ NetInv /\ NetInv' /\ Grown /\ TypeInv /\ spoiled \subseteq spoiled' /\ sessions \subseteq Visit
      /\ clock \in Nat /\ clock' \in Nat /\ clock <= clock' /\ Added(kind, s, clock') /\ day' = day
      /\ sessions' \subseteq Visit
  BY MovesKeepNet, SessionsMove DEF SessionInv, NetInv, TypeInv, Grown, Moves
<1>2. \A p \in sessions' : \/ p = s /\ Begins(kind, s)
                           \/ \E q \in sessions :
                                /\ p.user = q.user /\ p.sid = q.sid /\ p.ip = q.ip
                                /\ p.end = IF q = s /\ Ends(kind, s) THEN clock + 1 ELSE q.end
  BY <1>1, SessionsMove
<1>3. \A q \in sessions : q.sid \in Nat /\ q.sid <= clock /\ (q.end # Null => q.end \in Nat /\ q.end <= clock)
  BY <1>1 DEF NetInv, Identified, Visit
<1>4. Begins(kind, s) => /\ kind = "Start" /\ s.sid = clock + 1 /\ s.end = Null /\ clock' = clock + 1
                         /\ \A q \in sessions : q.ip = s.ip => q.end # Null
                         /\ Told("Start", s, clock + 1)
  BY DEF Begins
<1>5. Ends(kind, s) => /\ kind = "Stop" /\ s \in sessions /\ s.end = Null /\ clock' = clock + 1
                       /\ Told("Stop", s, clock + 1)
  BY DEF Ends
<1>6. FilesInv'
  <2>1. ASSUME NEW f \in Files, f > day PROVE Len(file'[f]) = 0
    <3>1. f # day /\ Len(file[f]) = 0
      BY <1>1, <2>1 DEF SessionInv, FilesInv, TypeInv, Files
    <3> QED BY <1>1, <3>1 DEF Added
  <2> QED BY <1>1, <2>1 DEF FilesInv
<1>7. OneHolder'
  <2> SUFFICES ASSUME NEW p \in sessions', NEW o \in sessions', p.ip = o.ip, p.sid < o.sid
               PROVE  p.end # Null /\ p.end < o.sid
    BY DEF OneHolder
  <2>1. CASE p = s /\ Begins(kind, s)
    <3>1. o.sid <= clock + 1 /\ o.sid \in Nat
      BY <1>1, <1>2, <1>3, <1>4, <2>1
    <3> QED BY <1>1, <1>4, <2>1, <3>1
  <2>2. CASE o = s /\ Begins(kind, s)
    <3>1. p # s
      BY <1>4, <2>2, <1>1
    <3>2. ~Ends(kind, s)
      BY <1>4, <1>5, <2>2
    <3>3. PICK q \in sessions : p.ip = q.ip /\ p.end = q.end
      BY <1>2, <3>1, <3>2
    <3> QED BY <1>1, <1>3, <1>4, <2>2, <3>3
  <2>3. ASSUME NEW q \in sessions, p.sid = q.sid, p.ip = q.ip,
               p.end = IF q = s /\ Ends(kind, s) THEN clock + 1 ELSE q.end,
               NEW r \in sessions, o.sid = r.sid, o.ip = r.ip
        PROVE  p.end # Null /\ p.end < o.sid
    <3>1. q.end # Null /\ q.end < r.sid
      BY <2>3 DEF SessionInv, OneHolder
    <3>2. ~(q = s /\ Ends(kind, s))
      BY <1>5, <3>1
    <3> QED BY <2>3, <3>1, <3>2
  <2> QED BY <1>2, <2>1, <2>2, <2>3
<1>8. Begins(kind, s) => \A f, i : ~StopOf(s.sid, f, i)
  <2> SUFFICES ASSUME Begins(kind, s), NEW f, NEW i, StopOf(s.sid, f, i) PROVE FALSE
    OBVIOUS
  <2>1. f \in Files /\ i \in 1..Len(file[f]) /\ file[f][i].sid = s.sid
    BY DEF StopOf
  <2>2. file[f][i].sid <= file[f][i].at /\ file[f][i].at <= clock /\ file[f][i] \in Record
    BY <1>1, <2>1, RecordAt DEF NetInv, Recorded
  <2> QED BY <1>1, <1>4, <2>1, <2>2 DEF Record
<1>9. StopsTell'
  <2> SUFFICES ASSUME NEW p \in sessions', p.end = Null, NEW f, NEW i, StopOf(p.sid, f, i)' PROVE FALSE
    BY DEF StopsTell, Stopped
  <2>1. \/ StopOf(p.sid, f, i)
        \/ p.sid = s.sid /\ kind = "Stop"
    BY OldOrNew
  <2>2. CASE p = s /\ Begins(kind, s)
    BY <1>4, <1>8, <2>1, <2>2
  <2>3. ASSUME NEW q \in sessions, p.sid = q.sid, p.end = IF q = s /\ Ends(kind, s) THEN clock + 1 ELSE q.end
        PROVE  FALSE
    <3>1. ~(q = s /\ Ends(kind, s)) /\ q.end = Null
      BY <1>1, <2>3, RadiusAssumption
    <3>2. ~StopOf(q.sid, f, i)
      BY <3>1 DEF SessionInv, StopsTell, Stopped
    <3>3. q.sid = s.sid /\ kind = "Stop"
      BY <2>1, <2>3, <3>2
    <3>4. s \in sessions /\ (Ends(kind, s) \/ s.end # Null)
      BY <3>3 DEF Moves, Begins, Goes, Ends
    <3>5. q = s
      BY <1>1, <3>3, <3>4 DEF NetInv, Identified
    <3> QED BY <3>1, <3>4, <3>5
  <2> QED BY <1>2, <2>2, <2>3
<1>10. StartsAreThere'
  <2> SUFFICES ASSUME NEW p \in sessions', NEW sid, sid = p.sid, sid \notin spoiled' PROVE Started(sid)'
    BY DEF StartsAreThere, Started
  <2>1. CASE p = s /\ Begins(kind, s)
    <3>1. PICK i \in 1..Len(file'[day]) :
            file'[day][i].sid = s.sid /\ file'[day][i].kind = "Start" /\ file'[day][i].at = clock + 1
      BY <1>4, <2>1 DEF Told
    <3>2. day \in Files
      BY <1>1 DEF TypeInv
    <3> QED BY <1>4, <2>1, <3>1, <3>2 DEF Started
  <2>2. CASE \E q \in sessions : p.sid = q.sid
    <3>1. Started(sid)
      BY <1>1, <2>2 DEF SessionInv, StartsAreThere
    <3> QED BY <1>1, <3>1, StartedStays
  <2> QED BY <1>2, <2>1, <2>2
<1>11. StopsAreThere'
  <2> SUFFICES ASSUME NEW p \in sessions', NEW sid, sid = p.sid, sid \notin spoiled', p.end # Null PROVE Stopped(sid)'
    BY DEF StopsAreThere, Stopped, StopOf
  <2>1. CASE p = s /\ Begins(kind, s)
    BY <1>4, <2>1
  <2>2. ASSUME NEW q \in sessions, p.sid = q.sid, p.end = IF q = s /\ Ends(kind, s) THEN clock + 1 ELSE q.end
        PROVE  Stopped(sid)'
    <3>1. CASE q = s /\ Ends(kind, s)
      <4>1. PICK i \in 1..Len(file'[day]) : file'[day][i].sid = s.sid /\ file'[day][i].kind = "Stop"
        BY <1>5, <2>2, <3>1 DEF Told
      <4>2. day \in Files
        BY <1>1 DEF TypeInv
      <4>3. StopOf(sid, day, i)'
        BY <2>2, <1>1, <3>1, <4>1, <4>2 DEF StopOf
      <4> QED BY <4>3 DEF Stopped
    <3>2. CASE ~(q = s /\ Ends(kind, s))
      <4>1. Stopped(sid)
        BY <1>1, <2>2, <3>2 DEF SessionInv, StopsAreThere
      <4> QED BY <1>1, <4>1, StoppedStays
    <3> QED BY <3>1, <3>2
  <2> QED BY <1>2, <2>1, <2>2
<1>12. FirstStops'
  <2> SUFFICES ASSUME NEW p \in sessions', p.sid \notin spoiled', NEW f, NEW i, NEW sid, sid = p.sid,
                      StopOf(sid, f, i)'
               PROVE  file'[f][i].at = p.end \/ \E g, j : StopOf(sid, g, j)' /\ Before(g, j, f, i)
    BY DEF FirstStops, StopOf, Before
  <2>1. \/ StopOf(sid, f, i) /\ file'[f][i] = file[f][i]
        \/ /\ sid = s.sid /\ kind = "Stop" /\ file'[f][i].at = clock'
           /\ \A g, j : StopOf(sid, g, j) => Before(g, j, f, i)
    BY OldOrNew
  <2>2. CASE p = s /\ Begins(kind, s)
    BY <1>4, <1>8, <2>1, <2>2
  <2>3. ASSUME NEW q \in sessions, p.sid = q.sid, p.end = IF q = s /\ Ends(kind, s) THEN clock + 1 ELSE q.end
        PROVE  file'[f][i].at = p.end \/ \E g, j : StopOf(sid, g, j)' /\ Before(g, j, f, i)
    <3>1. q.sid \notin spoiled /\ sid = q.sid
      BY <1>1, <2>3
    <3>2. CASE StopOf(sid, f, i) /\ file'[f][i] = file[f][i]
      <4>1. q.end # Null
        BY <3>1, <3>2 DEF SessionInv, StopsTell, Stopped
      <4>2. p.end = q.end
        BY <1>5, <2>3, <4>1
      <4>3. file[f][i].at = q.end \/ \E g, j : StopOf(sid, g, j) /\ Before(g, j, f, i)
        BY <3>1, <3>2 DEF SessionInv, FirstStops
      <4> QED BY <1>1, <3>2, <4>2, <4>3, StopStays
    <3>3. CASE /\ sid = s.sid /\ kind = "Stop" /\ file'[f][i].at = clock'
               /\ \A g, j : StopOf(sid, g, j) => Before(g, j, f, i)
      <4>1. s \in sessions /\ (Ends(kind, s) \/ s.end # Null)
        BY <3>3 DEF Moves, Begins, Goes, Ends
      <4>2. q = s
        BY <1>1, <3>1, <3>3, <4>1 DEF NetInv, Identified
      <4>3. CASE Ends(kind, s)
        BY <1>5, <2>3, <3>3, <4>2, <4>3
      <4>4. CASE s.end # Null
        <5>1. Stopped(sid)
          BY <3>1, <4>2, <4>4 DEF SessionInv, StopsAreThere
        <5>2. PICK g, j : StopOf(sid, g, j)
          BY <5>1 DEF Stopped
        <5> QED BY <1>1, <3>3, <5>2, StopStays
      <4> QED BY <4>1, <4>3, <4>4
    <3> QED BY <2>1, <3>2, <3>3
  <2> QED BY <1>2, <2>2, <2>3
<1> QED BY <1>1, <1>6, <1>7, <1>9, <1>10, <1>11, <1>12 DEF SessionInv

LEMMA SessionNetwork == SessionInv /\ Network => SessionInv'
<1> SUFFICES ASSUME SessionInv, Network PROVE SessionInv'
  OBVIOUS
<1>1. CASE \E kind, s : Moves(kind, s)
  BY <1>1, SessionMoves
<1>2. CASE Rests
  <2>1. UNCHANGED <<sessions, file, spoiled>> /\ NetInv' /\ day \in Nat /\ day' \in Nat /\ day <= day'
    BY <1>2, RestsKeepNet DEF Rests, SessionInv, NetInv, TypeInv, Files
  <2>2. FilesInv'
    BY <2>1 DEF SessionInv, FilesInv, Files
  <2>3. OneHolder' /\ StopsTell' /\ StartsAreThere' /\ StopsAreThere' /\ FirstStops'
    BY <2>1 DEF SessionInv, OneHolder, StopsTell, StartsAreThere, StopsAreThere, FirstStops, Stopped, StopOf, Started,
                Before
  <2> QED BY <2>1, <2>2, <2>3 DEF SessionInv
<1> QED BY <1>1, <1>2, NetworkMoves DEF SessionInv

(* The watcher changes nothing of that; a record read in two only spoils a session.    *)
LEMMA SessionWatcher ==
  ASSUME SessionInv, NetInv', UNCHANGED net, spoiled \subseteq spoiled'
  PROVE  SessionInv'
<1>1. UNCHANGED <<sessions, file, day>>
  BY DEF net
<1>2. FilesInv' /\ OneHolder' /\ StopsTell'
  BY <1>1 DEF SessionInv, FilesInv, OneHolder, StopsTell, Stopped, StopOf
<1>3. StartsAreThere' /\ StopsAreThere' /\ FirstStops'
  BY <1>1 DEF SessionInv, StartsAreThere, StopsAreThere, FirstStops, Stopped, StopOf, Started, Before
<1> QED BY <1>2, <1>3 DEF SessionInv

-----------------------------------------------------------------------------
(* The order of the files.  A file behind the one that is written is complete, and a  *)
(* file is read only when all before it have been read to their end: so no record is  *)
(* applied before an earlier one of its session, and neither copy of the positions is *)
(* ahead in one file and behind in the one before.                                    *)

Through(p, f) == \A i \in 1..Len(file[f]) : i <= p[f].n \/ file[f][i].sid \in spoiled

RoundInv ==
  /\ \A f \in listed : Len(file[f]) # 0
  /\ \A g \in listed, f \in Files \ listed : f < g => Len(file[f]) = 0
  /\ pc \in {"scan", "apply"} => \A g \in listed, f \in Files : f < cur /\ cur <= g => Through(pos, f)
  /\ pc = "apply" => cur \in listed /\ \A g \in listed : cur < g => read.upto = Len(file[cur])

OrderInv ==
  \A f, g \in Files : f < g => /\ pos[g].n # 0 => Through(pos, f)
                               /\ saved[g].n # 0 => Through(saved, f)

SweepInv == RadiusInv /\ SessionInv /\ RoundInv /\ OrderInv

(* Types that every step below needs.                                                 *)
LEMMA ListedTypes ==
  ASSUME SweepInv
  PROVE  TypeInv /\ listed \subseteq Files /\ cur \in Nat \ {0} /\ day \in Nat
BY DEF SweepInv, RadiusInv, NetInv, TypeInv, Files

LEMMA SweepTypes ==
  ASSUME SweepInv, NEW f \in Files
  PROVE  /\ f \in Nat \ {0} /\ day \in Nat /\ Len(file[f]) \in Nat /\ pos[f].n \in Nat /\ saved[f].n \in Nat
         /\ saved[f].n <= pos[f].n /\ pos[f].n <= Len(file[f]) /\ listed \subseteq Files /\ cur \in Nat \ {0}
         /\ TypeInv /\ (f > day => Len(file[f]) = 0)
<1>1. TypeInv /\ listed \subseteq Files /\ cur \in Nat \ {0} /\ day \in Nat
  BY ListedTypes
<1>2. f \in Nat \ {0} /\ Len(file[f]) \in Nat /\ pos[f].n \in Nat /\ saved[f].n \in Nat
  <2>1. f \in Nat \ {0}
    BY DEF Files
  <2>2. Len(file[f]) \in Nat
    BY <1>1, RecordAt
  <2>3. pos[f] \in Position /\ saved[f] \in Position
    BY <1>1 DEF TypeInv
  <2> QED BY <2>1, <2>2, <2>3 DEF Position
<1>3. saved[f].n <= pos[f].n /\ pos[f].n <= Len(file[f])
  BY DEF SweepInv, RadiusInv, PosInv
<1>4. f > day => Len(file[f]) = 0
  BY DEF SweepInv, SessionInv, FilesInv
<1> QED BY <1>1, <1>2, <1>3, <1>4

(* A file before one that has something is complete.                                  *)
LEMMA EarlierIsComplete ==
  ASSUME SweepInv, Network, NEW f \in Files, NEW g \in Files, f < g, Len(file[g]) # 0
  PROVE  file'[f] = file[f]
<1>1. f # day
  BY SweepTypes
<1>2. NetInv
  BY DEF SweepInv, SessionInv
<1> QED BY <1>1, <1>2, NetworkMoves DEF Moves, Added, Rests

LEMMA SweepNetwork == SweepInv /\ Network => SweepInv'
<1> SUFFICES ASSUME SweepInv, Network PROVE SweepInv'
  OBVIOUS
<1>1. /\ NetInv' /\ Grown /\ UNCHANGED <<db, pos, saved, at>> /\ RadiusInv' /\ SessionInv'
  BY NetworkKeeps, NetworkStep, SessionNetwork DEF SweepInv, RadiusInv
<1>2. /\ spoiled \subseteq spoiled' /\ UNCHANGED <<pos, saved, pc, listed, cur, read>>
  BY <1>1 DEF Grown, at
<1>3. \A f \in Files : Len(file'[f]) \in Nat /\ Len(file[f]) <= Len(file'[f])
  BY <1>1, RecordAt DEF Grown, NetInv, TypeInv
<1>4. ASSUME NEW f \in Files, NEW g \in Files, f < g, Len(file[g]) # 0
      PROVE  /\ file'[f] = file[f]
             /\ Through(pos, f) => Through(pos, f)'
             /\ Through(saved, f) => Through(saved, f)'
  BY <1>2, <1>4, EarlierIsComplete DEF Through
<1>5. RoundInv'
  <2>1. \A f \in listed : Len(file'[f]) # 0
    <3>1. \A f \in listed : f \in Files /\ Len(file[f]) # 0 /\ Len(file[f]) \in Nat
      BY ListedTypes, SweepTypes DEF SweepInv, RoundInv
    <3> QED BY <1>3, <3>1
  <2>2. \A g \in listed, f \in Files \ listed : f < g => Len(file'[f]) = 0
    BY <1>4, SweepTypes DEF SweepInv, RoundInv
  <2>3. ASSUME pc \in {"scan", "apply"}, NEW g \in listed, NEW f \in Files, f < cur, cur <= g
        PROVE  Through(pos, f)'
    <3>1. f < g /\ g \in Files
      BY <2>3, ListedTypes, SweepTypes
    <3> QED BY <1>4, <2>3, <3>1 DEF SweepInv, RoundInv
  <2>4. ASSUME pc = "apply" PROVE cur \in listed /\ \A g \in listed : cur < g => read.upto = Len(file'[cur])
    <3>1. cur \in listed /\ \A g \in listed : Len(file[g]) # 0 /\ (cur < g => read.upto = Len(file[cur]))
      BY <2>4 DEF SweepInv, RoundInv
    <3> QED BY <1>4, <3>1, ListedTypes
  <2> QED BY <1>2, <2>1, <2>2, <2>3, <2>4 DEF RoundInv, Through
<1>6. OrderInv'
  <2> SUFFICES ASSUME NEW f \in Files, NEW g \in Files, f < g
               PROVE  /\ pos[g].n # 0 => Through(pos, f)'
                      /\ saved[g].n # 0 => Through(saved, f)'
    BY <1>2 DEF OrderInv, Through
  <2>1. pos[g].n # 0 => Through(pos, f) /\ Len(file[g]) # 0
    BY SweepTypes DEF SweepInv, OrderInv
  <2>2. saved[g].n # 0 => Through(saved, f) /\ Len(file[g]) # 0
    BY SweepTypes DEF SweepInv, OrderInv
  <2> QED BY <1>4, <2>1, <2>2
<1> QED BY <1>1, <1>5, <1>6 DEF SweepInv

(* A step of the watcher.                                                             *)
LEMMA WatcherKeeps ==
  ASSUME SweepInv, [Next]_vars, UNCHANGED net, spoiled \subseteq spoiled'
  PROVE  /\ RadiusInv' /\ SessionInv' /\ file' = file /\ TypeInv'
         /\ \A f \in Files : \A p : Through(p, f) =>
              \A i \in 1..Len(file'[f]) : i <= p[f].n \/ file'[f][i].sid \in spoiled'
<1>1. RadiusInv' /\ NetInv'
  BY InvNext DEF SweepInv, RadiusInv
<1>2. SessionInv'
  BY <1>1, SessionWatcher DEF SweepInv
<1> QED BY <1>1, <1>2 DEF Through, net, RadiusInv, NetInv

LEMMA SweepList == SweepInv /\ ListFiles => SweepInv'
<1> SUFFICES ASSUME SweepInv, ListFiles PROVE SweepInv'
  OBVIOUS
<1>1. /\ UNCHANGED <<net, spoiled, pos, saved>> /\ listed' = {f \in Files : file[f] # <<>>} /\ cur' = 1
      /\ pc' = "scan"
  BY DEF ListFiles
<1>2. RadiusInv' /\ SessionInv' /\ file' = file
  BY <1>1, WatcherKeeps DEF Next, Watcher
<1>3. \A f \in Files : (Len(file[f]) = 0 <=> file[f] = <<>>) /\ ~(f < 1)
  <2>1. \A f \in Files : file[f] \in Seq(Record) /\ f \in Nat \ {0}
    BY RecordAt DEF SweepInv, RadiusInv, NetInv, Files
  <2> HIDE DEF Record
  <2> QED BY <2>1, EmptySeq
<1>4. RoundInv'
  BY <1>1, <1>2, <1>3 DEF RoundInv
<1>5. OrderInv'
  BY <1>1, <1>2 DEF SweepInv, OrderInv, Through
<1> QED BY <1>2, <1>4, <1>5 DEF SweepInv

LEMMA SweepRead == SweepInv /\ (\E f \in Files : Read(f) \/ ReadHalf(f)) => SweepInv'
<1> SUFFICES ASSUME SweepInv, NEW f \in Files, Read(f) \/ ReadHalf(f) PROVE SweepInv'
  OBVIOUS
<1>1. /\ UNCHANGED <<net, pos, saved, listed>> /\ spoiled \subseteq spoiled' /\ Reached(f)
      /\ pc' = "apply" /\ cur' = f /\ read'.upto = Len(file[f])
  BY DEF Read, ReadHalf
<1>2. RadiusInv' /\ SessionInv' /\ file' = file
  BY <1>1, WatcherKeeps DEF Next, Watcher
<1>3. /\ pc = "scan" /\ f \in listed /\ cur <= f
      /\ \A g \in listed : cur <= g /\ g < f => ~(pos[g].n < Len(file[g]))
  BY <1>1 DEF Reached, Unread
<1>4. ASSUME NEW g \in listed, NEW h \in Files, h < f, f <= g PROVE Through(pos, h)
  <2>1. CASE h \notin listed
    <3>1. Len(file[h]) = 0
      BY <1>3, <1>4, <2>1 DEF SweepInv, RoundInv
    <3> QED BY <3>1 DEF Through
  <2>2. CASE h \in listed /\ cur <= h
    <3>1. pos[h].n >= Len(file[h])
      BY <1>3, <1>4, <2>2, SweepTypes
    <3> QED BY <3>1, SweepTypes DEF Through
  <2>3. CASE h < cur
    <3>1. cur <= g
      BY <1>3, <1>4, SweepTypes
    <3> QED BY <1>3, <2>3, <3>1 DEF SweepInv, RoundInv
  <2> QED BY <2>1, <2>2, <2>3, SweepTypes
<1>5. RoundInv'
  BY <1>1, <1>2, <1>3, <1>4 DEF SweepInv, RoundInv, Through
<1>6. OrderInv'
  BY <1>1, <1>2 DEF SweepInv, OrderInv, Through
<1> QED BY <1>2, <1>5, <1>6 DEF SweepInv

LEMMA SweepApply == SweepInv /\ (ApplyRecord \/ SkipRecord) => SweepInv'
<1> SUFFICES ASSUME SweepInv, ApplyRecord \/ SkipRecord PROVE SweepInv'
  OBVIOUS
<1>1. UNCHANGED <<net, spoiled, pos, saved, pc, listed, cur>> /\ read'.upto = read.upto
  <2>1. read \in Reading /\ read' = [read EXCEPT !.from = @ + 1, !.had = {}]
    BY ListedTypes DEF TypeInv, ApplyRecord, SkipRecord, NextRecord
  <2>2. read'.upto = read.upto
    BY <2>1 DEF Reading
  <2> QED BY <2>2 DEF ApplyRecord, SkipRecord
<1>2. RadiusInv' /\ SessionInv' /\ file' = file
  BY <1>1, WatcherKeeps DEF Next, Watcher
<1>3. RoundInv' /\ OrderInv'
  BY <1>1, <1>2 DEF SweepInv, RoundInv, OrderInv, Through
<1> QED BY <1>2, <1>3 DEF SweepInv

LEMMA SweepFinish == SweepInv /\ FinishFile => SweepInv'
<1> SUFFICES ASSUME SweepInv, FinishFile PROVE SweepInv'
  OBVIOUS
<1>1. /\ UNCHANGED <<net, spoiled, saved, listed>> /\ pc = "apply" /\ pc' = "scan" /\ cur' = cur + 1
      /\ pos' = [pos EXCEPT ![cur] = ReadTo]
  BY DEF FinishFile, FileApplied
<1>2. RadiusInv' /\ SessionInv' /\ file' = file
  BY <1>1, WatcherKeeps DEF Next, Watcher
<1>3. /\ cur \in Files /\ TypeInv /\ cur \in listed /\ listed \subseteq Files /\ cur \in Nat \ {0}
      /\ read.upto \in Nat /\ read.head \in SUBSET Attrs
  BY <1>1, ListedTypes DEF TypeInv, Reading, SweepInv, RoundInv
<1>4. /\ pos[cur].n + 1 <= read.upto /\ read.upto <= Len(file[cur])
      /\ read.head # Attrs => file[cur][read.upto].sid \in spoiled
      /\ cur \in listed /\ \A g \in listed : cur < g => read.upto = Len(file[cur])
  BY <1>1 DEF SweepInv, RadiusInv, ReadInv, RoundInv
<1>5. /\ ReadTo.n \in Nat /\ (read.head = Attrs => ReadTo.n = read.upto)
      /\ (read.head # Attrs => ReadTo.n = read.upto - 1)
  <2>1. pos[cur].n \in Nat
    BY <1>3, SweepTypes
  <2> QED BY <1>3, <1>4, <2>1 DEF ReadTo
<1>6. \A f \in Files : pos'[f] = IF f = cur THEN ReadTo ELSE pos[f]
  BY <1>1, <1>3 DEF TypeInv
<1>7. \A f \in Files : pos[f].n \in Nat /\ pos'[f].n \in Nat /\ pos[f].n <= pos'[f].n
  <2> TAKE f \in Files
  <2>1. pos[f].n \in Nat
    BY SweepTypes
  <2>2. CASE f = cur
    <3>1. pos'[f] = ReadTo /\ pos[f].n + 1 <= read.upto
      BY <1>4, <1>6, <2>2
    <3> QED BY <1>3, <1>5, <2>1, <3>1
  <2>3. CASE f # cur
    <3>1. pos'[f] = pos[f]
      BY <1>6, <2>3
    <3> QED BY <2>1, <3>1
  <2> QED BY <2>2, <2>3
<1>8. ASSUME NEW f \in Files, Through(pos, f) PROVE Through(pos, f)'
  BY <1>1, <1>2, <1>7, <1>8, SweepTypes DEF Through
<1>9. ASSUME NEW f \in Files, f = cur, NEW g \in listed, cur < g PROVE Through(pos, f)'
  <2> SUFFICES ASSUME NEW i \in 1..Len(file[cur]), i > ReadTo.n PROVE file[cur][i].sid \in spoiled
    BY <1>1, <1>2, <1>3, <1>5, <1>6, <1>9, SweepTypes DEF Through
  <2>1. read.head # Attrs /\ i = read.upto
    BY <1>3, <1>4, <1>5, <1>9, SweepTypes
  <2> QED BY <1>4, <2>1
<1>10. RoundInv'
  <2>1. ASSUME NEW g \in listed, NEW f \in Files, f < cur + 1, cur + 1 <= g PROVE Through(pos, f)'
    <3>1. CASE f = cur
      <4>1. cur < g
        BY <1>3, <2>1, SweepTypes
      <4> QED BY <1>9, <3>1, <4>1
    <3>2. CASE f # cur
      <4>1. f < cur /\ cur <= g
        BY <1>3, <2>1, <3>2, SweepTypes
      <4> QED BY <1>1, <1>8, <4>1 DEF SweepInv, RoundInv
    <3> QED BY <3>1, <3>2
  <2> QED BY <1>1, <1>2, <2>1 DEF SweepInv, RoundInv, Through
<1>11. OrderInv'
  <2>1. ASSUME NEW f \in Files, NEW g \in Files, f < g, pos'[g].n # 0 PROVE Through(pos, f)'
    <3>1. CASE g = cur
      <4>1. Through(pos, f)
        BY <1>1, <1>3, <2>1, <3>1 DEF SweepInv, RoundInv
      <4> QED BY <1>8, <4>1
    <3>2. CASE g # cur
      <4>1. Through(pos, f)
        BY <1>6, <2>1, <3>2 DEF SweepInv, OrderInv
      <4> QED BY <1>8, <4>1
    <3> QED BY <3>1, <3>2
  <2>2. \A f, g \in Files : f < g /\ saved'[g].n # 0 => Through(saved, f)'
    BY <1>1, <1>2 DEF SweepInv, OrderInv, Through
  <2> QED BY <2>1, <2>2 DEF OrderInv, Through
<1> QED BY <1>2, <1>10, <1>11 DEF SweepInv

(* A round that ends, one that is given up, and a step of neither.                    *)
LEMMA SweepRest ==
  SweepInv /\ (\/ EmptyPositions \/ WritePositions \/ Failure \/ ConnectionDies \/ UNCHANGED vars) => SweepInv'
<1> SUFFICES ASSUME SweepInv,
                    EmptyPositions \/ WritePositions \/ Failure \/ ConnectionDies \/ UNCHANGED vars
             PROVE  SweepInv'
  OBVIOUS
<1>1. UNCHANGED <<net, spoiled>> /\ [Next]_vars
  BY DEF EmptyPositions, WritePositions, Failure, RecordRefused, DbError, StillDead, CommitAnswerLost, Restart,
         ConnectionDies, vars, Next, Watcher
<1>2. RadiusInv' /\ SessionInv' /\ file' = file
  BY <1>1, WatcherKeeps
<1>3. RoundInv'
  <2>1. CASE UNCHANGED vars
    BY <2>1 DEF SweepInv, RoundInv, Through, vars, net, at
  <2>2. CASE EmptyPositions
    BY <1>2, <2>2 DEF SweepInv, RoundInv, EmptyPositions
  <2>3. CASE WritePositions \/ Failure
    <3>1. listed' = {} /\ pc' = "list"
      BY <2>3 DEF WritePositions, Failure, RecordRefused, DbError, StillDead, CommitAnswerLost, Restart, Again
    <3> QED BY <3>1 DEF RoundInv
  <2>4. CASE ConnectionDies
    BY <1>1, <1>2, <2>4 DEF SweepInv, RoundInv, Through, ConnectionDies, at
  <2> QED BY <2>1, <2>2, <2>3, <2>4
<1>4. \/ saved' = saved /\ pos' = pos
      \/ saved' = [f \in Files |-> Origin] /\ pos' = pos
      \/ saved' = pos /\ pos' = pos
      \/ saved' = saved /\ pos' = saved
  BY DEF EmptyPositions, WritePositions, Failure, RecordRefused, DbError, StillDead, CommitAnswerLost, Restart,
         ConnectionDies, vars
<1>5. OrderInv'
  <2>1. CASE saved' = saved /\ pos' = pos
    BY <1>1, <1>2, <2>1 DEF SweepInv, OrderInv, Through
  <2>2. CASE saved' = [f \in Files |-> Origin] /\ pos' = pos
    <3>1. \A g \in Files : saved'[g].n = 0
      BY <2>2 DEF Origin
    <3> QED BY <1>1, <1>2, <2>2, <3>1 DEF SweepInv, OrderInv, Through
  <2>3. CASE saved' = pos /\ pos' = pos
    BY <1>1, <1>2, <2>3 DEF SweepInv, OrderInv, Through
  <2>4. CASE saved' = saved /\ pos' = saved
    BY <1>1, <1>2, <2>4 DEF SweepInv, OrderInv, Through
  <2> QED BY <1>4, <2>1, <2>2, <2>3, <2>4
<1> QED BY <1>2, <1>3, <1>5 DEF SweepInv

LEMMA SweepNext == SweepInv /\ [Next]_vars => SweepInv'
BY SweepNetwork, SweepList, SweepRead, SweepApply, SweepFinish, SweepRest DEF Next, Network, Watcher, Failure

LEMMA SweepInit == Init => SweepInv
<1> SUFFICES ASSUME Init PROVE SweepInv
  OBVIOUS
<1>1. RadiusInv /\ \A f \in Files : Len(file[f]) = 0
  BY InvInit DEF Init
<1>2. FilesInv
  BY <1>1 DEF FilesInv
<1>3. OneHolder /\ StopsTell /\ StartsAreThere /\ StopsAreThere /\ FirstStops
  BY DEF Init, OneHolder, StopsTell, StartsAreThere, StopsAreThere, FirstStops
<1>4. RoundInv /\ OrderInv
  BY <1>1 DEF Init, RoundInv, OrderInv, Through
<1> QED BY <1>1, <1>2, <1>3, <1>4 DEF SweepInv, SessionInv, RadiusInv

-----------------------------------------------------------------------------
(* What is open.  A whole Stop that has been applied leaves no open row of its        *)
(* session but those that a later record of the session opened, none before its date; *)
(* and no row of a session is closed before its Stop was written.                     *)

ReopenedBy(f, i, t) ==
  \E g \in Files : \E j \in 1..Len(file[g]) :
    file[g][j].sid = file[f][i].sid /\ Before(f, i, g, j) /\ file[g][j].at <= t

ClosedInv ==
  \A f \in Files : \A i \in 1..Len(file[f]) : Whole(file[f][i]) /\ file[f][i].kind = "Stop" =>
    /\ i <= pos[f].n => \A x \in OpenOf(table, file[f][i]) : ReopenedBy(f, i, x.start)
    /\ Applied(f, i) => \A x \in OpenOf(tx, file[f][i]) : ReopenedBy(f, i, x.start)

ClosedMeansStopped == \A x \in tx \cup table : x.stop # Null /\ x.sid # NoSid => Stopped(x.sid)

OpenInv == SweepInv /\ ClosedInv /\ ClosedMeansStopped

(* A record is applied after those of its session that were before.                   *)
LEMMA AppliedInOrder ==
  ASSUME SweepInv, pc = "apply", read.from \in 1..Len(file[cur]),
         NEW f \in Files, NEW i \in 1..Len(file[f]), Applied(f, i),
         file[f][i].sid \notin spoiled, file[cur][read.from].sid = file[f][i].sid
  PROVE  Before(f, i, cur, read.from)
<1>1. /\ cur \in Files /\ cur \in Nat /\ f \in Nat /\ i \in Nat \ {0} /\ read.from \in Nat
      /\ pos[cur].n \in Nat /\ pos[f].n \in Nat /\ pos[cur].n + 1 <= read.from
  BY ListedTypes, SweepTypes DEF TypeInv, SweepInv, RadiusInv, ReadInv
<1>2. CASE f = cur
  BY <1>1, <1>2 DEF Applied, Before
<1>3. CASE cur < f
  <2>1. pos[f].n # 0
    BY <1>1, <1>3 DEF Applied
  <2>2. Through(pos, cur)
    BY <1>1, <1>3, <2>1 DEF SweepInv, OrderInv
  <2> QED BY <1>1, <2>2 DEF Through
<1> QED BY <1>1, <1>2, <1>3 DEF Before

LEMMA ReopenedStays ==
  ASSUME Grown, NEW f \in Files, NEW i \in 1..Len(file[f]), NEW t, ReopenedBy(f, i, t)
  PROVE  ReopenedBy(f, i, t)'
<1>1. PICK g \in Files : \E j \in 1..Len(file[g]) :
        file[g][j].sid = file[f][i].sid /\ Before(f, i, g, j) /\ file[g][j].at <= t
  BY DEF ReopenedBy
<1>2. PICK j \in 1..Len(file[g]) :
        file[g][j].sid = file[f][i].sid /\ Before(f, i, g, j) /\ file[g][j].at <= t
  BY <1>1
<1>3. /\ j \in 1..Len(file'[g]) /\ file'[g][j] = file[g][j]
      /\ file'[f][i] = file[f][i]
  BY DEF Grown
<1> QED BY <1>2, <1>3 DEF ReopenedBy, Before

(* What is applied is there.                                                          *)
LEMMA AppliedIsThere ==
  ASSUME SweepInv, NEW f \in Files, NEW i \in Nat \ {0}, Applied(f, i)
  PROVE  i \in 1..Len(file[f])
<1>1. Len(file[f]) \in Nat /\ pos[f].n \in Nat /\ pos[f].n <= Len(file[f])
  BY SweepTypes
<1>2. CASE i <= pos[f].n
  BY <1>1, <1>2
<1>3. CASE pc = "apply" /\ f = cur /\ i < read.from
  <2>1. read.from <= read.upto + 1 /\ read.upto <= Len(file[f]) /\ read.from \in Nat /\ read.upto \in Nat
    BY <1>3, ListedTypes DEF SweepInv, RadiusInv, ReadInv, TypeInv, Reading
  <2> QED BY <1>1, <1>3, <2>1
<1> QED BY <1>2, <1>3 DEF Applied

LEMMA OpenNetwork == OpenInv /\ Network => OpenInv'
<1> SUFFICES ASSUME OpenInv, Network PROVE OpenInv'
  OBVIOUS
<1>1. SweepInv' /\ Grown /\ UNCHANGED <<db, pos, saved, at>>
  BY SweepNetwork, NetworkKeeps DEF OpenInv, SweepInv, RadiusInv
<1>2. /\ spoiled \subseteq spoiled' /\ UNCHANGED <<table, tx, conn, pos, pc, cur, read>>
  BY <1>1 DEF Grown, at, db
<1>3. ClosedInv'
  <2> SUFFICES ASSUME NEW f \in Files, NEW i \in 1..Len(file'[f]), NEW r, r = file'[f][i],
                      r.kind = "Stop", r.sid \notin spoiled'
               PROVE  /\ i <= pos[f].n => \A x \in OpenOf(table, r) : ReopenedBy(f, i, x.start)'
                      /\ Applied(f, i) => \A x \in OpenOf(tx, r) : ReopenedBy(f, i, x.start)'
    BY <1>2 DEF ClosedInv, Whole, Applied, OpenOf, ReopenedBy, Before
  <2>1. i \in Nat \ {0}
    <3>1. Len(file'[f]) \in Nat
      BY <1>1, RecordAt DEF SweepInv, RadiusInv, NetInv, TypeInv
    <3> QED BY <3>1
  <2>2. Applied(f, i) => i \in 1..Len(file[f])
    BY <2>1, AppliedIsThere DEF OpenInv
  <2>3. i \in 1..Len(file[f]) => r = file[f][i] /\ Whole(file[f][i])
    BY <1>1, <1>2 DEF Grown, Whole
  <2>4. i <= pos[f].n => Applied(f, i)
    BY DEF Applied
  <2>5. ASSUME Applied(f, i), NEW x, ReopenedBy(f, i, x.start) PROVE ReopenedBy(f, i, x.start)'
    <3>1. PICK t : t = x.start
      OBVIOUS
    <3>2. ReopenedBy(f, i, t)'
      BY <1>1, <2>2, <2>5, <3>1, ReopenedStays
    <3> QED BY <3>1, <3>2
  <2> QED BY <2>2, <2>3, <2>4, <2>5 DEF OpenInv, ClosedInv
<1>4. ClosedMeansStopped'
  <2> SUFFICES ASSUME NEW x \in tx \cup table, x.stop # Null, x.sid # NoSid, NEW sid, sid = x.sid PROVE Stopped(sid)'
    BY <1>2 DEF ClosedMeansStopped, Stopped, StopOf
  <2>1. Stopped(sid)
    BY DEF OpenInv, ClosedMeansStopped
  <2> QED BY <1>1, <2>1, StoppedStays
<1> QED BY <1>1, <1>3, <1>4 DEF OpenInv

(* The facts of one record's row, whole as one that is not of a spoiled session is.   *)
RowFrom(row, r) ==
  /\ row \in RowOf /\ tx' = Inserted(tx, row) /\ table' \in {table, tx'} /\ count' = count + 1
  /\ row.user = r.user /\ row.sid \in {r.sid, NoSid} /\ row.ip \in {r.ip, Null} /\ row.kind = r.kind
  /\ Whole(r) => row.sid = r.sid /\ row.ip = r.ip /\ row.at = r.at

(* An open row of the session of a Stop applied before, or just now.                  *)
LEMMA OpenAfterStop ==
  ASSUME OpenInv, pc = "apply", read.from \in 1..Len(file[cur]), cur \in Files,
         NEW row, RowFrom(row, file[cur][read.from]), file[cur][read.from].kind # "Garbled",
         NEW f \in Files, NEW i \in 1..Len(file[f]), Whole(file[f][i]), file[f][i].kind = "Stop",
         Applied(f, i) \/ (f = cur /\ i = read.from),
         NEW y \in OpenOf(tx', file[f][i])
  PROVE  ReopenedBy(f, i, y.start)
<1> DEFINE r == file[cur][read.from]
           s == file[f][i]
<1>1. /\ SweepInv /\ NetInv /\ TypeInv /\ clock \in Nat /\ tx \in SUBSET Row /\ r \in Record /\ s \in Record
      /\ row \in RowOf /\ tx' = Inserted(tx, row)
  <2>1. SweepInv /\ NetInv /\ TypeInv
    BY DEF OpenInv, SweepInv, RadiusInv, NetInv
  <2>2. clock \in Nat /\ tx \in SUBSET Row
    BY <2>1 DEF TypeInv
  <2> QED BY <2>1, <2>2, RecordAt DEF RowFrom
<1>2. y \in tx' /\ y.sid = s.sid /\ y.user = s.user /\ y.stop = Null /\ s.sid \in Nat /\ s.sid # NoSid
  BY <1>1, RadiusAssumption DEF OpenOf, Record
<1>3. Applied(f, i) => \A x \in OpenOf(tx, s) : ReopenedBy(f, i, x.start)
  BY DEF OpenInv, ClosedInv
<1>4. \/ y \in tx /\ (row.kind = "Stop" => y \notin OpenOf(tx, row))
      \/ /\ \E x \in OpenOf(tx, row) : y.start = x.start /\ y.ip \in {x.ip, row.ip}
         /\ y.user = row.user /\ y.sid = row.sid
         /\ row.kind = "Stop" => y.stop = row.at
         /\ row.kind = "Interim" => y.stop = Null
         /\ row.kind # "Start"
      \/ /\ y.user = row.user /\ y.sid = row.sid /\ y.ip = row.ip
         /\ row.kind = "Stop" => y.stop = row.at /\ y.start = row.at
         /\ row.kind = "Start" => y.stop = Null /\ y.start = row.at
         /\ row.kind = "Interim" => y.stop = Null /\ y.start = clock
  BY <1>1, <1>2, Origins
<1>5. row.at \in Nat /\ row.at # Null /\ row.kind \in Kinds
  BY <1>1, RadiusAssumption DEF RowOf
<1>6. CASE row.sid # s.sid
  <2>1. y \in OpenOf(tx, s)
    BY <1>2, <1>4, <1>6 DEF OpenOf
  <2>2. ~(f = cur /\ i = read.from)
    BY <1>6 DEF RowFrom
  <2> QED BY <1>3, <2>1, <2>2
<1>7. CASE row.sid = s.sid
  <2>1. r.sid = s.sid
    BY <1>2, <1>7 DEF RowFrom
  <2>2. row.user = s.user /\ row.kind = r.kind
    BY <1>1, <2>1, OneSession DEF RowFrom
  <2>3. Whole(r) /\ row.at = r.at
    BY <2>1 DEF RowFrom, Whole
  <2>4. row.kind # "Stop"
    BY <1>2, <1>4, <1>5, <1>7, <2>2 DEF OpenOf
  <2>5. Applied(f, i)
    BY <2>2, <2>4
  <2>6. Before(f, i, cur, read.from)
    BY <1>1, <2>1, <2>5, AppliedInOrder DEF Whole
  <2>7. r.at <= clock
    BY <1>1 DEF NetInv, Recorded
  <2>8. CASE y \in tx
    BY <1>2, <1>3, <2>5, <2>8 DEF OpenOf
  <2>9. ASSUME NEW x \in OpenOf(tx, row), y.start = x.start PROVE ReopenedBy(f, i, y.start)
    <3>1. x \in OpenOf(tx, s)
      BY <1>7, <2>2 DEF OpenOf
    <3> QED BY <1>3, <2>5, <2>9, <3>1
  <2>10. ASSUME row.kind = "Start" => y.start = row.at, row.kind = "Interim" => y.start = clock
         PROVE  ReopenedBy(f, i, y.start)
    <3>1. r.at <= y.start
      BY <1>5, <2>3, <2>4, <2>7, <2>10 DEF Kinds
    <3> QED BY <2>1, <2>6, <3>1 DEF ReopenedBy
  <2> QED BY <1>4, <2>8, <2>9, <2>10
<1> QED BY <1>6, <1>7

LEMMA OpenApply == OpenInv /\ (ApplyRecord \/ SkipRecord) => OpenInv'
<1> SUFFICES ASSUME OpenInv, ApplyRecord \/ SkipRecord PROVE OpenInv'
  OBVIOUS
<1> DEFINE r == file[cur][read.from]
<1>1. /\ SweepInv /\ SweepInv' /\ RadiusInv /\ UNCHANGED <<pos, pc, cur, conn, spoiled, file>> /\ pc = "apply"
      /\ r.kind # "Garbled"
  BY SweepApply DEF OpenInv, SweepInv, ApplyRecord, SkipRecord, Ahead, net, db, Current
<1>2. /\ read \in Reading /\ read.from \in Nat /\ read'.from = read.from + 1
      /\ clock \in Nat /\ tx \in SUBSET Row /\ table \in SUBSET Row
  <2>1. read \in Reading /\ read' = [read EXCEPT !.from = @ + 1, !.had = {}]
    BY <1>1, ListedTypes DEF TypeInv, ApplyRecord, SkipRecord, NextRecord
  <2>2. read.from \in Nat /\ read'.from = read.from + 1
    BY <2>1 DEF Reading
  <2>3. clock \in Nat /\ tx \in SUBSET Row /\ table \in SUBSET Row
    BY <1>1, ListedTypes DEF TypeInv
  <2> QED BY <2>1, <2>2, <2>3
<1>3. /\ cur \in Files /\ read.from \in 1..Len(file[cur]) /\ r \in Record
      /\ \/ UNCHANGED <<tx, table, count>> /\ r.sid \in spoiled
         \/ \E row : RowFrom(row, r)
  BY <1>1, RecordApplied DEF RowFrom
<1> HIDE DEF r
<1>5. ClosedInv'
  <2> SUFFICES ASSUME NEW f \in Files, NEW i \in 1..Len(file[f]), Whole(file[f][i]), file[f][i].kind = "Stop"
               PROVE  /\ i <= pos[f].n => \A x \in OpenOf(table', file[f][i]) : ReopenedBy(f, i, x.start)
                      /\ Applied(f, i)' => \A x \in OpenOf(tx', file[f][i]) : ReopenedBy(f, i, x.start)
    BY <1>1 DEF ClosedInv, Whole, OpenOf, ReopenedBy
  <2>1. /\ i <= pos[f].n => \A x \in OpenOf(table, file[f][i]) : ReopenedBy(f, i, x.start)
        /\ Applied(f, i) => \A x \in OpenOf(tx, file[f][i]) : ReopenedBy(f, i, x.start)
        /\ i <= pos[f].n => Applied(f, i)
    BY DEF OpenInv, ClosedInv, Applied
  <2>2. Applied(f, i)' => Applied(f, i) \/ (f = cur /\ i = read.from)
    <3>1. i \in Nat /\ pos' = pos /\ cur' = cur /\ pc' = pc /\ conn' = conn
      BY <1>1, ListedTypes, RecordAt
    <3> QED BY <1>2, <3>1 DEF Applied
  <2>3. CASE UNCHANGED <<tx, table, count>> /\ r.sid \in spoiled
    <3>1. ~(f = cur /\ i = read.from)
      BY <2>3 DEF r, Whole
    <3> QED BY <2>1, <2>2, <2>3, <3>1
  <2>4. ASSUME NEW row, RowFrom(row, r)
        PROVE  /\ i <= pos[f].n => \A x \in OpenOf(table', file[f][i]) : ReopenedBy(f, i, x.start)
               /\ Applied(f, i)' => \A x \in OpenOf(tx', file[f][i]) : ReopenedBy(f, i, x.start)
    <3>1. ASSUME Applied(f, i) \/ (f = cur /\ i = read.from)
          PROVE  \A x \in OpenOf(tx', file[f][i]) : ReopenedBy(f, i, x.start)
      BY <1>1, <1>3, <2>4, <3>1, OpenAfterStop DEF r
    <3>2. table' \in {table, tx'}
      BY <2>4 DEF RowFrom
    <3> QED BY <2>1, <2>2, <3>1, <3>2
  <2> QED BY <1>3, <2>3, <2>4
<1>6. ClosedMeansStopped'
  <2>1. \A x \in tx \cup table : x.stop # Null /\ x.sid # NoSid => Stopped(x.sid)
    BY DEF OpenInv, ClosedMeansStopped
  <2>2. ASSUME NEW row, RowFrom(row, r), NEW y \in tx', y.stop # Null, y.sid # NoSid
        PROVE  Stopped(y.sid)
    <3>1. CASE y \in tx
      BY <2>1, <2>2, <3>1
    <3>2. CASE y \notin tx
      <4>1. y.sid = row.sid /\ row.kind = "Stop"
        <5>1. row \in RowOf /\ row.kind \in Kinds /\ y \in Inserted(tx, row)
          BY <2>2 DEF RowFrom, RowOf
        <5> QED BY <1>2, <2>2, <3>2, <5>1, Origins DEF Kinds
      <4>2. y.sid = r.sid /\ r.kind = "Stop"
        BY <2>2, <4>1 DEF RowFrom
      <4> QED BY <1>3, <4>2 DEF Stopped, StopOf, r
    <3> QED BY <3>1, <3>2
  <2>3. \A x \in tx' \cup table' : x.stop # Null /\ x.sid # NoSid => Stopped(x.sid)
    BY <1>3, <2>1, <2>2 DEF RowFrom
  <2> QED BY <1>1, <2>3 DEF ClosedMeansStopped, Stopped, StopOf
<1> QED BY <1>1, <1>5, <1>6 DEF OpenInv

(* A step of the watcher that applies nothing.                                         *)
Pauses ==
  \/ ListFiles \/ (\E f \in Files : Read(f) \/ ReadHalf(f)) \/ FinishFile
  \/ EmptyPositions \/ WritePositions \/ Failure \/ ConnectionDies \/ UNCHANGED vars

LEMMA PausesKeep ==
  ASSUME Pauses
  PROVE  /\ UNCHANGED <<sessions, file, clock>> /\ spoiled \subseteq spoiled'
         /\ table' \in {table, tx} /\ tx' \in {table, tx}
BY DEF Pauses, ListFiles, Read, ReadHalf, FinishFile, EmptyPositions, WritePositions, Failure, RecordRefused,
       DbError, StillDead, CommitAnswerLost, Restart, ConnectionDies, vars, net, db

LEMMA OpenRest == OpenInv /\ Pauses => OpenInv'
<1> SUFFICES ASSUME OpenInv, Pauses PROVE OpenInv'
  OBVIOUS
<1>1. SweepInv /\ SweepInv'
  BY SweepNext DEF OpenInv, Pauses, Failure, Next, Watcher
<1>2. file' = file /\ spoiled \subseteq spoiled' /\ table' \in {table, tx} /\ tx' \in {table, tx}
  BY PausesKeep
<1>3. ASSUME NEW f \in Files, NEW i \in 1..Len(file[f])
      PROVE  /\ i <= pos'[f].n => Applied(f, i)
             /\ Applied(f, i)' => Applied(f, i)
             /\ i <= pos'[f].n /\ table' # tx => i <= pos[f].n
             /\ Applied(f, i)' /\ tx' # tx => i <= pos[f].n
  <2>1. /\ TypeInv /\ pos[f].n \in Nat /\ saved[f].n \in Nat /\ saved[f].n <= pos[f].n /\ i \in Nat \ {0}
        /\ read \in Reading /\ pos \in [Files -> Position]
    BY <1>1, ListedTypes, SweepTypes DEF TypeInv
  <2>2. CASE \E g \in Files : Read(g) \/ ReadHalf(g)
    <3>1. PICK g \in Files : Read(g) \/ ReadHalf(g)
      BY <2>2
    <3>2. /\ pos' = pos /\ tx' = tx /\ table' = table /\ cur' = g /\ read'.from = pos[g].n + 1
      BY <3>1 DEF Read, ReadHalf, db
    <3> QED BY <2>1, <3>2 DEF Applied
  <2>3. CASE FinishFile
    <3>1. /\ pos' = [pos EXCEPT ![cur] = ReadTo] /\ tx' = tx /\ table' = tx /\ pc = "apply" /\ pc' = "scan"
          /\ read.from > read.upto /\ conn = "up"
      BY <2>3 DEF FinishFile, FileApplied
    <3>2. read.from \in Nat /\ read.upto \in Nat /\ ReadTo.n \in {read.upto, read.upto - 1}
      BY <2>1 DEF Reading, ReadTo
    <3>3. pos'[f].n = IF f = cur THEN ReadTo.n ELSE pos[f].n
      BY <2>1, <3>1
    <3> QED BY <2>1, <3>1, <3>2, <3>3 DEF Applied
  <2>4. CASE ListFiles \/ EmptyPositions \/ WritePositions \/ Failure
    <3>1. pos' \in {pos, saved} /\ pc' # "apply"
      BY <2>4 DEF ListFiles, EmptyPositions, WritePositions, Failure, RecordRefused, DbError, StillDead,
                  CommitAnswerLost, Restart, Again
    <3>2. pos'[f].n <= pos[f].n /\ pos'[f].n \in Nat
      BY <2>1, <3>1
    <3> QED BY <2>1, <3>1, <3>2 DEF Applied
  <2>5. CASE UNCHANGED vars
    BY <2>5 DEF vars, at, db, Applied
  <2>6. CASE ConnectionDies
    BY <2>6 DEF ConnectionDies, Applied
  <2> QED BY <2>2, <2>3, <2>4, <2>5, <2>6 DEF Pauses
<1>4. ClosedInv'
  <2> SUFFICES ASSUME NEW f \in Files, NEW i \in 1..Len(file[f]), Whole(file[f][i]), file[f][i].kind = "Stop"
               PROVE  /\ i <= pos'[f].n => \A x \in OpenOf(table', file[f][i]) : ReopenedBy(f, i, x.start)
                      /\ Applied(f, i)' => \A x \in OpenOf(tx', file[f][i]) : ReopenedBy(f, i, x.start)
    BY <1>2 DEF ClosedInv, Whole, OpenOf, ReopenedBy
  <2>1. /\ i <= pos[f].n => \A x \in OpenOf(table, file[f][i]) : ReopenedBy(f, i, x.start)
        /\ Applied(f, i) => \A x \in OpenOf(tx, file[f][i]) : ReopenedBy(f, i, x.start)
    BY DEF OpenInv, ClosedInv
  <2> QED BY <1>2, <1>3, <2>1
<1>5. ClosedMeansStopped'
  BY <1>2 DEF OpenInv, ClosedMeansStopped, Stopped, StopOf
<1> QED BY <1>1, <1>4, <1>5 DEF OpenInv

LEMMA OpenInit == Init => OpenInv
<1> SUFFICES ASSUME Init PROVE OpenInv
  OBVIOUS
<1>1. \A f \in Files : Len(file[f]) = 0
  BY DEF Init
<1> QED BY <1>1, SweepInit DEF Init, OpenInv, ClosedInv, ClosedMeansStopped

LEMMA OpenNext == OpenInv /\ [Next]_vars => OpenInv'
BY OpenNetwork, OpenApply, OpenRest DEF Next, Network, Watcher, Pauses, Failure

LEMMA OpenAlways == Spec => []OpenInv
BY OpenInit, OpenNext, PTL DEF Spec

(* With everything read, a session that is on has the row of its Start, which nothing  *)
(* can have closed; and one whose last record is a Stop has none that is open.         *)
LEMMA OpenMeansSettled == OpenInv => SettledWhenAllRead
<1> SUFFICES ASSUME OpenInv, AllRead, NEW s \in sessions, s.sid \notin spoiled
             PROVE  /\ s.end = Null => OpenOf(table, s) # {}
                    /\ (\E f \in Files : \E i \in DOMAIN file[f] : StoppedLast(s, f, i)) => OpenOf(table, s) = {}
  BY DEF SettledWhenAllRead
<1>1. SweepInv /\ TypeInv /\ NetInv /\ RadiusInv /\ SessionInv /\ s.sid \in Nat /\ s.sid # NoSid
  <2>1. SweepInv /\ TypeInv /\ NetInv /\ RadiusInv /\ SessionInv
    BY ListedTypes DEF OpenInv, SweepInv, RadiusInv
  <2> QED BY <2>1, RadiusAssumption DEF TypeInv, Visit
<1>2. \A f \in Files : DOMAIN file[f] = 1..Len(file[f]) /\ \A i \in 1..Len(file[f]) : i <= pos[f].n
  <2>1. ASSUME NEW g \in Files PROVE pos[g].n = Len(file[g]) /\ Len(file[g]) \in Nat
    BY <1>1, <2>1, SweepTypes DEF AllRead, Unread
  <2> QED BY <1>1, <2>1, RecordAt
<1>3. ASSUME s.end = Null PROVE OpenOf(table, s) # {}
  <2>1. PICK g \in Files : \E j \in 1..Len(file[g]) :
                  file[g][j].sid = s.sid /\ file[g][j].kind = "Start" /\ file[g][j].at = s.sid
    BY <1>1 DEF SessionInv, StartsAreThere, Started
  <2>2. PICK j \in 1..Len(file[g]) : file[g][j].sid = s.sid /\ file[g][j].kind = "Start"
    BY <2>1
  <2>3. Marked(table, file[g][j])
    BY <1>1, <1>2, <2>2 DEF RadiusInv, MarksInv, Whole
  <2>4. file[g][j].user = s.user
    BY <1>1, <2>2, RecordsOf DEF OfSession
  <2>5. PICK x \in table : x.user = s.user /\ x.sid = s.sid
    BY <2>2, <2>3, <2>4 DEF Marked
  <2>6. ~Stopped(s.sid)
    BY <1>1, <1>3 DEF SessionInv, StopsTell
  <2>7. x.stop = Null
    BY <1>1, <2>5, <2>6 DEF OpenInv, ClosedMeansStopped
  <2> QED BY <2>5, <2>7 DEF OpenOf
<1>4. ASSUME NEW f \in Files, NEW i \in DOMAIN file[f], StoppedLast(s, f, i) PROVE OpenOf(table, s) = {}
  <2> SUFFICES ASSUME NEW x \in OpenOf(table, s) PROVE FALSE
    OBVIOUS
  <2>1. i \in 1..Len(file[f]) /\ i <= pos[f].n /\ file[f][i].sid = s.sid /\ file[f][i].kind = "Stop"
    BY <1>2, <1>4 DEF StoppedLast
  <2>2. Whole(file[f][i])
    BY <2>1 DEF Whole
  <2>3. file[f][i].user = s.user
    BY <1>1, <2>1, RecordsOf DEF OfSession
  <2>4. x \in OpenOf(table, file[f][i])
    BY <2>1, <2>3 DEF OpenOf
  <2>5. ReopenedBy(f, i, x.start)
    BY <2>1, <2>2, <2>4 DEF OpenInv, ClosedInv
  <2> QED BY <1>2, <1>4, <2>1, <2>5 DEF ReopenedBy, StoppedLast
<1> QED BY <1>3, <1>4

(* Once everything is read the open rows are right, however often records were        *)
(* applied again on the way: a session that is on is open in radius_accounting, and   *)
(* one that ended is not, unless a record of it was written after its last Stop       *)
(* (insert_radius_record, watch_directory).                                           *)
THEOREM SettlesWhenAllRead == Spec => []SettledWhenAllRead
BY OpenAlways, OpenMeansSettled, PTL

-----------------------------------------------------------------------------
(* Who held an address, when every Start and Stop came when due and no record was      *)
(* garbled or cut.  Each row tells of a session: it starts within it or after it, and  *)
(* ends when it did, unless a record that came after the session's Stop opened it.     *)

RowTrue(x) ==
  \E s \in sessions :
    /\ x.user = s.user /\ x.sid = s.sid /\ x.ip = s.ip
    /\ s.sid <= x.start /\ x.start <= clock
    /\ \/ x.stop = Null \/ x.stop = s.end
       \/ \E f, i : StopOf(s.sid, f, i) /\ ReopenedBy(f, i, x.start)

HeldInv == OpenInv /\ (spoiled = {} => \A x \in tx \cup table : RowTrue(x))

LEMMA RowTrueStays ==
  ASSUME NetInv, Network, NEW x \in Row, RowTrue(x)
  PROVE  RowTrue(x)'
<1>1. Grown /\ clock \in Nat /\ clock' \in Nat /\ clock <= clock'
  BY NetworkMoves, NetworkKeeps, SessionsMove, RestsKeepNet
<1>2. PICK s \in sessions :
        /\ x.user = s.user /\ x.sid = s.sid /\ x.ip = s.ip
        /\ s.sid <= x.start /\ x.start <= clock
        /\ \/ x.stop = Null \/ x.stop = s.end
           \/ \E f, i : StopOf(s.sid, f, i) /\ ReopenedBy(f, i, x.start)
  BY DEF RowTrue
<1>3. PICK p \in sessions' : /\ p.user = s.user /\ p.sid = s.sid /\ p.ip = s.ip
                             /\ s.end = Null \/ p.end = s.end
  <2>1. CASE Rests
    BY <2>1 DEF Rests
  <2>2. ASSUME NEW kind, NEW q, Moves(kind, q)
        PROVE  \E p \in sessions' : /\ p.user = s.user /\ p.sid = s.sid /\ p.ip = s.ip
                                    /\ s.end = Null \/ p.end = s.end
    <3>1. \E p \in sessions' :
              /\ p.user = s.user /\ p.sid = s.sid /\ p.ip = s.ip
              /\ p.end = IF s = q /\ Ends(kind, q) THEN clock + 1 ELSE s.end
      BY <2>2, SessionsMove
    <3>2. s = q /\ Ends(kind, q) => s.end = Null
      BY DEF Ends
    <3> QED BY <3>1, <3>2
  <2> QED BY <2>1, <2>2, NetworkMoves
<1>4. x.start \in Nat /\ x.start <= clock'
  BY <1>1, <1>2 DEF Row
<1>5. PICK t : t = x.start
  OBVIOUS
<1>6. PICK sid : sid = s.sid
  OBVIOUS
<1>7. ASSUME NEW f, NEW i, StopOf(sid, f, i), ReopenedBy(f, i, t)
      PROVE  StopOf(sid, f, i)' /\ ReopenedBy(f, i, t)'
  <2>1. StopOf(sid, f, i)'
    BY <1>1, <1>7, StopStays
  <2>2. f \in Files /\ i \in 1..Len(file[f])
    BY <1>7 DEF StopOf
  <2> QED BY <1>1, <1>7, <2>1, <2>2, ReopenedStays
<1>8. \/ x.stop = Null \/ x.stop = p.end
      \/ \E f, i : StopOf(sid, f, i)' /\ ReopenedBy(f, i, t)'
  BY <1>2, <1>3, <1>5, <1>6, <1>7
<1>9. p.sid = sid /\ p.sid <= x.start
  BY <1>2, <1>3, <1>6
<1>10. \/ x.stop = Null \/ x.stop = p.end
       \/ \E f, i : StopOf(p.sid, f, i)' /\ ReopenedBy(f, i, x.start)'
  BY <1>5, <1>8, <1>9 DEF StopOf, ReopenedBy
<1>11. x.user = p.user /\ x.sid = p.sid /\ x.ip = p.ip
  BY <1>2, <1>3
<1>12. p.sid <= x.start /\ x.start <= clock'
  BY <1>4, <1>9
<1> QED BY ONLY p \in sessions', <1>10, <1>11, <1>12 DEF RowTrue

LEMMA HeldNetwork == HeldInv /\ Network => HeldInv'
<1> SUFFICES ASSUME HeldInv, Network PROVE HeldInv'
  OBVIOUS
<1>1. /\ OpenInv' /\ NetInv /\ Grown /\ UNCHANGED <<table, tx>> /\ table \subseteq Row /\ tx \subseteq Row
  <2>1. NetInv /\ OpenInv'
    BY OpenNetwork DEF HeldInv, OpenInv, SweepInv, RadiusInv
  <2>2. Grown /\ UNCHANGED db
    BY <2>1, NetworkKeeps
  <2> QED BY <2>1, <2>2 DEF NetInv, TypeInv, db
<1>2. ASSUME spoiled' = {}, NEW x \in tx' \cup table' PROVE RowTrue(x)'
  <2>1. spoiled = {}
    BY <1>1, <1>2 DEF Grown
  <2>2. PICK y : y = x
    OBVIOUS
  <2>3. y \in Row /\ RowTrue(y)
    BY <1>1, <1>2, <2>1, <2>2 DEF HeldInv
  <2>4. RowTrue(y)'
    BY <1>1, <2>3, RowTrueStays
  <2> QED BY <2>2, <2>4 DEF RowTrue
<1> QED BY <1>1, <1>2 DEF HeldInv

(* Nothing the watcher has yet to apply comes before the record it applies.            *)
LEMMA EarlierIsApplied ==
  ASSUME SweepInv, pc = "apply", conn = "up", spoiled = {},
         NEW f \in Files, NEW i \in 1..Len(file[f]), Before(f, i, cur, read.from)
  PROVE  Applied(f, i)
<1>1. CASE f = cur
  BY <1>1, ListedTypes DEF Before, Applied, TypeInv, Files
<1>2. CASE f < cur
  <2>1. cur \in listed /\ cur <= cur
    BY ListedTypes DEF SweepInv, RoundInv
  <2>2. Through(pos, f)
    BY <1>2, <2>1 DEF SweepInv, RoundInv
  <2> QED BY <2>2 DEF Through, Applied
<1> QED BY <1>1, <1>2 DEF Before

(* A Stop is dated when its session ended, or another came before it; and whatever     *)
(* rows of the session that one left open, a later record had opened.                  *)
LEMMA StopIsFirst ==
  ASSUME OpenInv, spoiled = {}, pc = "apply", conn = "up", cur \in Files, read.from \in 1..Len(file[cur]),
         NEW s \in sessions, OfSession(file[cur][read.from], s), file[cur][read.from].kind = "Stop"
  PROVE  \/ file[cur][read.from].at = s.end
         \/ \E f, i : /\ StopOf(s.sid, f, i) /\ ReopenedBy(f, i, file[cur][read.from].at)
                      /\ \A x \in OpenOf(tx, s) : ReopenedBy(f, i, x.start)
<1> DEFINE r == file[cur][read.from]
<1>1. SweepInv /\ SessionInv /\ NetInv /\ TypeInv
  BY ListedTypes DEF OpenInv, SweepInv, RadiusInv
<1>2. StopOf(s.sid, cur, read.from)
  BY DEF StopOf, OfSession
<1>3. r.at = s.end \/ \E f, i : StopOf(s.sid, f, i) /\ Before(f, i, cur, read.from)
  BY <1>1, <1>2 DEF SessionInv, FirstStops
<1>4. ASSUME NEW f, NEW i, StopOf(s.sid, f, i), Before(f, i, cur, read.from)
      PROVE  ReopenedBy(f, i, r.at) /\ \A x \in OpenOf(tx, s) : ReopenedBy(f, i, x.start)
  <2>1. f \in Files /\ i \in 1..Len(file[f]) /\ file[f][i].sid = s.sid /\ file[f][i].kind = "Stop"
    BY <1>4 DEF StopOf
  <2>2. Applied(f, i)
    BY <1>1, <1>4, <2>1, EarlierIsApplied
  <2>3. Whole(file[f][i])
    BY <2>1 DEF Whole
  <2>4. file[f][i].user = s.user
    BY <1>1, <2>1, RecordsOf DEF OfSession
  <2>5. OpenOf(tx, s) = OpenOf(tx, file[f][i])
    BY <2>1, <2>4 DEF OpenOf
  <2>6. r \in Record
    BY <1>1, RecordAt
  <2>7. ReopenedBy(f, i, r.at)
    BY <1>4, <2>1, <2>6 DEF ReopenedBy, OfSession, Record
  <2> QED BY <2>1, <2>2, <2>3, <2>5, <2>7 DEF OpenInv, ClosedInv
<1> QED BY <1>3, <1>4

(* A whole record's row is of its session.                                             *)
LEMMA HeldApply == HeldInv /\ (ApplyRecord \/ SkipRecord) => HeldInv'
<1> SUFFICES ASSUME HeldInv, ApplyRecord \/ SkipRecord PROVE HeldInv'
  OBVIOUS
<1> DEFINE r == file[cur][read.from]
<1>1. /\ OpenInv /\ OpenInv' /\ NetInv /\ RadiusInv /\ TypeInv
      /\ UNCHANGED <<file, sessions, clock, spoiled>> /\ clock \in Nat /\ tx \in SUBSET Row /\ table \in SUBSET Row
  <2>1. OpenInv /\ OpenInv' /\ NetInv /\ RadiusInv /\ TypeInv
    BY OpenApply DEF HeldInv, OpenInv, SweepInv, RadiusInv, NetInv
  <2> QED BY <2>1 DEF TypeInv, ApplyRecord, SkipRecord, net
<1>2. SUFFICES ASSUME spoiled = {} PROVE \A x \in tx' \cup table' : RowTrue(x)
  <2>1. ASSUME NEW x, RowTrue(x) PROVE RowTrue(x)'
    BY <1>1, <2>1 DEF RowTrue, StopOf, ReopenedBy
  <2> QED BY <1>1, <1>2, <2>1 DEF HeldInv
<1>3. \A x \in tx \cup table : RowTrue(x)
  BY <1>2 DEF HeldInv
<1>4. /\ cur \in Files /\ read.from \in 1..Len(file[cur]) /\ r \in Record
      /\ \/ UNCHANGED <<tx, table>>
         \/ conn = "up" /\ \E row : RowFrom(row, r)
  BY <1>1, RecordApplied DEF RowFrom
<1>5. r.kind # "Garbled" /\ pc = "apply" /\ Whole(r)
  BY <1>2 DEF ApplyRecord, SkipRecord, Ahead, Current, Whole
<1>6. PICK s \in sessions : OfSession(r, s)
  BY <1>1, <1>4 DEF NetInv, Recorded
<1>7. r.sid <= r.at /\ r.at <= clock /\ r.at \in Nat /\ r.sid \in Nat
  BY <1>1, <1>4 DEF NetInv, Recorded, Record
<1>8. ASSUME conn = "up", r.kind = "Stop"
      PROVE  \/ r.at = s.end
             \/ \E f, i : /\ StopOf(s.sid, f, i) /\ ReopenedBy(f, i, r.at)
                          /\ \A x \in OpenOf(tx, s) : ReopenedBy(f, i, x.start)
  BY <1>1, <1>2, <1>4, <1>5, <1>6, <1>8, StopIsFirst
<1> HIDE DEF r
<1>9. ASSUME conn = "up", NEW row, RowFrom(row, r), NEW y \in tx' PROVE RowTrue(y)
  <2>1. /\ row \in RowOf /\ tx' = Inserted(tx, row) /\ row.user = s.user /\ row.sid = s.sid /\ row.ip = s.ip
        /\ row.at = r.at /\ row.kind = r.kind /\ row.kind \in Kinds
    BY <1>5, <1>6, <1>9 DEF RowFrom, OfSession, RowOf
  <2>2. /\ y \in Row
        /\ \/ y \in tx /\ (row.kind = "Stop" => y \notin OpenOf(tx, row))
           \/ /\ \E x \in OpenOf(tx, row) : y.start = x.start /\ y.ip \in {x.ip, row.ip}
              /\ y.user = row.user /\ y.sid = row.sid
              /\ row.kind = "Stop" => y.stop = row.at
              /\ row.kind = "Interim" => y.stop = Null
              /\ row.kind # "Start"
           \/ /\ y.user = row.user /\ y.sid = row.sid /\ y.ip = row.ip
              /\ row.kind = "Stop" => y.stop = row.at /\ y.start = row.at
              /\ row.kind = "Start" => y.stop = Null /\ y.start = row.at
              /\ row.kind = "Interim" => y.stop = Null /\ y.start = clock
    BY <1>1, <1>9, <2>1, Origins
  <2>3. CASE y \in tx
    BY <1>3, <2>3
  <2>4. ASSUME NEW x \in OpenOf(tx, row), y.start = x.start, y.ip \in {x.ip, row.ip},
               y.user = row.user, y.sid = row.sid, row.kind # "Start",
               row.kind = "Stop" => y.stop = row.at, row.kind = "Interim" => y.stop = Null
        PROVE  RowTrue(y)
    <3>1. x \in tx /\ x.sid = s.sid /\ x \in OpenOf(tx, s)
      BY <2>1 DEF OpenOf
    <3>2. PICK q \in sessions :
            x.sid = q.sid /\ x.ip = q.ip /\ q.sid <= x.start /\ x.start <= clock
      BY <1>3, <3>1 DEF RowTrue
    <3>3. q = s
      BY <1>1, <3>1, <3>2 DEF NetInv, Identified
    <3>4. /\ y.user = s.user /\ y.sid = s.sid /\ y.ip = s.ip
          /\ s.sid <= y.start /\ y.start <= clock
      BY <2>1, <2>4, <3>2, <3>3
    <3>5. CASE row.kind = "Interim"
      BY <2>4, <3>4, <3>5 DEF RowTrue
    <3>6. CASE row.kind = "Stop"
      <4>1. y.stop = r.at
        BY <2>1, <2>4, <3>6
      <4>2. y.stop = s.end \/ \E f, i : StopOf(s.sid, f, i) /\ ReopenedBy(f, i, y.start)
        BY <1>8, <1>9, <2>1, <2>4, <3>1, <3>6, <4>1
      <4> QED BY <3>4, <4>2 DEF RowTrue
    <3> QED BY <2>1, <2>4, <3>5, <3>6 DEF Kinds
  <2>5. ASSUME y.user = row.user, y.sid = row.sid, y.ip = row.ip,
               row.kind = "Stop" => y.stop = row.at /\ y.start = row.at,
               row.kind = "Start" => y.stop = Null /\ y.start = row.at,
               row.kind = "Interim" => y.stop = Null /\ y.start = clock
        PROVE  RowTrue(y)
    <3>1. r.sid = s.sid /\ r.sid <= clock /\ clock <= clock
      BY <1>1, <1>6, <1>7 DEF OfSession
    <3>2. /\ y.user = s.user /\ y.sid = s.sid /\ y.ip = s.ip
          /\ s.sid <= y.start /\ y.start <= clock
      BY <1>7, <2>1, <2>5, <3>1 DEF Kinds
    <3>3. CASE row.kind = "Stop"
      <4>1. y.stop = r.at /\ y.start = r.at
        BY <2>1, <2>5, <3>3
      <4>2. y.stop = s.end \/ \E f, i : StopOf(s.sid, f, i) /\ ReopenedBy(f, i, y.start)
        BY <1>8, <1>9, <2>1, <3>3, <4>1
      <4> QED BY <3>2, <4>2 DEF RowTrue
    <3>4. CASE row.kind # "Stop"
      <4>1. y.stop = Null
        BY <2>1, <2>5, <3>4 DEF Kinds
      <4> QED BY <3>2, <4>1 DEF RowTrue
    <3> QED BY <3>3, <3>4
  <2> QED BY <2>2, <2>3, <2>4, <2>5
<1> QED BY <1>3, <1>4, <1>9 DEF RowFrom

LEMMA HeldRest == HeldInv /\ Pauses => HeldInv'
<1> SUFFICES ASSUME HeldInv, Pauses PROVE HeldInv'
  OBVIOUS
<1>1. OpenInv' /\ UNCHANGED <<sessions, file, clock>> /\ spoiled \subseteq spoiled'
      /\ table' \in {table, tx} /\ tx' \in {table, tx}
  BY OpenRest, PausesKeep DEF HeldInv
<1>2. ASSUME spoiled' = {}, NEW x \in tx' \cup table' PROVE RowTrue(x)'
  <2>1. spoiled = {} /\ x \in tx \cup table
    BY <1>1, <1>2
  <2>2. RowTrue(x)
    BY <2>1 DEF HeldInv
  <2> QED BY <1>1, <2>2 DEF RowTrue, StopOf, ReopenedBy
<1> QED BY <1>1, <1>2 DEF HeldInv

LEMMA HeldAlways == Spec => []HeldInv
<1>1. Init => HeldInv
  <2> SUFFICES ASSUME Init PROVE HeldInv
    OBVIOUS
  <2> QED BY OpenInit DEF Init, HeldInv
<1>2. HeldInv /\ [Next]_vars => HeldInv'
  BY HeldNetwork, HeldApply, HeldRest DEF Next, Network, Watcher, Pauses, Failure
<1> QED BY <1>1, <1>2, PTL DEF Spec

-----------------------------------------------------------------------------
(* The row picked.                                                                     *)

LEMMA GreatestStart ==
  ASSUME NEW n \in Nat, NEW T, T # {}, \A x \in T : x.start \in 0..n
  PROVE  \E x \in T : \A y \in T : y.start <= x.start
<1> DEFINE U == {n - x.start : x \in T}
           R == {p \in Nat \X Nat : p[1] < p[2]}
<1>1. IsWellFoundedOn(R, Nat)
  BY NatLessThanWellFounded DEF OpToRel
<1>2. U \subseteq Nat /\ U # {}
  <2>1. \A x \in T : n - x.start \in Nat
    OBVIOUS
  <2> QED BY <2>1
<1>3. PICK m \in U : \A k \in U : ~(<<k, m>> \in R)
  <2> HIDE DEF U, R
  <2> QED BY <1>1, <1>2, WFMin
<1>4. PICK x \in T : m = n - x.start
  BY <1>3
<1>5. ASSUME NEW y \in T PROVE y.start <= x.start
  <2>1. n - y.start \in U /\ n - y.start \in Nat /\ m \in Nat
    BY <1>2, <1>3
  <2>2. ~(n - y.start < m)
    BY <1>3, <2>1
  <2>3. x.start \in 0..n /\ y.start \in 0..n
    OBVIOUS
  <2> QED BY <1>4, <2>2, <2>3
<1> QED BY <1>5

(* A row that covers a time is of a session that held its address then, unless a       *)
(* record of the address came late.                                                    *)
LEMMA CoveringIsHeld ==
  ASSUME HeldInv, AllRead, spoiled = {}, NEW ip \in IPs, NEW t \in 1..clock, ~Belated(ip, t),
         NEW x \in Covering(ip, t)
  PROVE  \E s \in sessions : s.ip = ip /\ s.user = x.user /\ s.sid = x.sid /\ Held(s, t)
<1>1. SweepInv /\ NetInv /\ SessionInv /\ TypeInv /\ clock \in Nat /\ t \in Nat /\ OpenInv
  <2>1. SweepInv /\ NetInv /\ SessionInv /\ TypeInv /\ OpenInv
    BY DEF HeldInv, OpenInv, SweepInv, RadiusInv, NetInv
  <2> QED BY <2>1 DEF TypeInv
<1>2. x \in table /\ x.ip = ip /\ x.start <= t /\ (x.stop = Null \/ x.stop >= t) /\ x \in Row
  BY <1>1 DEF Covering, TypeInv
<1>3. PICK s \in sessions :
        /\ x.user = s.user /\ x.sid = s.sid /\ x.ip = s.ip
        /\ s.sid <= x.start /\ x.start <= clock
        /\ \/ x.stop = Null \/ x.stop = s.end
           \/ \E f, i : StopOf(s.sid, f, i) /\ ReopenedBy(f, i, x.start)
  BY <1>2 DEF HeldInv, RowTrue
<1>4. s.sid \in Nat /\ x.start \in Nat /\ s.end \in Nat \cup {Null} /\ s.sid <= t
  <2>1. s.sid \in Nat /\ x.start \in Nat /\ s.end \in Nat \cup {Null}
    BY <1>1, <1>2 DEF TypeInv, Visit, Row
  <2> QED BY <1>1, <1>2, <1>3, <2>1
<1>5. ASSUME NEW f, NEW i, StopOf(s.sid, f, i) PROVE ~ReopenedBy(f, i, x.start)
  <2> SUFFICES ASSUME ReopenedBy(f, i, x.start) PROVE FALSE
    OBVIOUS
  <2>1. f \in Files /\ i \in DOMAIN file[f] /\ file[f][i].sid = s.sid /\ file[f][i].kind = "Stop"
    BY <1>1, <1>5, RecordAt DEF StopOf
  <2>2. PICK g \in Files : \E j \in 1..Len(file[g]) :
          file[g][j].sid = file[f][i].sid /\ Before(f, i, g, j) /\ file[g][j].at <= x.start
    BY DEF ReopenedBy
  <2>3. PICK j \in 1..Len(file[g]) :
          file[g][j].sid = file[f][i].sid /\ Before(f, i, g, j) /\ file[g][j].at <= x.start
    BY <2>2
  <2>4. file[g][j].ip = ip
    BY <1>1, <1>2, <1>3, <2>1, <2>3, RecordsOf DEF OfSession
  <2>5. j \in DOMAIN file[g] /\ file[g][j].at \in Nat
    BY <1>1, RecordAt DEF Record
  <2>6. file[g][j].at <= t
    BY <1>1, <1>2, <1>4, <2>3, <2>5
  <2> QED BY <2>1, <2>3, <2>4, <2>5, <2>6 DEF Belated
<1>6. ASSUME s.end # Null, s.end < t PROVE FALSE
  <2>1. PICK f, i : StopOf(s.sid, f, i)
    BY <1>1, <1>6 DEF SessionInv, StopsAreThere, Stopped
  <2>2. f \in Files /\ i \in 1..Len(file[f]) /\ file[f][i].sid = s.sid /\ file[f][i].kind = "Stop"
    BY <2>1 DEF StopOf
  <2>3. CASE x.stop = Null
    <3>1. i <= pos[f].n
      <4>1. pos[f].n = Len(file[f]) /\ Len(file[f]) \in Nat
        BY <1>1, <2>2, SweepTypes DEF AllRead, Unread
      <4> QED BY <2>2, <4>1
    <3>2. Whole(file[f][i])
      BY <2>2 DEF Whole
    <3>3. file[f][i].user = x.user
      BY <1>1, <1>3, <2>2, RecordsOf DEF OfSession
    <3>4. x \in OpenOf(table, file[f][i])
      BY <1>2, <1>3, <2>2, <2>3, <3>3 DEF OpenOf
    <3>5. ReopenedBy(f, i, x.start)
      BY <1>1, <2>2, <3>1, <3>2, <3>4 DEF OpenInv, ClosedInv
    <3> QED BY <1>5, <2>1, <3>5
  <2>4. CASE x.stop # Null
    <3>1. x.stop \in Nat /\ x.stop >= t
      BY <1>2, <2>4 DEF Row
    <3>2. x.stop # s.end
      BY <1>1, <1>4, <1>6, <3>1
    <3> QED BY <1>3, <1>5, <2>4, <3>2
  <2> QED BY <2>3, <2>4
<1>7. s.end # Null => t <= s.end
  BY <1>1, <1>4, <1>6
<1> QED BY <1>2, <1>3, <1>4, <1>7 DEF Held

(* Whoever holds the address has the row of the Start among those that cover the time. *)
LEMMA HolderIsCovered ==
  ASSUME HeldInv, AllRead, spoiled = {}, NEW ip \in IPs, NEW t \in 1..clock, ~Belated(ip, t),
         NEW s \in sessions, s.ip = ip, Held(s, t)
  PROVE  Covering(ip, t) # {}
<1>1. SweepInv /\ NetInv /\ SessionInv /\ TypeInv /\ RadiusInv /\ t \in Nat
  <2>1. SweepInv /\ NetInv /\ SessionInv /\ TypeInv /\ RadiusInv /\ clock \in Nat
    BY DEF HeldInv, OpenInv, SweepInv, RadiusInv, NetInv, TypeInv
  <2> QED BY <2>1
<1>2. PICK g \in Files : \E j \in 1..Len(file[g]) :
                file[g][j].sid = s.sid /\ file[g][j].kind = "Start" /\ file[g][j].at = s.sid
  BY <1>1 DEF SessionInv, StartsAreThere, Started
<1>3. PICK j \in 1..Len(file[g]) : file[g][j].sid = s.sid /\ file[g][j].kind = "Start" /\ file[g][j].at = s.sid
  BY <1>2
<1>4. j <= pos[g].n
  <2>1. pos[g].n = Len(file[g]) /\ Len(file[g]) \in Nat
    BY <1>1, SweepTypes DEF AllRead, Unread
  <2> QED BY <2>1
<1>5. Marked(table, file[g][j])
  BY <1>1, <1>3, <1>4 DEF RadiusInv, MarksInv, Whole
<1>6. OfSession(file[g][j], s)
  BY <1>1, <1>3, RecordsOf
<1>7. PICK x \in table : x.sid = s.sid /\ x.start = s.sid /\ x.ip = ip
  BY <1>3, <1>5, <1>6 DEF Marked, OfSession
<1>8. s.sid <= t /\ s.sid \in Nat
  BY <1>1 DEF Held, TypeInv, Visit
<1>9. ASSUME x.stop # Null PROVE x.stop >= t
  <2>1. PICK q \in sessions :
          /\ x.sid = q.sid
          /\ x.stop = q.end \/ \E f, i : StopOf(q.sid, f, i) /\ ReopenedBy(f, i, x.start)
    BY <1>7, <1>9 DEF HeldInv, RowTrue
  <2>2. q = s
    BY <1>1, <1>7, <2>1 DEF NetInv, Identified
  <2>3. CASE x.stop = s.end
    <3>1. t <= s.end /\ s.end \in Nat
      BY <1>1, <1>9, <2>3 DEF Held, TypeInv, Visit
    <3> QED BY <1>1, <2>3, <3>1
  <2>4. ASSUME NEW f, NEW i, StopOf(s.sid, f, i), ReopenedBy(f, i, x.start) PROVE FALSE
    <3>1. f \in Files /\ i \in DOMAIN file[f] /\ file[f][i].sid = s.sid /\ file[f][i].kind = "Stop"
      BY <1>1, <2>4, RecordAt DEF StopOf
    <3>2. PICK h \in Files : \E k \in 1..Len(file[h]) :
            file[h][k].sid = file[f][i].sid /\ Before(f, i, h, k) /\ file[h][k].at <= x.start
      BY <2>4 DEF ReopenedBy
    <3>3. PICK k \in 1..Len(file[h]) :
            file[h][k].sid = file[f][i].sid /\ Before(f, i, h, k) /\ file[h][k].at <= x.start
      BY <3>2
    <3>4. file[h][k].ip = ip
      BY <1>1, <3>1, <3>3, RecordsOf DEF OfSession
    <3>5. k \in DOMAIN file[h] /\ file[h][k].at \in Nat
      BY <1>1, RecordAt DEF Record
    <3>6. file[h][k].at <= t
      BY <1>1, <1>7, <1>8, <3>3, <3>5
    <3> QED BY <3>1, <3>3, <3>4, <3>5, <3>6 DEF Belated
  <2> QED BY <2>1, <2>2, <2>3, <2>4
<1> QED BY <1>7, <1>8, <1>9 DEF Covering

LEMMA HeldMeansPicked == HeldInv => HolderPicked
<1> SUFFICES ASSUME HeldInv, AllRead, spoiled = {}, NEW ip \in IPs, NEW t \in 1..clock, ~Belated(ip, t)
             PROVE  /\ \A s \in sessions : s.ip = ip /\ Held(s, t) =>
                         Picked(ip, t) # {} /\ \A x \in Picked(ip, t) : x.user = s.user
                    /\ Picked(ip, t) # {} => \E s \in sessions : s.ip = ip /\ Held(s, t)
  BY DEF HolderPicked
<1>1. NetInv /\ SessionInv /\ TypeInv /\ clock \in Nat /\ t \in Nat
  <2>1. NetInv /\ SessionInv /\ TypeInv
    BY DEF HeldInv, OpenInv, SweepInv, RadiusInv, NetInv
  <2> QED BY <2>1 DEF TypeInv
<1>2. ASSUME NEW x \in Picked(ip, t)
      PROVE  x \in Covering(ip, t)
             /\ \E s \in sessions : s.ip = ip /\ s.user = x.user /\ s.sid = x.sid /\ Held(s, t)
  BY CoveringIsHeld DEF Picked
<1>3. ASSUME NEW s \in sessions, s.ip = ip, Held(s, t)
      PROVE  Picked(ip, t) # {} /\ \A x \in Picked(ip, t) : x.user = s.user
  <2>1. Covering(ip, t) # {}
    BY <1>3, HolderIsCovered
  <2>2. \A x \in Covering(ip, t) : x.start \in 0..clock
    <3>1. \A x \in Covering(ip, t) : x \in table /\ x.start <= t
      BY DEF Covering
    <3>2. \A x \in table : x.start \in Nat
      BY <1>1 DEF TypeInv, Row
    <3> QED BY <1>1, <3>1, <3>2
  <2>3. PICK x \in Covering(ip, t) : \A y \in Covering(ip, t) : y.start <= x.start
    BY <1>1, <2>1, <2>2, GreatestStart
  <2>4. Picked(ip, t) # {}
    BY <2>3 DEF Picked
  <2>5. ASSUME NEW y \in Picked(ip, t) PROVE y.user = s.user
    <3>1. PICK q \in sessions : q.ip = ip /\ q.user = y.user /\ Held(q, t)
      BY <1>2
    <3>2. /\ q.sid \in Nat /\ s.sid \in Nat /\ q.end \in Nat \cup {Null} /\ s.end \in Nat \cup {Null}
          /\ q.sid <= t /\ s.sid <= t /\ (q.end = Null \/ t <= q.end) /\ (s.end = Null \/ t <= s.end)
      BY <1>1, <1>3, <3>1 DEF TypeInv, Visit, Held
    <3>3. ~(q.sid < s.sid)
      <4>1. q.sid < s.sid => q.end # Null /\ q.end < s.sid
        BY <1>1, <1>3, <3>1 DEF SessionInv, OneHolder
      <4> QED BY <1>1, <3>2, <4>1
    <3>4. ~(s.sid < q.sid)
      <4>1. s.sid < q.sid => s.end # Null /\ s.end < q.sid
        BY <1>1, <1>3, <3>1 DEF SessionInv, OneHolder
      <4> QED BY <1>1, <3>2, <4>1
    <3>5. q = s
      BY <1>1, <3>2, <3>3, <3>4 DEF NetInv, Identified
    <3> QED BY <3>1, <3>5
  <2> QED BY <2>4, <2>5
<1>4. ASSUME Picked(ip, t) # {} PROVE \E s \in sessions : s.ip = ip /\ Held(s, t)
  BY <1>2, <1>4
<1> QED BY <1>3, <1>4

(* Once everything is read, and if every Start and Stop came when due and no record    *)
(* was garbled or cut, the row that lea_query (app.py) picks for an address and a time *)
(* is of the subscriber who held it then, and there is one exactly if somebody did,    *)
(* unless a packet of the address came after its session's Stop and before that time.  *)
(* Repeated packets, late Interims, replays and cut connections are all allowed for.   *)
THEOREM PickedIsHolder == Spec => []HolderPicked
BY HeldAlways, HeldMeansPicked, PTL
=============================================================================
