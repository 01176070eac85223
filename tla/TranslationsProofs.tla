------------------------- MODULE TranslationsProofs -------------------------
(***************************************************************************)
(* Theorems about MikrotikIngest, for any senders, NASes, batch size and   *)
(* number of lines, outages, registry changes, signals and crashes, and    *)
(* about LeaLookup, for any subscribers, connections, window and limits.   *)
(***************************************************************************)
EXTENDS MikrotikIngest, LeaLookup, FoldLemmas, SequenceTheorems, FiniteSetTheorems, TLAPS

-----------------------------------------------------------------------------
(* Sequences.                                                              *)

LEMMA Joined ==
  ASSUME NEW S, NEW s \in Seq(S), NEW t \in Seq(S)
  PROVE  /\ s \o t \in Seq(S)
         /\ \A i \in DOMAIN s : i \in DOMAIN (s \o t) /\ (s \o t)[i] = s[i]
         /\ \A i \in DOMAIN (s \o t) : \/ i \in DOMAIN s /\ (s \o t)[i] = s[i]
                                       \/ \E k \in DOMAIN t : i = Len(s) + k /\ (s \o t)[i] = t[k]
         /\ \A k \in DOMAIN t : Len(s) + k \in DOMAIN (s \o t) /\ (s \o t)[Len(s) + k] = t[k]
<1>1. /\ s \o t \in Seq(S)
      /\ Len(s \o t) = Len(s) + Len(t)
      /\ \A i \in 1 .. Len(s) + Len(t) : (s \o t)[i] = IF i <= Len(s) THEN s[i] ELSE t[i - Len(s)]
  BY ConcatProperties
<1>2. /\ Len(s) \in Nat /\ Len(t) \in Nat /\ DOMAIN s = 1..Len(s) /\ DOMAIN t = 1..Len(t)
      /\ DOMAIN (s \o t) = 1..(Len(s) + Len(t))
  BY <1>1, LenProperties
<1>3. ASSUME NEW k \in 1..Len(t)
      PROVE  Len(s) + k \in 1..(Len(s) + Len(t)) /\ (s \o t)[Len(s) + k] = t[k]
  <2>1. Len(s) + k \in 1..(Len(s) + Len(t)) /\ ~(Len(s) + k <= Len(s)) /\ Len(s) + k - Len(s) = k
    BY <1>2
  <2> QED BY <1>1, <2>1
<1>4. ASSUME NEW i \in 1..(Len(s) + Len(t))
      PROVE  \/ i \in 1..Len(s) /\ (s \o t)[i] = s[i]
             \/ \E k \in 1..Len(t) : i = Len(s) + k /\ (s \o t)[i] = t[k]
  <2>1. CASE i <= Len(s)
    BY <1>1, <1>2, <2>1
  <2>2. CASE ~(i <= Len(s))
    <3>1. i - Len(s) \in 1..Len(t) /\ i = Len(s) + (i - Len(s)) /\ (s \o t)[i] = t[i - Len(s)]
      BY <1>1, <1>2, <2>2
    <3> QED BY <3>1
  <2> QED BY <2>1, <2>2
<1>5. \A i \in 1..Len(s) : i \in 1..(Len(s) + Len(t)) /\ (s \o t)[i] = s[i]
  <2> TAKE i \in 1..Len(s)
  <2>1. i \in 1..(Len(s) + Len(t)) /\ i <= Len(s)
    BY <1>2
  <2> QED BY <1>1, <2>1
<1> QED BY <1>1, <1>2, <1>3, <1>4, <1>5

LEMMA Appended ==
  ASSUME NEW S, NEW s \in Seq(S), NEW x \in S
  PROVE  /\ Append(s, x) \in Seq(S)
         /\ Len(Append(s, x)) = Len(s) + 1
         /\ DOMAIN Append(s, x) = 1..(Len(s) + 1)
         /\ \A i \in 1..Len(s) : Append(s, x)[i] = s[i]
         /\ Append(s, x)[Len(s) + 1] = x
  OBVIOUS

LEMMA Behead ==
  ASSUME NEW S, NEW s \in Seq(S), s # <<>>
  PROVE  /\ Tail(s) \in Seq(S) /\ Head(s) = s[1] /\ 1 \in DOMAIN s
         /\ Len(Tail(s)) = Len(s) - 1 /\ Len(s) \in Nat \ {0}
         /\ \A i \in DOMAIN Tail(s) : i \in Nat \ {0} /\ i + 1 \in DOMAIN s /\ Tail(s)[i] = s[i + 1]
         /\ \A i \in DOMAIN s : i = 1 \/ (i - 1 \in DOMAIN Tail(s) /\ s[i] = Tail(s)[i - 1])
<1>1. /\ Tail(s) \in Seq(S) /\ Len(Tail(s)) = Len(s) - 1 /\ Head(s) = s[1]
      /\ \A i \in 1 .. Len(Tail(s)) : Tail(s)[i] = s[i+1]
  BY HeadTailProperties
<1>2. Len(s) \in Nat \ {0}
  BY EmptySeq, LenProperties
<1>3. DOMAIN s = 1..Len(s) /\ DOMAIN Tail(s) = 1..(Len(s) - 1)
  BY <1>1, LenProperties
<1>4. \A i \in 1..Len(s) : i = 1 \/ (i - 1 \in 1..(Len(s) - 1) /\ s[i] = Tail(s)[i - 1])
  <2> TAKE i \in 1..Len(s)
  <2>1. i = 1 \/ (i - 1 \in 1..(Len(s) - 1) /\ (i - 1) + 1 = i)
    BY <1>2
  <2> QED BY <1>1, <2>1
<1> QED BY <1>1, <1>2, <1>3, <1>4

(* The line numbers of a sequence of rows.                                  *)
IdsOf(rows) == {rows[i].id : i \in DOMAIN rows}

LEMMA IdsJoined ==
  ASSUME NEW s \in Seq(Row), NEW t \in Seq(Row)
  PROVE  IdsOf(s \o t) = IdsOf(s) \cup IdsOf(t)
<1>1. \A i \in DOMAIN (s \o t) : (\E k \in DOMAIN s : (s \o t)[i] = s[k]) \/ (\E k \in DOMAIN t : (s \o t)[i] = t[k])
  BY Joined
<1>2. /\ \A k \in DOMAIN s : k \in DOMAIN (s \o t) /\ (s \o t)[k] = s[k]
      /\ \A k \in DOMAIN t : Len(s) + k \in DOMAIN (s \o t) /\ (s \o t)[Len(s) + k] = t[k]
  BY Joined
<1>3. ASSUME NEW n PROVE n \in IdsOf(s \o t) <=> n \in IdsOf(s) \cup IdsOf(t)
  <2>1. n \in IdsOf(s \o t) => n \in IdsOf(s) \cup IdsOf(t)
    BY <1>1, Zenon DEF IdsOf
  <2>2. n \in IdsOf(s) \cup IdsOf(t) => n \in IdsOf(s \o t)
    BY <1>2, Zenon DEF IdsOf
  <2> QED BY <2>1, <2>2
<1> QED BY <1>3

LEMMA IdsAppended ==
  ASSUME NEW s \in Seq(Row), NEW row \in Row
  PROVE  IdsOf(Append(s, row)) = IdsOf(s) \cup {row.id}
<1>1. DOMAIN s = 1..Len(s) /\ Len(s) \in Nat
  BY LenProperties
<1> QED BY <1>1, Appended DEF IdsOf

LEMMA IdsOfNone == IdsOf(<<>>) = {}
  BY DEF IdsOf

-----------------------------------------------------------------------------
(* Types.                                                                   *)

(* Nothing is left in the read buffer when the daemon looks at the file or   *)
(* opens it; the position is never beyond what was ever written, nor is what *)
(* the read buffer holds.                                                    *)
Tracks ==
  /\ pos + Len(chunk) <= Len(lines)
  /\ \A i \in DOMAIN chunk : chunk[i] <= Len(lines)
  /\ pc \in {"open", "stat"} => chunk = <<>>

TypeInv == TypeOK /\ Tracks

LEMMA TypeInvInit == Init => TypeInv
<1> SUFFICES ASSUME Init PROVE TypeInv
  OBVIOUS
<1>1. /\ lines \in Seq(Line) /\ chunk \in Seq(1..MaxLines) /\ buf \in Seq(Row) /\ table \in Seq(Row)
      /\ Len(lines) = 0 /\ Len(chunk) = 0 /\ Len(buf) = 0
  BY EmptySeq DEF Init
<1>2. Registered(registry) \subseteq Sources \X (Nases \cup {NoNas})
  BY DEF Init, Registered
<1>3. [s \in Sources |-> NoNas] \in [Sources -> Nases \cup {NoNas}]
  OBVIOUS
<1>4. /\ Len(lines) <= MaxLines /\ base \in 0..Len(lines) /\ floor \in 0..Len(lines) /\ pos \in 0..MaxLines
      /\ Len(buf) < BatchSize /\ events \in 0..MaxEvents /\ pos + Len(chunk) <= Len(lines)
      /\ DOMAIN chunk = {}
  BY <1>1, IngestAssumption DEF Init
<1>5. TypeOK
  BY <1>1, <1>2, <1>3, <1>4 DEF Init, TypeOK
<1> QED BY <1>4, <1>5 DEF Init, TypeInv, Tracks

(* What a flush does, whichever of its ends it comes to.                     *)
LEMMA FlushOutcome ==
  ASSUME TypeOK, NEW rows \in Seq(Row), NEW c \in {"none", "up", "stale"}, FlushRows(rows, c)
  PROVE  /\ buf' = <<>>
         /\ \/ table' = table \o rows /\ lost' = lost
            \/ table' = table /\ \E why \in {"row", "outage"} : GiveUp(rows, why)
         /\ conn' \in {"none", "up", "stale"} /\ dbUp' \in BOOLEAN /\ events' \in 0..MaxEvents
<1>1. events \in 0..MaxEvents /\ MaxEvents \in Nat /\ dbUp \in BOOLEAN
  BY IngestAssumption DEF TypeOK
<1>0. buf' = <<>>
  BY DEF FlushRows
<1>2. CASE DbWorks(c) /\ Clean(rows) /\ table' = table \o rows /\ conn' = "up" /\ UNCHANGED <<lost, dbUp, events>>
  BY <1>0, <1>1, <1>2
<1>3. CASE /\ GiveUp(rows, IF DbWorks(c) THEN "row" ELSE "outage")
           /\ conn' = Reconnected /\ UNCHANGED <<table, dbUp, events>>
  <2>1. \E why \in {"row", "outage"} : GiveUp(rows, why)
    BY <1>3
  <2> QED BY <1>0, <1>1, <1>3, <2>1 DEF Reconnected
<1>4. CASE Event /\ table' = table \o rows /\ dbUp' = FALSE /\ conn' = "none" /\ UNCHANGED lost
  <2>1. events' \in 0..MaxEvents
    BY <1>1, <1>4 DEF Event
  <2> QED BY <1>0, <1>4, <2>1
<1> QED BY <1>2, <1>3, <1>4, Zenon DEF FlushRows

LEMMA GiveUpType ==
  ASSUME TypeOK, NEW rows \in Seq(Row), NEW why \in {"outage", "row", "crash"}, GiveUp(rows, why)
  PROVE  lost' \subseteq Loss
<1>1. \A i \in DOMAIN rows : rows[i] \in Row
  BY ElementOfSeq, LenProperties
<1> QED BY <1>1 DEF GiveUp, Loss, Row, TypeOK

LEMMA FlushTypes ==
  ASSUME TypeOK, NEW rows \in Seq(Row), NEW c \in {"none", "up", "stale"}, FlushRows(rows, c)
  PROVE  /\ buf' \in Seq(Row) /\ Len(buf') < BatchSize
         /\ table' \in Seq(Row) /\ lost' \subseteq Loss
         /\ conn' \in {"none", "up", "stale"} /\ dbUp' \in BOOLEAN /\ events' \in 0..MaxEvents
<1>1. table \in Seq(Row) /\ lost \subseteq Loss
  BY DEF TypeOK
<1>2. table \o rows \in Seq(Row)
  BY <1>1, ConcatProperties
<1>3. <<>> \in Seq(Row) /\ Len(<<>>) = 0 /\ 0 < BatchSize
  BY EmptySeq, IngestAssumption
<1>4. lost' \subseteq Loss
  BY <1>1, FlushOutcome, GiveUpType
<1> QED BY <1>1, <1>2, <1>3, <1>4, FlushOutcome

(* What readline() has to hand out goes on from the position.                *)
LEMMA ChunkTypes ==
  ASSUME TypeInv, NEW c \in Chunks
  PROVE  /\ c \in Seq(1..MaxLines) /\ c # <<>> /\ pos + Len(c) <= Len(lines)
         /\ \A i \in DOMAIN c : c[i] \in 1..Len(lines)
<1>1. /\ Len(lines) \in Nat /\ base \in 0..Len(lines) /\ pos \in Nat /\ Len(lines) <= MaxLines
      /\ chunk \in Seq(1..MaxLines) /\ MaxLines \in Nat
  BY IngestAssumption DEF TypeInv, TypeOK
<1>2. CASE chunk # <<>>
  <2>1. c = chunk
    BY <1>2 DEF Chunks
  <2>2. \A i \in DOMAIN c : c[i] \in 1..MaxLines /\ c[i] <= Len(lines)
    BY <1>1, <2>1, ElementOfSeq, LenProperties DEF TypeInv, Tracks
  <2> QED BY <1>1, <1>2, <2>1, <2>2 DEF TypeInv, Tracks
<1>3. CASE chunk = <<>>
  <2>1. PICK k \in 1..(FileSize - pos) : c = [i \in 1..k |-> base + pos + i]
    BY <1>3 DEF Chunks
  <2>2. k \in Nat /\ k >= 1 /\ k <= Len(lines) - base - pos
    BY <1>1, <2>1 DEF FileSize
  <2>3. \A i \in 1..k : base + pos + i \in 1..MaxLines /\ base + pos + i \in 1..Len(lines)
    BY <1>1, <2>2
  <2>4. c \in Seq(1..MaxLines) /\ Len(c) = k
    BY <2>1, <2>2, <2>3, IsASeq
  <2>5. \A i \in DOMAIN c : c[i] \in 1..Len(lines)
    BY <2>1, <2>3
  <2> QED BY <1>1, <2>2, <2>4, <2>5
<1> QED BY <1>2, <1>3

LEMMA RefreshTypes ==
  ASSUME TypeOK, NEW r \in RefreshIfDue
  PROVE  r.map \in [Sources -> Nases \cup {NoNas}] /\ r.conn \in {"none", "up", "stale"}
  BY DEF RefreshIfDue, Refreshed, Reconnected, TypeOK

LEMMA AttributedTypes ==
  ASSUME TypeOK, NEW id \in 1..Len(lines), NEW row \in Attributed(id)
  PROVE  /\ row \in Row /\ row.id = id /\ lines[id].body # "other"
         /\ lines[id].src \in Sources /\ row.nas = nasMap[lines[id].src] /\ row.nas # NoNas
<1>1. lines[id] \in Line /\ id \in 1..MaxLines
  <2>1. lines \in Seq(Line) /\ Len(lines) \in Nat /\ Len(lines) <= MaxLines /\ MaxLines \in Nat
    BY IngestAssumption DEF TypeOK
  <2> QED BY <2>1, ElementOfSeq
<1>2. nasMap[lines[id].src] # NoNas /\ lines[id].body # "other" /\ row = [id |-> id, nas |-> nasMap[lines[id].src]]
  BY DEF Attributed
<1> QED BY <1>1, <1>2 DEF TypeOK, Line, Row

(* A line that is read, and what may become of it.                            *)
Taken(c, id) ==
  /\ c \in Chunks /\ id = Head(c)
  /\ pos' = pos + 1 /\ chunk' = Tail(c) /\ read' = read \cup {id}

Skipped(id) == Attributed(id) = {} /\ UNCHANGED <<buf, table, lost, conn, dbUp, events>>

Buffered(row) ==
  /\ Len(Append(buf, row)) < BatchSize /\ buf' = Append(buf, row)
  /\ UNCHANGED <<table, lost, conn, dbUp, events>>

LEMMA ReadLineStep ==
  ASSUME TypeInv, ReadLine
  PROVE  \E c \in Chunks, id \in 1..Len(lines) :
           /\ Taken(c, id)
           /\ unknown' = unknown \cup (IF nasMap[lines[id].src] = NoNas THEN {id} ELSE {})
           /\ \/ Skipped(id)
              \/ \E row \in Attributed(id) : Buffered(row) \/ FlushRows(Append(buf, row), conn)
<1>1. PICK c \in Chunks :
        LET id == Head(c)
        IN  /\ pos' = pos + 1 /\ chunk' = Tail(c)
            /\ read' = read \cup {id}
            /\ unknown' = IF nasMap[lines[id].src] = NoNas THEN unknown \cup {id} ELSE unknown
            /\ \/ /\ Attributed(id) = {}
                  /\ UNCHANGED <<buf, table, lost, conn, dbUp, events>>
               \/ \E row \in Attributed(id) :
                    LET filled == Append(buf, row)
                    IN  IF Len(filled) < BatchSize
                        THEN buf' = filled /\ UNCHANGED <<table, lost, conn, dbUp, events>>
                        ELSE FlushRows(filled, conn)
  BY DEF ReadLine
<1>2. Head(c) \in 1..Len(lines)
  BY ChunkTypes, Behead
<1>3. Taken(c, Head(c))
  BY <1>1 DEF Taken
<1>4. unknown' = unknown \cup (IF nasMap[lines[Head(c)].src] = NoNas THEN {Head(c)} ELSE {})
  BY <1>1
<1>5. CASE Attributed(Head(c)) = {} /\ UNCHANGED <<buf, table, lost, conn, dbUp, events>>
  BY <1>2, <1>3, <1>4, <1>5 DEF Skipped
<1>6. ASSUME NEW row \in Attributed(Head(c)),
             IF Len(Append(buf, row)) < BatchSize
             THEN buf' = Append(buf, row) /\ UNCHANGED <<table, lost, conn, dbUp, events>>
             ELSE FlushRows(Append(buf, row), conn)
      PROVE  Buffered(row) \/ FlushRows(Append(buf, row), conn)
  BY <1>6 DEF Buffered
<1> QED BY <1>1, <1>2, <1>3, <1>4, <1>5, <1>6, Zenon

LEMMA TypeInvNext == TypeInv /\ [Next]_vars => TypeInv'
<1> SUFFICES ASSUME TypeInv, [Next]_vars PROVE TypeInv'
  OBVIOUS
<1> USE IngestAssumption DEF TypeInv
<1>1. /\ lines \in Seq(Line) /\ Len(lines) \in Nat /\ Len(lines) <= MaxLines /\ base \in 0..Len(lines)
      /\ pos \in 0..MaxLines /\ chunk \in Seq(1..MaxLines) /\ Len(chunk) \in Nat
      /\ buf \in Seq(Row) /\ Len(buf) \in Nat /\ Len(buf) < BatchSize /\ table \in Seq(Row)
      /\ MaxLines \in Nat
  BY DEF TypeOK
<1>2. <<>> \in Seq(Row) /\ <<>> \in Seq(1..MaxLines) /\ Len(<<>>) = 0
  BY EmptySeq
<1>3. ASSUME Event PROVE events' \in 0..MaxEvents
  BY <1>3 DEF Event, TypeOK
<1>4. ASSUME NEW s \in Sources, NEW b \in Bodies, WriteLine(s, b) PROVE TypeInv'
  <2>1. [src |-> s, body |-> b] \in Line
    BY DEF Line
  <2>2. lines' \in Seq(Line) /\ Len(lines') = Len(lines) + 1
    BY <1>1, <1>4, <2>1, Appended DEF WriteLine
  <2>3. Len(lines') <= MaxLines /\ base \in 0..Len(lines') /\ floor \in 0..Len(lines')
    BY <1>1, <1>4, <2>2 DEF WriteLine, TypeOK
  <2>4. pos + Len(chunk) <= Len(lines')
    BY <1>1, <2>2 DEF Tracks
  <2> QED BY <1>4, <2>2, <2>3, <2>4 DEF WriteLine, TypeOK, Tracks, daemon, history
<1>5. CASE CopyTruncate
  <2>1. base' \in 0..Len(lines)
    BY <1>1, <1>5 DEF CopyTruncate
  <2> QED BY <1>5, <2>1 DEF CopyTruncate, TypeOK, Tracks, daemon, history
<1>6. ASSUME NEW s \in Sources, NEW n \in Nases \cup {NoNas}, ChangeRegistry(s, n) PROVE TypeInv'
  <2>1. registry' \in [Sources -> Nases \cup {NoNas}]
    BY <1>6 DEF ChangeRegistry, TypeOK
  <2>2. Registered(registry') \subseteq Sources \X (Nases \cup {NoNas})
    BY <2>1 DEF Registered
  <2>3. registered' \subseteq Sources \X (Nases \cup {NoNas})
    BY <1>6, <2>2 DEF ChangeRegistry, TypeOK
  <2>4. events' \in 0..MaxEvents
    BY <1>3, <1>6 DEF ChangeRegistry
  <2> QED BY <1>6, <2>1, <2>3, <2>4 DEF ChangeRegistry, TypeOK, Tracks, daemon, history
<1>7. CASE DbGoes
  <2>1. events' \in 0..MaxEvents
    BY <1>3, <1>7 DEF DbGoes
  <2>2. conn' \in {"none", "up", "stale"}
    BY <1>7 DEF DbGoes, Severed, TypeOK
  <2> QED BY <1>7, <2>1, <2>2 DEF DbGoes, TypeOK, Tracks, history
<1>8. CASE DbReturns
  BY <1>8 DEF DbReturns, TypeOK, Tracks, daemon, history
<1>9. CASE StopSignal
  <2>1. events' \in 0..MaxEvents
    BY <1>3, <1>9 DEF StopSignal
  <2> QED BY <1>9, <2>1 DEF StopSignal, TypeOK, Tracks, history
<1>10. CASE Crash
  <2>1. events' \in 0..MaxEvents /\ lost' \subseteq Loss
    BY <1>1, <1>3, <1>10, GiveUpType DEF Crash
  <2>2. buf' \in Seq(Row) /\ Len(buf') < BatchSize
    BY <1>2, <1>10 DEF Crash
  <2> QED BY <1>10, <2>1, <2>2 DEF Crash, TypeOK, Tracks, history
<1>11. CASE Start
  <2>1. nasMap' \in [Sources -> Nases \cup {NoNas}] /\ conn' \in {"none", "up", "stale"}
    BY <1>11 DEF Start, Refreshed, Reconnected, TypeOK
  <2>2. /\ buf' \in Seq(Row) /\ Len(buf') < BatchSize /\ chunk' \in Seq(1..MaxLines)
        /\ pos' \in 0..MaxLines /\ floor' \in 0..Len(lines) /\ pos' + Len(chunk') <= Len(lines)
    BY <1>1, <1>2, <1>11 DEF Start
  <2> QED BY <1>11, <2>1, <2>2 DEF Start, TypeOK, Tracks, env
<1>12. CASE OpenCapture
  <2>1. chunk' = <<>> /\ pos' = Len(lines) - base /\ Len(chunk') = 0
    BY <1>2, <1>12 DEF OpenCapture, FileSize, Tracks
  <2>2. pos' \in 0..MaxLines /\ pos' + Len(chunk') <= Len(lines)
    BY <1>1, <2>1
  <2> QED BY <1>12, <2>1, <2>2 DEF OpenCapture, TypeOK, Tracks, env
<1>13. CASE ReadLine
  <2>1. PICK c \in Chunks, id \in 1..Len(lines) :
          /\ Taken(c, id)
          /\ unknown' = unknown \cup (IF nasMap[lines[id].src] = NoNas THEN {id} ELSE {})
          /\ \/ Skipped(id)
             \/ \E row \in Attributed(id) : Buffered(row) \/ FlushRows(Append(buf, row), conn)
    BY <1>13, ReadLineStep
  <2>2. /\ c \in Seq(1..MaxLines) /\ c # <<>> /\ pos + Len(c) <= Len(lines)
        /\ \A i \in DOMAIN c : c[i] \in 1..Len(lines)
    BY ChunkTypes
  <2>3. /\ chunk' \in Seq(1..MaxLines) /\ Len(chunk') = Len(c) - 1 /\ Len(c) \in Nat \ {0}
        /\ \A i \in DOMAIN chunk' : chunk'[i] <= Len(lines)
    BY <2>1, <2>2, Behead DEF Taken
  <2>4. pos' = pos + 1 /\ pos' \in 0..MaxLines /\ pos' + Len(chunk') <= Len(lines)
    BY <1>1, <2>1, <2>2, <2>3 DEF Taken
  <2>5. read' \subseteq 1..MaxLines /\ unknown' \subseteq 1..MaxLines
    <3>1. id \in 1..MaxLines
      BY <1>1
    <3> QED BY <2>1, <3>1 DEF Taken, TypeOK
  <2>6. /\ buf' \in Seq(Row) /\ Len(buf') < BatchSize
        /\ table' \in Seq(Row) /\ lost' \subseteq Loss
        /\ conn' \in {"none", "up", "stale"} /\ dbUp' \in BOOLEAN /\ events' \in 0..MaxEvents
    <3>1. CASE Skipped(id)
      BY <3>1 DEF Skipped, TypeOK
    <3>2. ASSUME NEW row \in Attributed(id) PROVE Append(buf, row) \in Seq(Row)
      BY <1>1, AttributedTypes, Appended
    <3>3. CASE \E row \in Attributed(id) : Buffered(row) \/ FlushRows(Append(buf, row), conn)
      <4>1. PICK row \in Attributed(id) : Buffered(row) \/ FlushRows(Append(buf, row), conn)
        BY <3>3
      <4>2. CASE Buffered(row)
        BY <3>2, <4>2 DEF Buffered, TypeOK
      <4>3. CASE FlushRows(Append(buf, row), conn)
        BY <3>2, <4>3, FlushTypes DEF TypeOK
      <4> QED BY <4>1, <4>2, <4>3
    <3> QED BY <2>1, <3>1, <3>3
  <2>7. UNCHANGED <<lines, base, registry, registered, pc, running, nasMap, floor>> /\ pc = "read"
    BY <1>13 DEF ReadLine
  <2> QED BY <2>3, <2>4, <2>5, <2>6, <2>7 DEF TypeOK, Tracks
<1>14. CASE QuietFlush
  <2>1. PICK r \in RefreshIfDue : nasMap' = r.map /\ FlushRows(buf, r.conn)
    BY <1>14 DEF QuietFlush
  <2>2. nasMap' \in [Sources -> Nases \cup {NoNas}] /\ r.conn \in {"none", "up", "stale"}
    BY <2>1, RefreshTypes
  <2>3. /\ buf' \in Seq(Row) /\ Len(buf') < BatchSize
        /\ table' \in Seq(Row) /\ lost' \subseteq Loss
        /\ conn' \in {"none", "up", "stale"} /\ dbUp' \in BOOLEAN /\ events' \in 0..MaxEvents
    BY <1>1, <2>1, <2>2, FlushTypes
  <2>4. pc' = "stat" /\ chunk = <<>> /\ UNCHANGED <<lines, base, registry, registered, running, pos, chunk, history>>
    BY <1>14 DEF QuietFlush, Quiet
  <2> QED BY <2>2, <2>3, <2>4 DEF TypeOK, Tracks, history
<1>15. CASE QuietNoFlush
  <2>1. nasMap' \in [Sources -> Nases \cup {NoNas}] /\ conn' \in {"none", "up", "stale"}
    BY <1>15, RefreshTypes DEF QuietNoFlush
  <2> QED BY <1>15, <2>1 DEF QuietNoFlush, Quiet, TypeOK, Tracks, env, history
<1>16. CASE CheckRotation
  BY <1>16 DEF CheckRotation, TypeOK, Tracks, env, history
<1>17. CASE Shutdown
  <2>1. /\ buf' \in Seq(Row) /\ Len(buf') < BatchSize
        /\ table' \in Seq(Row) /\ lost' \subseteq Loss
        /\ conn' \in {"none", "up", "stale"} /\ dbUp' \in BOOLEAN /\ events' \in 0..MaxEvents
    <3>1. CASE UNCHANGED <<buf, table, lost, conn, dbUp, events>>
      BY <3>1 DEF TypeOK
    <3>2. CASE FlushRows(buf, conn)
      BY <1>1, <3>2, FlushTypes DEF TypeOK
    <3> QED BY <1>17, <3>1, <3>2 DEF Shutdown
  <2>2. pc' = "down" /\ UNCHANGED <<lines, base, registry, registered, running, pos, chunk, nasMap, history>>
    BY <1>17 DEF Shutdown
  <2> QED BY <2>1, <2>2 DEF TypeOK, Tracks, history
<1>18. CASE UNCHANGED vars
  BY <1>18 DEF vars, env, daemon, history, TypeOK, Tracks
<1> QED
  BY <1>4, <1>5, <1>6, <1>7, <1>8, <1>9, <1>10, <1>11, <1>12, <1>13, <1>14, <1>15, <1>16, <1>17, <1>18
     DEF Next, Environment, Daemon

LEMMA TypeInvariance == Spec => []TypeInv
  BY TypeInvInit, TypeInvNext, PTL DEF Spec

(* Every variable keeps its type: in particular the buffer never holds a full  *)
(* batch between two lines.                                                    *)
THEOREM TypeCorrect == Spec => []TypeOK
<1>1. TypeInv => TypeOK
  BY DEF TypeInv
<1> QED BY <1>1, TypeInvariance, PTL

-----------------------------------------------------------------------------
(* The order of reading.                                                      *)

(* What is read is written, and while the daemon follows the file it is all   *)
(* behind what is still to come: what is left in the read buffer, in order,   *)
(* and what follows the position.  Truncation only moves the position ahead   *)
(* of what was read, since base counts what it cut away.                      *)
Follows ==
  /\ read \subseteq 1..Len(lines)
  /\ pc \in {"read", "stat"} =>
       /\ \A x \in read : x <= base + pos
       /\ \A i \in DOMAIN chunk :
            /\ chunk[i] <= base + pos + i
            /\ \A x \in read : x < chunk[i]
            /\ \A j \in DOMAIN chunk : i < j => chunk[i] < chunk[j]
  /\ pc = "down" => buf = <<>>

FollowInv == TypeInv /\ Follows

(* The lines the daemon has yet to read.                                      *)
Waiting == {id \in Nat : pc \in {"read", "stat"} /\ Unread(id)}

(* A line that is read was waiting, and nothing behind it was read before.    *)
LEMMA NextInLine ==
  ASSUME FollowInv, pc = "read", NEW c \in Chunks, NEW id, Taken(c, id)
  PROVE  /\ id \in Waiting
         /\ \A x \in read : x < id
         /\ id <= base + pos + 1
         /\ \A i \in DOMAIN chunk' : /\ id < chunk'[i] /\ chunk'[i] <= base + pos' + i
                                     /\ chunk'[i] \in Waiting
                                     /\ \A x \in read' : x < chunk'[i]
                                     /\ \A j \in DOMAIN chunk' : i < j => chunk'[i] < chunk'[j]
         /\ base + pos' + Len(chunk') >= base + pos + Len(chunk)
<1>1. /\ base \in Nat /\ pos \in Nat /\ Len(lines) \in Nat /\ chunk \in Seq(1..MaxLines) /\ MaxLines \in Nat
      /\ read \subseteq Nat
  BY IngestAssumption DEF FollowInv, TypeInv, TypeOK, Follows
<1>2. /\ c \in Seq(1..MaxLines) /\ c # <<>> /\ Len(c) \in Nat \ {0} /\ DOMAIN c = 1..Len(c)
      /\ \A i \in DOMAIN c : c[i] \in Nat
  <2>1. c \in Seq(1..MaxLines) /\ c # <<>> /\ \A i \in DOMAIN c : c[i] \in 1..Len(lines)
    BY ChunkTypes DEF FollowInv
  <2> QED BY <1>1, <2>1, Behead, LenProperties
<1>3. /\ \A i \in DOMAIN c : /\ c[i] <= base + pos + i /\ \A x \in read : x < c[i]
                             /\ c[i] \in Waiting
      /\ \A i, j \in DOMAIN c : i < j => c[i] < c[j]
      /\ Len(c) >= Len(chunk)
  <2>1. CASE chunk # <<>>
    <3>1. c = chunk
      BY <2>1 DEF Chunks
    <3>2. \A i \in DOMAIN c : c[i] \in Waiting
      BY <1>2, <3>1 DEF Waiting, Unread
    <3> QED BY <1>2, <3>1, <3>2 DEF FollowInv, Follows
  <2>2. CASE chunk = <<>>
    <3>1. PICK k \in 1..(FileSize - pos) : c = [i \in 1..k |-> base + pos + i]
      BY <2>2 DEF Chunks
    <3>2. DOMAIN chunk = {} /\ Len(chunk) = 0
      BY <2>2
    <3>3. DOMAIN c = 1..k /\ \A i \in 1..k : c[i] = base + pos + i /\ c[i] > base + pos /\ c[i] \in Nat
      BY <1>1, <3>1
    <3>4. \A i \in DOMAIN c : c[i] \in Waiting
      BY <1>1, <3>2, <3>3 DEF Waiting, Unread
    <3>5. \A x \in read : x <= base + pos
      BY DEF FollowInv, Follows
    <3>6. k \in Nat
      OBVIOUS
    <3>7. \A i \in DOMAIN c : i \in Nat /\ c[i] <= base + pos + i /\ \A x \in read : x < c[i]
      BY <1>1, <3>3, <3>5, <3>6
    <3>8. \A i, j \in DOMAIN c : i < j => c[i] < c[j]
      BY <1>1, <3>3, <3>6
    <3>9. Len(c) >= Len(chunk)
      BY <1>2, <3>2
    <3> QED BY <3>4, <3>7, <3>8, <3>9
  <2> QED BY <2>1, <2>2
<1>4. /\ id = c[1] /\ 1 \in DOMAIN c /\ pos' = pos + 1 /\ chunk' = Tail(c) /\ read' = read \cup {id}
      /\ Len(Tail(c)) = Len(c) - 1
      /\ \A i \in DOMAIN chunk' : i \in Nat \ {0} /\ i + 1 \in DOMAIN c /\ chunk'[i] = c[i + 1]
  BY <1>2, Behead DEF Taken
<1>5. ASSUME NEW i \in DOMAIN chunk'
      PROVE  /\ id < chunk'[i] /\ chunk'[i] <= base + pos' + i /\ chunk'[i] \in Waiting
             /\ \A x \in read' : x < chunk'[i]
             /\ \A j \in DOMAIN chunk' : i < j => chunk'[i] < chunk'[j]
  <2>1. i \in Nat /\ i + 1 \in DOMAIN c /\ 1 < i + 1 /\ chunk'[i] = c[i + 1]
    BY <1>4
  <2>2. id < chunk'[i]
    BY <1>3, <1>4, <2>1
  <2>3. chunk'[i] <= base + pos' + i
    BY <1>1, <1>3, <1>4, <2>1
  <2>4. \A x \in read' : x < chunk'[i]
    BY <1>3, <1>4, <2>1, <2>2
  <2>5. ASSUME NEW j \in DOMAIN chunk', i < j PROVE chunk'[i] < chunk'[j]
    <3>1. j \in Nat /\ j + 1 \in DOMAIN c /\ i + 1 < j + 1 /\ chunk'[j] = c[j + 1]
      BY <1>4, <2>1, <2>5
    <3> QED BY <1>3, <2>1, <3>1
  <2> QED BY <1>3, <2>1, <2>2, <2>3, <2>4, <2>5
<1>6. base + pos' + Len(chunk') >= base + pos + Len(chunk)
  <2>1. Len(chunk) \in Nat
    BY <1>1
  <2> QED BY <1>1, <1>2, <1>3, <1>4, <2>1
<1> QED BY <1>1, <1>3, <1>4, <1>5, <1>6

(* Lines are only ever added.                                                 *)
LEMMA LinesStay ==
  ASSUME TypeInv, [Next]_vars
  PROVE  /\ Len(lines) \in Nat /\ Len(lines') \in Nat /\ Len(lines) <= Len(lines')
         /\ \A i \in 1..Len(lines) : lines'[i] = lines[i]
<1>1. lines \in Seq(Line) /\ Len(lines) \in Nat
  BY DEF TypeInv, TypeOK
<1>2. ASSUME NEW s \in Sources, NEW b \in Bodies, WriteLine(s, b)
      PROVE  Len(lines') = Len(lines) + 1 /\ \A i \in 1..Len(lines) : lines'[i] = lines[i]
  <2>1. [src |-> s, body |-> b] \in Line
    BY DEF Line
  <2> QED BY <1>1, <1>2, <2>1, Appended DEF WriteLine
<1>3. (\E s \in Sources, b \in Bodies : WriteLine(s, b)) \/ UNCHANGED lines
  BY DEF Next, Environment, Daemon, CopyTruncate, ChangeRegistry, DbGoes, DbReturns, StopSignal, Crash,
         Start, OpenCapture, ReadLine, QuietFlush, QuietNoFlush, CheckRotation, Shutdown, vars, env
<1> QED BY <1>1, <1>2, <1>3

LEMMA FollowInvInit == Init => FollowInv
<1>1. Init => Follows
  BY DEF Init, Follows
<1> QED BY <1>1, TypeInvInit DEF FollowInv

LEMMA FollowInvNext == FollowInv /\ [Next]_vars => FollowInv'
<1> SUFFICES ASSUME FollowInv, [Next]_vars PROVE FollowInv'
  OBVIOUS
<1>1. TypeInv' /\ TypeInv
  BY TypeInvNext DEF FollowInv
<1>2. /\ base \in 0..Len(lines) /\ pos \in Nat /\ Len(lines) \in Nat /\ Len(lines') \in Nat
      /\ Len(lines) <= Len(lines') /\ chunk \in Seq(1..MaxLines) /\ read \subseteq 1..Len(lines)
  <2>1. base \in 0..Len(lines) /\ pos \in Nat /\ chunk \in Seq(1..MaxLines)
    BY <1>1, IngestAssumption DEF TypeInv, TypeOK
  <2>2. read \subseteq 1..Len(lines)
    BY DEF FollowInv, Follows
  <2> QED BY <1>1, <2>1, <2>2, LinesStay
<1>3. read' \subseteq 1..Len(lines')
  <2>1. read' = read \/ ReadLine
    BY DEF Next, Environment, Daemon, WriteLine, CopyTruncate, ChangeRegistry, DbGoes, DbReturns, StopSignal,
           Crash, Start, OpenCapture, QuietFlush, QuietNoFlush, CheckRotation, Shutdown, vars, daemon,
           history
  <2>2. 1..Len(lines) \subseteq 1..Len(lines')
    BY <1>2
  <2>3. CASE ReadLine
    <3>1. PICK id \in 1..Len(lines) : read' = read \cup {id}
      BY <1>1, <2>3, ReadLineStep DEF Taken
    <3> QED BY <1>2, <2>2, <3>1
  <2> QED BY <1>2, <2>1, <2>2, <2>3
<1>4. pc' = "down" => buf' = <<>>
  <2>1. CASE Shutdown
    BY <2>1 DEF Shutdown, FlushRows
  <2>2. CASE Crash
    BY <2>2 DEF Crash
  <2>3. CASE ReadLine
    BY <2>3 DEF ReadLine
  <2> QED
    BY <2>1, <2>2, <2>3
       DEF FollowInv, Follows, Next, Environment, Daemon, WriteLine, CopyTruncate, ChangeRegistry, DbGoes,
           DbReturns, StopSignal, Start, OpenCapture, QuietFlush, QuietNoFlush, CheckRotation, vars,
           daemon, history
<1> DEFINE Ahead ==
      /\ \A x \in read : x <= base + pos
      /\ \A i \in DOMAIN chunk :
           /\ chunk[i] <= base + pos + i
           /\ \A x \in read : x < chunk[i]
           /\ \A j \in DOMAIN chunk : i < j => chunk[i] < chunk[j]
<1>5. pc \in {"read", "stat"} => Ahead
  BY DEF FollowInv, Follows
<1>6. pc' \in {"read", "stat"} => Ahead'
  <2> SUFFICES ASSUME pc' \in {"read", "stat"} PROVE Ahead'
    OBVIOUS
  <2>1. CASE ReadLine
    <3>1. PICK c \in Chunks, id \in 1..Len(lines) : Taken(c, id)
      BY <1>1, <2>1, ReadLineStep
    <3>2. pc = "read" /\ UNCHANGED <<base, lines>> /\ pos' = pos + 1 /\ read' = read \cup {id}
      BY <2>1, <3>1 DEF ReadLine, Taken
    <3>3. /\ id <= base + pos + 1
          /\ \A i \in DOMAIN chunk' : /\ id < chunk'[i] /\ chunk'[i] <= base + pos' + i
                                      /\ chunk'[i] \in Waiting
                                      /\ \A x \in read' : x < chunk'[i]
                                      /\ \A j \in DOMAIN chunk' : i < j => chunk'[i] < chunk'[j]
      BY <3>1, <3>2, NextInLine
    <3>4. \A x \in read' : x <= base' + pos'
      BY <1>2, <1>5, <3>2, <3>3
    <3> QED BY <3>2, <3>3, <3>4
  <2>2. CASE OpenCapture
    <3>1. DOMAIN chunk' = {} /\ pos' = Len(lines) - base /\ UNCHANGED <<read, base>>
      BY <1>1, <2>2 DEF OpenCapture, TypeInv, Tracks, FileSize, env, history
    <3> QED BY <1>2, <3>1
  <2>3. CASE CopyTruncate
    <3>1. base' = Len(lines) /\ UNCHANGED <<read, pos, chunk, pc>>
      BY <2>3 DEF CopyTruncate, daemon, history
    <3>2. \A i \in DOMAIN chunk : chunk[i] \in 1..MaxLines /\ i \in Nat
      <4>1. chunk \in Seq(1..MaxLines)
        BY <1>2
      <4>2. DOMAIN chunk = 1..Len(chunk) /\ Len(chunk) \in Nat
        BY <4>1, LenProperties
      <4>3. \A i \in 1..Len(chunk) : chunk[i] \in 1..MaxLines
        BY <4>1, ElementOfSeq, Zenon
      <4>4. \A i \in 1..Len(chunk) : i \in Nat
        BY <4>2
      <4> QED BY <4>2, <4>3, <4>4
    <3>3. \A x \in read : x \in Nat
      BY <1>2
    <3>4. base' \in Nat /\ base \in Nat /\ base <= base'
      BY <1>2, <3>1
    <3>5. /\ \A x \in read : x <= base' + pos
          /\ \A i \in DOMAIN chunk : chunk[i] <= base' + pos + i
      BY <1>2, <1>5, <3>1, <3>2, <3>3, <3>4
    <3> QED BY <1>5, <3>1, <3>5
  <2>4. CASE /\ UNCHANGED <<read, base, pos, chunk>> /\ pc \in {"read", "stat"}
    BY <1>5, <2>4
  <2> QED
    BY <2>1, <2>2, <2>3, <2>4
       DEF FollowInv, Follows, Next, Environment, Daemon, WriteLine, ChangeRegistry, DbGoes,
           DbReturns, StopSignal, Crash, Start, QuietFlush, QuietNoFlush, CheckRotation, Shutdown, vars,
           env, daemon, history, Quiet
<1> QED BY <1>1, <1>3, <1>4, <1>6 DEF FollowInv, Follows

LEMMA Following == Spec => []FollowInv
  BY FollowInvInit, FollowInvNext, PTL DEF Spec

-----------------------------------------------------------------------------
(* What a step does to the rows: it has some rows in hand, those buffered and *)
(* perhaps one more, that of a line it reads, and then keeps, commits or      *)
(* gives up all of them.                                                      *)

InHand(got) ==
  \/ got = buf /\ UNCHANGED <<read, unknown>>
  \/ \E id \in 1..Len(lines) :
       /\ id \in Waiting /\ \A x \in read : x < id
       /\ read' = read \cup {id}
       /\ unknown' = unknown \cup (IF nasMap[lines[id].src] = NoNas THEN {id} ELSE {})
       /\ \/ Attributed(id) = {} /\ got = buf
          \/ \E row \in Attributed(id) : got = Append(buf, row)

Settled(got) ==
  \/ buf' = got /\ UNCHANGED <<table, lost>>
  \/ buf' = <<>> /\ table' = table \o got /\ UNCHANGED lost
  \/ buf' = <<>> /\ UNCHANGED table /\ \E why \in {"row", "outage", "crash"} : GiveUp(got, why)

LEMMA FlushSettles ==
  ASSUME TypeInv, NEW rows \in Seq(Row), NEW c \in {"none", "up", "stale"}, FlushRows(rows, c)
  PROVE  Settled(rows)
  BY FlushOutcome, Zenon DEF Settled, TypeInv

LEMMA StepOutcome ==
  ASSUME FollowInv, [Next]_vars
  PROVE  \E got \in Seq(Row) : InHand(got) /\ Settled(got)
<1>1. TypeInv /\ buf \in Seq(Row) /\ conn \in {"none", "up", "stale"}
  BY DEF FollowInv, TypeInv, TypeOK
<1>2. CASE ReadLine
  <2>1. PICK c \in Chunks, id \in 1..Len(lines) :
          /\ Taken(c, id)
          /\ unknown' = unknown \cup (IF nasMap[lines[id].src] = NoNas THEN {id} ELSE {})
          /\ \/ Skipped(id)
             \/ \E row \in Attributed(id) : Buffered(row) \/ FlushRows(Append(buf, row), conn)
    BY <1>1, <1>2, ReadLineStep
  <2>2. id \in Waiting /\ (\A x \in read : x < id) /\ read' = read \cup {id}
    BY <1>2, <2>1, NextInLine DEF ReadLine, Taken
  <2>3. CASE Skipped(id)
    <3>1. InHand(buf)
      BY <2>1, <2>2, <2>3, Zenon DEF InHand, Skipped
    <3>2. Settled(buf)
      BY <2>3 DEF Settled, Skipped
    <3> QED BY <1>1, <3>1, <3>2
  <2>4. CASE \E row \in Attributed(id) : Buffered(row) \/ FlushRows(Append(buf, row), conn)
    <3>1. PICK row \in Attributed(id) : Buffered(row) \/ FlushRows(Append(buf, row), conn)
      BY <2>4
    <3>2. Append(buf, row) \in Seq(Row)
      BY <1>1, AttributedTypes, Appended DEF TypeInv
    <3>3. InHand(Append(buf, row))
      BY <2>1, <2>2, <3>1, Zenon DEF InHand
    <3>4. Settled(Append(buf, row))
      BY <1>1, <3>1, <3>2, FlushSettles DEF Buffered, Settled
    <3> QED BY <3>2, <3>3, <3>4
  <2> QED BY <2>1, <2>3, <2>4
<1>3. ASSUME UNCHANGED <<read, unknown>>, Settled(buf) PROVE \E got \in Seq(Row) : InHand(got) /\ Settled(got)
  BY <1>1, <1>3 DEF InHand
<1>4. CASE QuietFlush
  <2>1. PICK r \in RefreshIfDue : FlushRows(buf, r.conn)
    BY <1>4 DEF QuietFlush
  <2>2. Settled(buf)
    BY <1>1, <2>1, RefreshTypes, FlushSettles DEF TypeInv
  <2> QED BY <1>3, <1>4, <2>2 DEF QuietFlush, history
<1>5. CASE Shutdown
  <2>1. UNCHANGED <<buf, table, lost>> \/ FlushRows(buf, conn)
    BY <1>5 DEF Shutdown
  <2>2. Settled(buf)
    BY <1>1, <2>1, FlushSettles DEF Settled
  <2> QED BY <1>3, <1>5, <2>2 DEF Shutdown, history
<1>6. CASE Crash
  <2>1. Settled(buf)
    BY <1>6 DEF Crash, Settled
  <2> QED BY <1>3, <1>6, <2>1 DEF Crash, history
<1>7. CASE Start
  <2>1. Settled(buf)
    BY <1>7 DEF Start, Settled, FollowInv, Follows
  <2> QED BY <1>3, <1>7, <2>1 DEF Start
<1>8. CASE UNCHANGED <<read, unknown, buf, table, lost>>
  BY <1>3, <1>8 DEF Settled
<1> QED
  BY <1>2, <1>4, <1>5, <1>6, <1>7, <1>8
     DEF Next, Environment, Daemon, WriteLine, CopyTruncate, ChangeRegistry, DbGoes, DbReturns, StopSignal,
         OpenCapture, QuietNoFlush, CheckRotation, vars, daemon, history

-----------------------------------------------------------------------------
(* Inserted once and in order.                                                *)

Increasing(rows) == \A i, j \in DOMAIN rows : i < j => rows[i].id < rows[j].id

(* The rows of the table, then those after them, each from a line read.       *)
Ordered(placed, rows, done) ==
  /\ Increasing(placed) /\ Increasing(rows)
  /\ \A i \in DOMAIN placed, j \in DOMAIN rows : placed[i].id < rows[j].id
  /\ IdsOf(placed) \subseteq done /\ IdsOf(rows) \subseteq done

OrderInv == FollowInv /\ Ordered(table, buf, read)

LEMMA IncreasingJoined ==
  ASSUME NEW s \in Seq(Row), NEW t \in Seq(Row), NEW done, Ordered(s, t, done)
  PROVE  Increasing(s \o t)
<1> SUFFICES ASSUME NEW i \in DOMAIN (s \o t), NEW j \in DOMAIN (s \o t), i < j
             PROVE  (s \o t)[i].id < (s \o t)[j].id
  BY DEF Increasing
<1>1. /\ DOMAIN s = 1..Len(s) /\ Len(s) \in Nat /\ DOMAIN t = 1..Len(t) /\ Len(t) \in Nat
  BY LenProperties
<1>2. \/ i \in DOMAIN s /\ (s \o t)[i] = s[i]
      \/ \E k \in DOMAIN t : i = Len(s) + k /\ (s \o t)[i] = t[k]
  BY Joined
<1>3. \/ j \in DOMAIN s /\ (s \o t)[j] = s[j]
      \/ \E k \in DOMAIN t : j = Len(s) + k /\ (s \o t)[j] = t[k]
  BY Joined
<1>4. CASE i \in DOMAIN s /\ j \in DOMAIN s /\ (s \o t)[i] = s[i] /\ (s \o t)[j] = s[j]
  BY <1>4 DEF Ordered, Increasing
<1>5. ASSUME i \in DOMAIN s, (s \o t)[i] = s[i], NEW k \in DOMAIN t, (s \o t)[j] = t[k]
      PROVE  (s \o t)[i].id < (s \o t)[j].id
  BY <1>5 DEF Ordered
<1>6. ASSUME NEW k \in DOMAIN t, i = Len(s) + k, j \in DOMAIN s PROVE FALSE
  BY <1>1, <1>6
<1>7. ASSUME NEW k \in DOMAIN t, i = Len(s) + k, (s \o t)[i] = t[k],
             NEW m \in DOMAIN t, j = Len(s) + m, (s \o t)[j] = t[m]
      PROVE  (s \o t)[i].id < (s \o t)[j].id
  <2>1. k < m
    BY <1>1, <1>7
  <2> QED BY <1>7, <2>1 DEF Ordered, Increasing
<1> QED BY <1>2, <1>3, <1>4, <1>5, <1>6, <1>7

LEMMA OrderInHand ==
  ASSUME OrderInv, NEW got \in Seq(Row), InHand(got)
  PROVE  Ordered(table, got, read') /\ read \subseteq read'
<1>1. TypeOK /\ buf \in Seq(Row) /\ DOMAIN buf = 1..Len(buf) /\ Len(buf) \in Nat /\ Ordered(table, buf, read)
  BY LenProperties DEF OrderInv, FollowInv, TypeInv, TypeOK
<1>2. read \subseteq read'
  BY DEF InHand
<1>3. CASE got = buf
  BY <1>1, <1>2, <1>3 DEF Ordered
<1>4. CASE got # buf
  <2>1. PICK id \in 1..Len(lines) :
          /\ \A x \in read : x < id
          /\ read' = read \cup {id}
          /\ \E row \in Attributed(id) : got = Append(buf, row)
    BY <1>4 DEF InHand
  <2> PICK row \in Attributed(id) : got = Append(buf, row)
    BY <2>1
  <2>2. row \in Row /\ row.id = id
    BY <1>1, AttributedTypes
  <2>3. /\ DOMAIN got = 1..(Len(buf) + 1)
        /\ \A i \in 1..Len(buf) : got[i] = buf[i] /\ got[i].id \in read
        /\ got[Len(buf) + 1] = row
    <3>1. /\ DOMAIN got = 1..(Len(buf) + 1) /\ got[Len(buf) + 1] = row
          /\ \A i \in 1..Len(buf) : got[i] = buf[i]
      BY <1>1, <2>2, Appended
    <3>2. \A i \in 1..Len(buf) : buf[i].id \in read
      BY <1>1 DEF Ordered, IdsOf
    <3> QED BY <3>1, <3>2
  <2>4. Increasing(got)
    <3> SUFFICES ASSUME NEW i \in DOMAIN got, NEW j \in DOMAIN got, i < j PROVE got[i].id < got[j].id
      BY DEF Increasing
    <3>1. CASE j = Len(buf) + 1
      <4>1. i \in 1..Len(buf)
        BY <1>1, <2>3, <3>1
      <4> QED BY <2>1, <2>2, <2>3, <3>1, <4>1
    <3>2. CASE j # Len(buf) + 1
      <4>1. i \in 1..Len(buf) /\ j \in 1..Len(buf)
        BY <1>1, <2>3, <3>2
      <4> QED BY <1>1, <2>3, <4>1 DEF Ordered, Increasing
    <3> QED BY <3>1, <3>2
  <2>5. ASSUME NEW i \in DOMAIN table, NEW j \in DOMAIN got PROVE table[i].id < got[j].id
    <3>1. CASE j = Len(buf) + 1
      <4>1. table[i].id \in read
        BY <1>1 DEF Ordered, IdsOf
      <4> QED BY <2>1, <2>2, <2>3, <3>1, <4>1
    <3>2. CASE j # Len(buf) + 1
      <4>1. j \in 1..Len(buf)
        BY <1>1, <2>3, <3>2
      <4> QED BY <1>1, <2>3, <4>1 DEF Ordered
    <3> QED BY <3>1, <3>2
  <2>6. IdsOf(got) \subseteq read'
    BY <1>1, <2>1, <2>2, IdsAppended DEF Ordered
  <2> QED BY <1>1, <1>2, <2>4, <2>5, <2>6 DEF Ordered
<1> QED BY <1>2, <1>3, <1>4

LEMMA OrderSettled ==
  ASSUME NEW got \in Seq(Row), table \in Seq(Row), Settled(got), Ordered(table, got, read')
  PROVE  Ordered(table', buf', read')
<1>1. DOMAIN <<>> = {} /\ IdsOf(<<>>) = {}
  BY IdsOfNone
<1>2. CASE buf' = got /\ UNCHANGED <<table, lost>>
  BY <1>2
<1>3. CASE buf' = <<>> /\ table' = table \o got
  <2>1. Increasing(table')
    BY <1>3, IncreasingJoined
  <2>2. IdsOf(table') \subseteq read'
    BY <1>3, IdsJoined DEF Ordered
  <2>3. Increasing(buf')
    BY <1>1, <1>3 DEF Increasing
  <2> QED BY <1>1, <1>3, <2>1, <2>2, <2>3 DEF Ordered
<1>4. CASE buf' = <<>> /\ UNCHANGED table
  <2>1. Increasing(buf')
    BY <1>1, <1>4 DEF Increasing
  <2> QED BY <1>1, <1>4, <2>1 DEF Ordered
<1> QED BY <1>2, <1>3, <1>4 DEF Settled

LEMMA OrderInvInit == Init => OrderInv
<1>1. Init => Ordered(table, buf, read)
  BY IdsOfNone DEF Init, Ordered, Increasing
<1> QED BY <1>1, FollowInvInit DEF OrderInv

LEMMA OrderInvNext == OrderInv /\ [Next]_vars => OrderInv'
<1> SUFFICES ASSUME OrderInv, [Next]_vars PROVE OrderInv'
  OBVIOUS
<1>1. FollowInv /\ FollowInv' /\ table \in Seq(Row)
  BY FollowInvNext DEF OrderInv, FollowInv, TypeInv, TypeOK
<1>2. PICK got \in Seq(Row) : InHand(got) /\ Settled(got)
  BY <1>1, StepOutcome
<1>3. Ordered(table, got, read')
  BY <1>2, OrderInHand
<1>4. Ordered(table', buf', read')
  BY <1>1, <1>2, <1>3, OrderSettled
<1> QED BY <1>1, <1>4 DEF OrderInv, Ordered, Increasing, IdsOf

LEMMA InOrder == Spec => []OrderInv
  BY OrderInvInit, OrderInvNext, PTL DEF Spec

(* A line is inserted at most once and rows go in in the order the lines were *)
(* written, however often the daemon is restarted, its connection dies, the   *)
(* file is truncated or the answer to a commit is lost.                       *)
THEOREM LinesInsertedOnceInOrder == Spec => []InsertedOnceInOrder
<1>1. ASSUME OrderInv PROVE InsertedOnceInOrder
  <2>1. table \in Seq(Row) /\ buf \in Seq(Row) /\ Ordered(table, buf, read)
    BY <1>1 DEF OrderInv, FollowInv, TypeInv, TypeOK
  <2>2. Increasing(table \o buf)
    BY <2>1, IncreasingJoined
  <2> QED BY <2>2 DEF InsertedOnceInOrder, Increasing
<1> QED BY <1>1, InOrder, PTL

-----------------------------------------------------------------------------
(* Every line has one fate.                                                   *)

(* The lines that hold a translation.                                         *)
Translations == {id \in 1..Len(lines) : lines[id].body # "other"}

(* The four fates exclude each other, and what is none of them is not a       *)
(* translation.                                                               *)
Accounted(placed, held, gone, strange, done, wanted) ==
  /\ placed \cap held = {} /\ placed \cap gone = {} /\ placed \cap strange = {}
  /\ held \cap gone = {} /\ held \cap strange = {} /\ gone \cap strange = {}
  /\ placed \cup held \cup gone \subseteq wanted
  /\ placed \cup held \cup gone \cup strange \subseteq done
  /\ done \cap wanted \subseteq placed \cup held \cup gone \cup strange

AccountInv ==
  FollowInv /\ Accounted(IdsOf(table), IdsOf(buf), LostIds, unknown, read, Translations)

LEMMA AccountInHand ==
  ASSUME AccountInv, NEW got \in Seq(Row), InHand(got)
  PROVE  /\ Accounted(IdsOf(table), IdsOf(got), LostIds, unknown', read', Translations)
         /\ read' \subseteq 1..Len(lines)
<1>1. /\ Accounted(IdsOf(table), IdsOf(buf), LostIds, unknown, read, Translations)
      /\ TypeOK /\ buf \in Seq(Row) /\ read \subseteq 1..Len(lines)
  BY DEF AccountInv, FollowInv, Follows, TypeInv, TypeOK
<1>2. CASE got = buf /\ UNCHANGED <<read, unknown>>
  BY <1>1, <1>2
<1>3. CASE ~(got = buf /\ UNCHANGED <<read, unknown>>)
  <2>1. PICK id \in 1..Len(lines) :
          /\ \A x \in read : x < id
          /\ read' = read \cup {id}
          /\ unknown' = unknown \cup (IF nasMap[lines[id].src] = NoNas THEN {id} ELSE {})
          /\ \/ Attributed(id) = {} /\ got = buf
             \/ \E row \in Attributed(id) : got = Append(buf, row)
    BY <1>3 DEF InHand
  <2>2. id \notin read
    <3>1. ~(id < id)
      OBVIOUS
    <3> QED BY <2>1, <3>1
  <2>3. CASE Attributed(id) = {} /\ got = buf
    <3>1. nasMap[lines[id].src] = NoNas \/ id \notin Translations
      BY <2>3 DEF Attributed, Translations
    <3>2. unknown' = unknown \cup {id} \/ (unknown' = unknown /\ id \notin Translations)
      BY <2>1, <3>1
    <3> QED BY <1>1, <2>1, <2>2, <2>3, <3>2 DEF Accounted
  <2>4. CASE \E row \in Attributed(id) : got = Append(buf, row)
    <3>1. PICK row \in Attributed(id) : got = Append(buf, row)
      BY <2>4
    <3>2. row \in Row /\ row.id = id /\ id \in Translations /\ unknown' = unknown
      BY <1>1, <2>1, AttributedTypes DEF Translations, Attributed
    <3>3. IdsOf(got) = IdsOf(buf) \cup {id}
      BY <1>1, <3>1, <3>2, IdsAppended
    <3> QED BY <1>1, <2>1, <2>2, <3>2, <3>3 DEF Accounted
  <2> QED BY <2>1, <2>3, <2>4
<1> QED BY <1>2, <1>3

LEMMA AccountSettled ==
  ASSUME NEW got \in Seq(Row), table \in Seq(Row), Settled(got), NEW strange, NEW done, NEW wanted,
         Accounted(IdsOf(table), IdsOf(got), LostIds, strange, done, wanted)
  PROVE  Accounted(IdsOf(table'), IdsOf(buf'), LostIds', strange, done, wanted)
<1>1. CASE buf' = got /\ UNCHANGED <<table, lost>>
  BY <1>1 DEF IdsOf, LostIds
<1>2. CASE buf' = <<>> /\ table' = table \o got /\ UNCHANGED lost
  <2>1. IdsOf(table') = IdsOf(table) \cup IdsOf(got) /\ IdsOf(buf') = {} /\ LostIds' = LostIds
    BY <1>2, IdsJoined, IdsOfNone DEF LostIds
  <2> QED BY <2>1 DEF Accounted
<1>3. CASE buf' = <<>> /\ UNCHANGED table /\ \E why \in {"row", "outage", "crash"} : GiveUp(got, why)
  <2>1. PICK why : GiveUp(got, why)
    BY <1>3
  <2>2. ASSUME NEW n PROVE n \in LostIds' <=> n \in LostIds \cup IdsOf(got)
    <3>1. lost' = lost \cup {[id |-> got[i].id, why |-> why] : i \in DOMAIN got}
      BY <2>1 DEF GiveUp
    <3>2. n \in LostIds' => n \in LostIds \cup IdsOf(got)
      BY <3>1 DEF LostIds, IdsOf
    <3>3. n \in LostIds => n \in LostIds'
      BY <3>1, Zenon DEF LostIds
    <3>4. ASSUME NEW i \in DOMAIN got PROVE got[i].id \in LostIds'
      <4>1. [id |-> got[i].id, why |-> why] \in lost'
        BY <3>1
      <4> QED BY <4>1 DEF LostIds
    <3> QED BY <3>2, <3>3, <3>4 DEF IdsOf
  <2>3. IdsOf(table') = IdsOf(table) /\ IdsOf(buf') = {} /\ LostIds' = LostIds \cup IdsOf(got)
    BY <1>3, <2>2, IdsOfNone
  <2> QED BY <2>3 DEF Accounted
<1> QED BY <1>1, <1>2, <1>3 DEF Settled

LEMMA AccountInvInit == Init => AccountInv
<1>1. Init => IdsOf(table) = {} /\ IdsOf(buf) = {} /\ LostIds = {} /\ unknown = {} /\ read = {}
  BY IdsOfNone DEF Init, LostIds
<1> QED BY <1>1, FollowInvInit DEF AccountInv, Accounted

LEMMA AccountInvNext == AccountInv /\ [Next]_vars => AccountInv'
<1> SUFFICES ASSUME AccountInv, [Next]_vars PROVE AccountInv'
  OBVIOUS
<1>1. FollowInv /\ FollowInv' /\ TypeInv /\ table \in Seq(Row)
  BY FollowInvNext DEF AccountInv, FollowInv, TypeInv, TypeOK
<1>2. PICK got \in Seq(Row) : InHand(got) /\ Settled(got)
  BY <1>1, StepOutcome
<1>3. /\ Accounted(IdsOf(table), IdsOf(got), LostIds, unknown', read', Translations)
      /\ read' \subseteq 1..Len(lines)
  BY <1>2, AccountInHand
<1>4. Accounted(IdsOf(table'), IdsOf(buf'), LostIds', unknown', read', Translations)
  BY <1>1, <1>2, <1>3, AccountSettled
<1>5. \A id \in 1..Len(lines) : id \in Translations' <=> id \in Translations
  <2>1. /\ Len(lines) \in Nat /\ Len(lines') \in Nat /\ Len(lines) <= Len(lines')
        /\ \A id \in 1..Len(lines) : lines'[id] = lines[id]
    BY <1>1, LinesStay
  <2>2. \A id \in 1..Len(lines) : id \in 1..Len(lines') /\ lines'[id] = lines[id]
    BY <2>1
  <2> QED BY <2>2 DEF Translations
<1>6. Accounted(IdsOf(table'), IdsOf(buf'), LostIds', unknown', read', Translations')
  <2> DEFINE handled == IdsOf(table') \cup IdsOf(buf') \cup LostIds'
  <2>1. \A id \in read' : id \in Translations' <=> id \in Translations
    BY <1>3, <1>5
  <2>2. handled \subseteq read' /\ handled \subseteq Translations
    BY <1>4 DEF Accounted
  <2>3. handled \subseteq Translations'
    BY <2>1, <2>2
  <2>4. read' \cap Translations' \subseteq read' \cap Translations
    BY <2>1
  <2> QED BY <1>4, <2>3, <2>4 DEF Accounted
<1> QED BY <1>1, <1>6 DEF AccountInv

LEMMA Accounting == Spec => []AccountInv
  BY AccountInvInit, AccountInvNext, PTL DEF Spec

(* No translation vanishes silently: a line that was read is in the table, in *)
(* the buffer, in a loss that is logged or happened in a crash, or counted as *)
(* of unknown source, and in one of them only, unless it is no translation.   *)
THEOREM NoLineVanishes == Spec => []EveryLineAccounted
<1>1. ASSUME AccountInv PROVE EveryLineAccounted
  <2> DEFINE fate == [stored |-> TableIds, buffered |-> BufIds, lost |-> LostIds, unknown |-> unknown]
             KeptIn(id) == {f \in DOMAIN fate : id \in fate[f]}
  <2>1. /\ Accounted(TableIds, BufIds, LostIds, unknown, read, Translations)
        /\ read \subseteq 1..Len(lines)
    BY <1>1 DEF AccountInv, FollowInv, Follows, TableIds, BufIds, IdsOf
  <2>2. /\ DOMAIN fate = {"stored", "buffered", "lost", "unknown"}
        /\ fate["stored"] = TableIds /\ fate["buffered"] = BufIds /\ fate["lost"] = LostIds
        /\ fate["unknown"] = unknown
    OBVIOUS
  <2> HIDE DEF fate
  <2>3. \A f : f \in DOMAIN fate => fate[f] \subseteq read
    BY <2>1, <2>2 DEF Accounted
  <2>4. ASSUME NEW id \in read
        PROVE  Cardinality(KeptIn(id)) = IF id \in unknown \/ lines[id].body # "other" THEN 1 ELSE 0
    <3>1. id \in Translations <=> lines[id].body # "other"
      BY <2>1 DEF Translations
    <3>2. CASE id \in TableIds
      <4>1. KeptIn(id) = {"stored"} /\ lines[id].body # "other"
        BY <2>1, <2>2, <3>1, <3>2 DEF Accounted
      <4> QED BY <4>1, FS_Singleton
    <3>3. CASE id \in BufIds
      <4>1. KeptIn(id) = {"buffered"} /\ lines[id].body # "other"
        BY <2>1, <2>2, <3>1, <3>3 DEF Accounted
      <4> QED BY <4>1, FS_Singleton
    <3>4. CASE id \in LostIds
      <4>1. KeptIn(id) = {"lost"} /\ lines[id].body # "other"
        BY <2>1, <2>2, <3>1, <3>4 DEF Accounted
      <4> QED BY <4>1, FS_Singleton
    <3>5. CASE id \in unknown
      <4>1. KeptIn(id) = {"unknown"}
        BY <2>1, <2>2, <3>5 DEF Accounted
      <4> QED BY <3>5, <4>1, FS_Singleton
    <3>6. CASE id \notin TableIds \cup BufIds \cup LostIds \cup unknown
      <4>1. KeptIn(id) = {} /\ id \notin Translations
        BY <2>1, <2>2, <3>6 DEF Accounted
      <4> QED BY <3>1, <3>6, <4>1, FS_EmptySet
    <3> QED BY <3>2, <3>3, <3>4, <3>5, <3>6
  <2> QED BY <2>3, <2>4 DEF EveryLineAccounted, fate
<1> QED BY <1>1, Accounting, PTL

-----------------------------------------------------------------------------
(* Attribution.                                                               *)

(* The NAS of each of these rows was registered for the source of its line.   *)
Known(rows, written, pairs) ==
  \A i \in DOMAIN rows : /\ rows[i].id \in 1..Len(written)
                         /\ <<written[rows[i].id].src, rows[i].nas>> \in pairs

(* The registry, and so each copy of it in the daemon's map, is on record.    *)
KnownInv ==
  /\ FollowInv
  /\ Registered(registry) \subseteq registered
  /\ \A s \in Sources : nasMap[s] # NoNas => <<s, nasMap[s]>> \in registered
  /\ Known(table, lines, registered) /\ Known(buf, lines, registered)

LEMMA RegistryOnRecord ==
  ASSUME KnownInv, [Next]_vars
  PROVE  registered \subseteq registered' /\ Registered(registry') \subseteq registered'
  BY DEF KnownInv, Next, Environment, Daemon, WriteLine, CopyTruncate, ChangeRegistry, DbGoes, DbReturns,
         StopSignal, Crash, Start, OpenCapture, ReadLine, QuietFlush, QuietNoFlush, CheckRotation,
         Shutdown, vars, env

LEMMA MapOnRecord ==
  ASSUME KnownInv, [Next]_vars, NEW s \in Sources, nasMap'[s] # NoNas
  PROVE  <<s, nasMap'[s]>> \in registered
<1>1. nasMap'[s] \in {NoNas, nasMap[s], registry[s]}
  <2>1. CASE Start
    BY <2>1 DEF Start, Refreshed
  <2>2. ASSUME NEW r \in RefreshIfDue, nasMap' = r.map PROVE nasMap'[s] \in {nasMap[s], registry[s]}
    BY <2>2 DEF RefreshIfDue, Refreshed
  <2>3. CASE QuietFlush \/ QuietNoFlush
    BY <2>2, <2>3 DEF QuietFlush, QuietNoFlush
  <2> QED
    BY <2>1, <2>3
       DEF Next, Environment, Daemon, WriteLine, CopyTruncate, ChangeRegistry, DbGoes, DbReturns,
           StopSignal, Crash, OpenCapture, ReadLine, CheckRotation, Shutdown, vars, daemon
<1>2. <<s, registry[s]>> \in registered
  BY DEF KnownInv, Registered
<1> QED BY <1>1, <1>2 DEF KnownInv

LEMMA KnownInHand ==
  ASSUME KnownInv, NEW got \in Seq(Row), InHand(got)
  PROVE  Known(got, lines, registered)
<1>1. /\ Known(buf, lines, registered) /\ TypeOK /\ buf \in Seq(Row)
      /\ DOMAIN buf = 1..Len(buf) /\ Len(buf) \in Nat
  BY LenProperties DEF KnownInv, FollowInv, TypeInv, TypeOK
<1>2. CASE got # buf
  <2>1. PICK id \in 1..Len(lines) : \E row \in Attributed(id) : got = Append(buf, row)
    BY <1>2 DEF InHand
  <2> PICK row \in Attributed(id) : got = Append(buf, row)
    BY <2>1
  <2>2. /\ row \in Row /\ row.id = id /\ <<lines[id].src, row.nas>> \in registered
    BY <1>1, AttributedTypes DEF KnownInv
  <2>3. /\ DOMAIN got = 1..(Len(buf) + 1) /\ got[Len(buf) + 1] = row
        /\ \A i \in 1..Len(buf) : got[i] = buf[i]
    BY <1>1, <2>2, Appended
  <2>4. \A i \in DOMAIN got : i = Len(buf) + 1 \/ i \in 1..Len(buf)
    BY <1>1, <2>3
  <2> QED BY <1>1, <2>2, <2>3, <2>4 DEF Known
<1> QED BY <1>1, <1>2

LEMMA KnownJoined ==
  ASSUME NEW s \in Seq(Row), NEW t \in Seq(Row), NEW written, NEW pairs,
         Known(s, written, pairs), Known(t, written, pairs)
  PROVE  Known(s \o t, written, pairs)
<1> SUFFICES ASSUME NEW i \in DOMAIN (s \o t)
             PROVE  /\ (s \o t)[i].id \in 1..Len(written)
                    /\ <<written[(s \o t)[i].id].src, (s \o t)[i].nas>> \in pairs
  BY DEF Known
<1>1. \/ i \in DOMAIN s /\ (s \o t)[i] = s[i]
      \/ \E k \in DOMAIN t : i = Len(s) + k /\ (s \o t)[i] = t[k]
  BY Joined
<1>2. CASE i \in DOMAIN s /\ (s \o t)[i] = s[i]
  BY <1>2 DEF Known
<1>3. ASSUME NEW k \in DOMAIN t, (s \o t)[i] = t[k]
      PROVE  /\ (s \o t)[i].id \in 1..Len(written)
             /\ <<written[(s \o t)[i].id].src, (s \o t)[i].nas>> \in pairs
  BY <1>3 DEF Known
<1> QED BY <1>1, <1>2, <1>3

LEMMA KnownSettled ==
  ASSUME NEW got \in Seq(Row), table \in Seq(Row), Settled(got),
         Known(table, lines, registered), Known(got, lines, registered)
  PROVE  Known(table', lines, registered) /\ Known(buf', lines, registered)
<1>1. CASE buf' = got /\ UNCHANGED <<table, lost>>
  BY <1>1
<1>2. Known(<<>>, lines, registered)
  BY DEF Known
<1>3. CASE buf' = <<>> /\ table' = table \o got
  <2>1. Known(table \o got, lines, registered)
    BY KnownJoined
  <2> QED BY <1>2, <1>3, <2>1
<1>4. CASE buf' = <<>> /\ UNCHANGED table
  BY <1>2, <1>4
<1> QED BY <1>1, <1>3, <1>4 DEF Settled

LEMMA KnownInvInit == Init => KnownInv
<1> SUFFICES ASSUME Init PROVE KnownInv
  OBVIOUS
<1>1. \A s \in Sources : nasMap[s] = NoNas
  BY DEF Init
<1>2. Registered(registry) \subseteq registered
  BY DEF Init
<1>3. Known(table, lines, registered) /\ Known(buf, lines, registered)
  BY DEF Init, Known
<1> QED BY <1>1, <1>2, <1>3, FollowInvInit DEF KnownInv

LEMMA KnownInvNext == KnownInv /\ [Next]_vars => KnownInv'
<1> SUFFICES ASSUME KnownInv, [Next]_vars PROVE KnownInv'
  OBVIOUS
<1>1. FollowInv /\ FollowInv' /\ TypeInv /\ table \in Seq(Row)
  BY FollowInvNext DEF KnownInv, FollowInv, TypeInv, TypeOK
<1>2. PICK got \in Seq(Row) : InHand(got) /\ Settled(got)
  BY <1>1, StepOutcome
<1>3. Known(table', lines, registered) /\ Known(buf', lines, registered)
  BY <1>1, <1>2, KnownInHand, KnownSettled DEF KnownInv
<1>4. \A id \in 1..Len(lines) : id \in 1..Len(lines') /\ lines'[id] = lines[id]
  <2>1. /\ Len(lines) \in Nat /\ Len(lines') \in Nat /\ Len(lines) <= Len(lines')
        /\ \A id \in 1..Len(lines) : lines'[id] = lines[id]
    BY <1>1, LinesStay
  <2> QED BY <2>1
<1>5. registered \subseteq registered' /\ Registered(registry') \subseteq registered'
  BY RegistryOnRecord
<1>6. Known(table', lines', registered') /\ Known(buf', lines', registered')
  BY <1>3, <1>4, <1>5 DEF Known
<1>7. \A s \in Sources : nasMap'[s] # NoNas => <<s, nasMap'[s]>> \in registered'
  BY <1>5, MapOnRecord
<1> QED BY <1>1, <1>5, <1>6, <1>7 DEF KnownInv, Registered, Known

LEMMA OnRecord == Spec => []KnownInv
  BY KnownInvInit, KnownInvNext, PTL DEF Spec

(* However stale the cached map of the daemon is, a line is never attributed  *)
(* to a NAS that was not at some time registered for the source it came from. *)
THEOREM RowsWereRegistered == Spec => []AttributionWasRegistered
<1>1. ASSUME KnownInv PROVE AttributionWasRegistered
  <2>1. table \in Seq(Row) /\ buf \in Seq(Row)
    BY <1>1 DEF KnownInv, FollowInv, TypeInv, TypeOK
  <2>2. Known(table \o buf, lines, registered)
    BY <1>1, <2>1, KnownJoined DEF KnownInv
  <2> QED BY <2>2 DEF AttributionWasRegistered, Known
<1> QED BY <1>1, OnRecord, PTL

-----------------------------------------------------------------------------
(* The daemon implements LineTransfer.                                        *)

LEMMA WaitingShrinks ==
  ASSUME FollowInv, [Next]_vars, NEW id \in 1..Len(lines), id \in Waiting'
  PROVE  id \in Waiting
<1>1. /\ base \in Nat /\ pos \in Nat /\ Len(lines) \in Nat /\ chunk \in Seq(1..MaxLines) /\ Len(chunk) \in Nat
      /\ base <= Len(lines) /\ id \in Nat /\ TypeInv
  BY IngestAssumption DEF FollowInv, TypeInv, TypeOK
<1>2. pc' \in {"read", "stat"} /\ Unread(id)'
  BY DEF Waiting
<1>3. CASE ReadLine
  <2>1. PICK c \in Chunks, n \in 1..Len(lines) : Taken(c, n)
    BY <1>1, <1>3, ReadLineStep
  <2>2. /\ pc = "read" /\ base' = base
        /\ \A i \in DOMAIN chunk' : chunk'[i] \in Waiting
        /\ base + pos' + Len(chunk') >= base + pos + Len(chunk)
    BY <1>3, <2>1, NextInLine DEF ReadLine
  <2>3. CASE id \in {chunk'[i] : i \in DOMAIN chunk'}
    BY <2>2, <2>3
  <2>4. CASE id > base' + pos' + Len(chunk')
    <3>1. pos' \in Nat /\ Len(chunk') \in Nat
      BY TypeInvNext, IngestAssumption DEF FollowInv, TypeInv, TypeOK
    <3>2. id > base + pos + Len(chunk)
      BY <1>1, <2>2, <2>4, <3>1
    <3> QED BY <1>1, <2>2, <3>2 DEF Waiting, Unread
  <2> QED BY <1>2, <2>3, <2>4 DEF Unread
<1>4. CASE OpenCapture
  <2>1. chunk' = <<>> /\ pos' = Len(lines) - base /\ base' = base /\ DOMAIN chunk' = {} /\ Len(chunk') = 0
    BY <1>1, <1>4 DEF OpenCapture, TypeInv, Tracks, FileSize, env
  <2>2. id \notin {chunk'[i] : i \in DOMAIN chunk'} /\ ~(id > base' + pos' + Len(chunk'))
    BY <1>1, <2>1
  <2> QED BY <1>2, <2>2 DEF Unread
<1>5. CASE CopyTruncate
  <2>1. base' = Len(lines) /\ UNCHANGED <<pos, chunk, pc>>
    BY <1>5 DEF CopyTruncate, daemon
  <2>2. Unread(id)
    BY <1>1, <1>2, <2>1 DEF Unread
  <2> QED BY <1>1, <1>2, <2>1, <2>2 DEF Waiting
<1>6. CASE UNCHANGED <<base, pos, chunk>> /\ pc \in {"read", "stat"}
  <2>1. Unread(id)
    BY <1>2, <1>6 DEF Unread
  <2> QED BY <1>1, <1>6, <2>1 DEF Waiting
<1> QED
  BY <1>2, <1>3, <1>4, <1>5, <1>6
     DEF Next, Environment, Daemon, WriteLine, ChangeRegistry, DbGoes, DbReturns, StopSignal, Crash, Start,
         QuietFlush, QuietNoFlush, CheckRotation, Shutdown, vars, env, daemon, history, Quiet

(* A step stores or buffers only what was buffered or waiting, and unstores   *)
(* nothing.                                                                   *)
LEMMA RowsMove ==
  ASSUME FollowInv, [Next]_vars
  PROVE  /\ TableIds \subseteq TableIds'
         /\ TableIds' \cup BufIds' \subseteq TableIds \cup BufIds \cup (Waiting \cap 1..Len(lines))
<1>1. TypeOK /\ table \in Seq(Row) /\ buf \in Seq(Row)
  BY DEF FollowInv, TypeInv, TypeOK
<1>2. PICK got \in Seq(Row) : InHand(got) /\ Settled(got)
  BY StepOutcome
<1>3. IdsOf(buf) \subseteq IdsOf(got) /\ IdsOf(got) \subseteq IdsOf(buf) \cup (Waiting \cap 1..Len(lines))
  <2>1. CASE got = buf
    BY <2>1
  <2>2. CASE got # buf
    <3>1. PICK id \in 1..Len(lines) : id \in Waiting /\ \E row \in Attributed(id) : got = Append(buf, row)
      BY <1>2, <2>2 DEF InHand
    <3> PICK row \in Attributed(id) : got = Append(buf, row)
      BY <3>1
    <3>2. row \in Row /\ row.id = id
      BY <1>1, AttributedTypes
    <3>3. IdsOf(got) = IdsOf(buf) \cup {id}
      BY <1>1, <3>2, IdsAppended
    <3> QED BY <3>1, <3>3
  <2> QED BY <2>1, <2>2
<1>4. \/ IdsOf(buf') = IdsOf(got) /\ IdsOf(table') = IdsOf(table)
      \/ IdsOf(buf') = {} /\ IdsOf(table') = IdsOf(table) \cup IdsOf(got)
      \/ IdsOf(buf') = {} /\ IdsOf(table') = IdsOf(table)
  BY <1>1, <1>2, IdsJoined, IdsOfNone DEF Settled
<1>5. /\ TableIds = IdsOf(table) /\ BufIds = IdsOf(buf)
      /\ TableIds' = IdsOf(table') /\ BufIds' = IdsOf(buf')
  BY DEF TableIds, BufIds, IdsOf
<1> QED BY <1>3, <1>4, <1>5

LEMMA FateStep ==
  ASSUME OrderInv, OrderInv', [Next]_vars
  PROVE  [Transfer!Next]_Fate
<1>1. /\ FollowInv /\ TypeInv /\ TableIds \subseteq 1..Len(lines) /\ TableIds' \subseteq 1..Len(lines)
      /\ BufIds' \subseteq 1..Len(lines)
      /\ Len(lines) \in Nat /\ Len(lines') \in Nat /\ Len(lines) <= Len(lines')
  <2>1. TableIds = IdsOf(table) /\ BufIds = IdsOf(buf)
    BY DEF TableIds, BufIds, IdsOf
  <2>2. TableIds \subseteq 1..Len(lines) /\ BufIds \subseteq 1..Len(lines)
    BY <2>1 DEF OrderInv, Ordered, FollowInv, Follows
  <2> QED BY <2>2, RowsMove, LinesStay DEF OrderInv, FollowInv
<1>2. Fate' \in [1..MaxLines -> Transfer!Fates]
  BY DEF Fate, Transfer!Fates
<1>3. ASSUME NEW id \in 1..MaxLines PROVE Fate'[id] \in Transfer!Moves[Fate[id]]
  <2>1. /\ Fate[id] = IF id > Len(lines) THEN "unwritten"
                      ELSE IF id \in TableIds THEN "stored"
                      ELSE IF id \in BufIds \/ id \in Waiting THEN "pending"
                      ELSE "gone"
        /\ Fate'[id] = IF id > Len(lines') THEN "unwritten"
                       ELSE IF id \in TableIds' THEN "stored"
                       ELSE IF id \in BufIds' \/ id \in Waiting' THEN "pending"
                       ELSE "gone"
    BY DEF Fate, Waiting
  <2>2. CASE id > Len(lines)
    <3>1. Fate[id] = "unwritten" /\ id \notin TableIds'
      BY <1>1, <2>1, <2>2
    <3>2. Fate'[id] \in {"unwritten", "pending", "gone"}
      BY <2>1, <3>1
    <3> QED BY <3>1, <3>2 DEF Transfer!Moves
  <2>3. CASE id \in 1..Len(lines)
    <3>1. ~(id > Len(lines)) /\ ~(id > Len(lines'))
      BY <1>1, <2>3
    <3>2. CASE id \in TableIds
      <4>1. Fate[id] = "stored" /\ Fate'[id] = "stored"
        BY <1>1, <2>1, <3>1, <3>2, RowsMove
      <4> QED BY <4>1 DEF Transfer!Moves
    <3>3. CASE id \notin TableIds /\ (id \in BufIds \/ id \in Waiting)
      <4>1. Fate[id] = "pending" /\ Fate'[id] \in {"stored", "pending", "gone"}
        BY <2>1, <3>1, <3>3
      <4> QED BY <4>1 DEF Transfer!Moves
    <3>4. CASE id \notin TableIds /\ id \notin BufIds /\ id \notin Waiting
      <4>1. id \notin TableIds' /\ id \notin BufIds' /\ id \notin Waiting'
        BY <1>1, <2>3, <3>4, RowsMove, WaitingShrinks
      <4>2. Fate[id] = "gone" /\ Fate'[id] = "gone"
        BY <2>1, <3>1, <3>4, <4>1
      <4> QED BY <4>2 DEF Transfer!Moves
    <3> QED BY <3>2, <3>3, <3>4
  <2> QED BY <1>1, <2>2, <2>3
<1> QED BY <1>2, <1>3 DEF Transfer!Next

(* The daemon implements LineTransfer: what is stored stays stored, and no    *)
(* line that is given up, by truncation, restart, a failed batch or because   *)
(* its source is unknown, is ever taken up again.                             *)
THEOREM DaemonImplementsTransfer == Spec => ImplementsTransfer
<1>1. Init => Transfer!Init
  <2> SUFFICES ASSUME Init PROVE Fate = [i \in 1..MaxLines |-> "unwritten"]
    BY DEF Transfer!Init
  <2>1. \A id \in 1..MaxLines : id > Len(lines)
    BY DEF Init
  <2> QED BY <2>1 DEF Fate
<1>2. OrderInv /\ OrderInv' /\ [Next]_vars => [Transfer!Next]_Fate
  BY FateStep
<1> QED BY <1>1, <1>2, InOrder, PTL DEF Spec, ImplementsTransfer, Transfer!Spec

-----------------------------------------------------------------------------
(* Lookups over the stored connections.                                        *)

Connection ==
  [sub : Subscribers, ip : Ips, port : Ports, dest : Dests, began : Nat, ended : Nat \cup {Null}]

StampType == [wall : Int, offset : Int \cup {Missing}]

LeaTypeOK == clock \in Nat /\ conns \in Seq(Connection) /\ stored \in 0..Len(conns)

LEMMA LeaTypeAlways == LeaSpec => []LeaTypeOK
<1>1. LeaInit => LeaTypeOK
  BY DEF LeaInit, LeaTypeOK
<1>2. LeaTypeOK /\ [LeaNext]_leaVars => LeaTypeOK'
  <2> SUFFICES ASSUME LeaTypeOK, [LeaNext]_leaVars PROVE LeaTypeOK'
    OBVIOUS
  <2>0. /\ clock \in Nat /\ conns \in Seq(Connection) /\ Len(conns) \in Nat /\ stored \in 0..Len(conns)
        /\ DOMAIN conns = 1..Len(conns)
    BY LenProperties DEF LeaTypeOK
  <2>1. CASE TimePasses
    BY <2>0, <2>1 DEF TimePasses, LeaTypeOK
  <2>2. ASSUME NEW s \in Subscribers, NEW ip \in Ips, NEW port \in Ports, NEW dest \in Dests, Open(s, ip, port, dest)
        PROVE  LeaTypeOK'
    <3>1. PICK c \in Connection : conns' = Append(conns, c)
      BY <2>0, <2>2 DEF Open, Connection
    <3>2. conns' \in Seq(Connection) /\ Len(conns') = Len(conns) + 1
      BY <2>0, <3>1
    <3> QED BY <2>0, <2>2, <3>2 DEF Open, LeaTypeOK
  <2>3. ASSUME NEW i \in DOMAIN conns, Close(i) PROVE LeaTypeOK'
    <3>1. conns[i] \in Connection
      BY <2>0, ElementOfSeq
    <3>2. PICK c : conns' = [conns EXCEPT ![i] = c] /\ c = [conns[i] EXCEPT !.ended = clock]
      BY <2>3 DEF Close
    <3>3. c \in Connection
      BY <2>0, <3>1, <3>2 DEF Connection
    <3>4. conns' \in Seq(Connection) /\ Len(conns') = Len(conns)
      BY <2>0, <3>2, <3>3, ExceptSeq
    <3> QED BY <2>0, <2>3, <3>4 DEF Close, LeaTypeOK
  <2>4. CASE Ingest
    BY <2>0, <2>4 DEF Ingest, LeaTypeOK
  <2>5. CASE UNCHANGED leaVars
    BY <2>0, <2>5 DEF leaVars, LeaTypeOK
  <2> QED BY <2>1, <2>2, <2>3, <2>4, <2>5 DEF LeaNext
<1> QED BY <1>1, <1>2, PTL DEF LeaSpec

(* A row's log_time is a time.                                                  *)
LEMMA LogTimeIsInt ==
  ASSUME LeaTypeOK, NEW i \in 1..Len(conns)
  PROVE  /\ conns[i] \in Connection /\ conns[i].began \in Nat /\ Zone(i) \in Int
         /\ LogTime(i) \in Int /\ LogTime(i) = conns[i].began + Zone(i)
         /\ \A t \in Int : Delta(i, t) \in Int
<1>1. conns[i] \in Connection
  BY LenProperties, ElementOfSeq DEF LeaTypeOK
<1>2. conns[i].began \in Nat /\ conns[i].sub \in Subscribers
  BY <1>1 DEF Connection
<1>3. Zone(i) \in Int
  BY <1>2, LeaAssumption DEF Zone
<1>4. LogTime(i) \in Int /\ LogTime(i) = conns[i].began + Zone(i)
  BY <1>2, <1>3 DEF LogTime
<1>5. \A t \in Int : Delta(i, t) \in Int
  BY <1>4 DEF Delta
<1> QED BY <1>1, <1>2, <1>3, <1>4, <1>5

LEMMA MomentIsInt ==
  ASSUME NEW form \in Forms, NEW s \in StampType PROVE Moment(form, s) \in Int
<1>1. FormZone[form] \in Int
  BY LeaAssumption DEF Forms, FormZone
<1>2. s.wall \in Int /\ (s.offset # Missing => s.offset \in Int)
  BY DEF StampType
<1> QED BY <1>1, <1>2 DEF Moment

(* A set of more than one is one with two different members.                    *)
LEMMA TwoMakeMore ==
  ASSUME NEW T, IsFiniteSet(T), NEW x \in T, NEW y \in T, x # y PROVE Cardinality(T) > 1
<1>1. Cardinality(T) \in Nat
  BY FS_CardinalityType
<1>2. Cardinality(T) # 0
  BY FS_EmptySet
<1>3. Cardinality(T) # 1
  BY FS_Singleton
<1> QED BY <1>1, <1>2, <1>3

LEMMA MoreAreTwo ==
  ASSUME NEW T, Cardinality(T) > 1 PROVE \E x, y \in T : x # y
<1> SUFFICES ASSUME \A x, y \in T : x = y PROVE FALSE
  OBVIOUS
<1>1. CASE T = {}
  <2>1. Cardinality(T) = 0
    BY <1>1, FS_EmptySet
  <2> QED BY <2>1
<1>2. CASE T # {}
  <2>1. PICK x : T = {x}
    BY <1>2
  <2>2. Cardinality(T) = 1
    BY <2>1, FS_Singleton
  <2> QED BY <2>2
<1> QED BY <1>1, <1>2

(* Candidates are finite in number.                                             *)
LEMMA CandidatesAreFinite ==
  ASSUME LeaTypeOK, NEW q PROVE IsFiniteSet(Distinct(InWindow(q)))
<1>1. IsFiniteSet(1..stored)
  BY FS_Interval DEF LeaTypeOK
<1>2. InWindow(q) \subseteq 1..stored
  BY DEF InWindow, Of
<1>3. IsFiniteSet(InWindow(q))
  BY <1>1, <1>2, FS_Subset
<1> DEFINE S == InWindow(q)
           f == [i \in S |-> Name(i)]
<1>4. f \in Surjection(S, Distinct(S))
  BY DEF Distinct, Surjection
<1> QED BY <1>3, <1>4, FS_Surjection DEF ExistsSurjection

(* A short list is made from rows L of S.                                        *)
MadeFrom(short, L, S, t) ==
  /\ short.names = {Name(j) : j \in L}
  /\ ~short.cut => L = S
  /\ short.reuse => Cardinality({Key(j) : j \in L}) > 1
  /\ \E x \in L : short.delta = Delta(x, t) /\ \A j \in S : Delta(x, t) <= Delta(j, t)

LEMMA ShortListSays ==
  ASSUME NEW S, NEW C, NEW t, NEW limit, NEW short \in ListResults(S, C, t, limit)
  PROVE  \/ S = {} /\ short = NotFound
         \/ /\ S # {} /\ short.found = TRUE
            /\ \E L \in SUBSET S : MadeFrom(short, L, S, t)
<1>1. CASE S = {}
  BY <1>1 DEF ListResults
<1>2. CASE S # {}
  <2>1. PICK L \in ShortLists(S, t, limit) :
          \E i \in {x \in L : \A j \in L : Delta(x, t) <= Delta(j, t)} :
            short = [found |-> TRUE, first |-> Name(i), delta |-> Delta(i, t), names |-> {Name(j) : j \in L},
                     confirmed |-> {Name(j) : j \in L \cap C},
                     reuse |-> Cardinality({Key(j) : j \in L}) > 1, cut |-> L # S]
    BY <1>2 DEF ListResults
  <2>2. L \in SUBSET S /\ \A i \in L, j \in S \ L : Delta(i, t) <= Delta(j, t)
    BY DEF ShortLists
  <2>3. short.names = {Name(j) : j \in L} /\ short.found = TRUE
    BY <2>1
  <2>4. ~short.cut => L = S
    <3>1. PICK c : c = short.cut
      OBVIOUS
    <3>2. short.cut = (L # S)
      BY <2>1
    <3>3. ~c => L = S
      BY <3>1, <3>2
    <3> QED BY <3>1, <3>3
  <2>5. short.reuse => Cardinality({Key(j) : j \in L}) > 1
    <3>1. PICK c : c = short.reuse
      OBVIOUS
    <3>2. short.reuse = (Cardinality({Key(j) : j \in L}) > 1)
      BY <2>1
    <3>3. c => Cardinality({Key(j) : j \in L}) > 1
      BY <3>1, <3>2
    <3> QED BY <3>1, <3>3
  <2>6. \E x \in L : short.delta = Delta(x, t) /\ \A j \in S : Delta(x, t) <= Delta(j, t)
    <3>1. PICK x \in L : short.delta = Delta(x, t) /\ \A j \in L : Delta(x, t) <= Delta(j, t)
      BY <2>1
    <3> QED BY <2>2, <3>1
  <2>7. MadeFrom(short, L, S, t)
    BY <2>3, <2>4, <2>5, <2>6 DEF MadeFrom
  <2> QED BY <1>2, <2>2, <2>3, <2>7
<1> QED BY <1>1, <1>2

(* However an officer asks, short list, tuple, command or full lookup, if all take *)
(* his time for the same moment the answers agree: the first row is as close to    *)
(* it, the short ones name nobody else, everybody unless they are cut, and flag no *)
(* reuse of their own (mikrotik_lea.lookup, lea_resolve and the queries of app.py  *)
(* over the same rows).                                                            *)
THEOREM FormsOfLookupAgree == LeaSpec => []FormsAgree
<1>1. LeaTypeOK => FormsAgree
  <2> SUFFICES ASSUME LeaTypeOK, NEW form \in {"tuple", "paste", "resolve"}, NEW ip \in Ips, NEW port \in Ports,
                      NEW s \in Stamps, Alike(form, s),
                      NEW full \in Results("page", Question(ip, port, Null, Null, Moment("page", s), Window)),
                      NEW short \in Results(form, Question(ip, port, Null, Null, Moment(form, s), Window))
               PROVE  /\ short.found = full.found
                      /\ short.delta = full.delta
                      /\ short.names \subseteq full.names
                      /\ ~short.cut => short.names = full.names
                      /\ short.reuse => full.reuse
    BY DEF FormsAgree
  <2>1. s \in StampType
    BY LeaAssumption DEF StampType
  <2>2. Moment(form, s) = Moment("page", s)
    BY DEF Alike, Moment, FormZone
  <2>3. PICK q : q = Question(ip, port, Null, Null, Moment("page", s), Window)
    OBVIOUS
  <2>4. q.dip = Null /\ q.dport = Null /\ q.t \in Int
    BY <2>1, <2>3, MomentIsInt DEF Question, Forms
  <2>5. full \in Results("page", q) /\ short \in Results(form, q)
    BY <2>2, <2>3
  <2> DEFINE S == InWindow(q)
  <2>6. PICK limit, C : short \in ListResults(S, C, q.t, limit)
    <3>1. ToDest(q) = S
      BY <2>4 DEF ToDest
    <3>2. CASE form = "tuple"
      <4>1. short \in ListResults(S, TupleConfirms(q), q.t, TupleLimit)
        BY <2>5, <3>1, <3>2 DEF Results
      <4> QED BY <4>1
    <3>3. CASE form \in {"paste", "resolve"}
      <4>1. short \in ListResults(S, ListConfirms(q), q.t, ListLimit)
        BY <2>5, <3>3 DEF Results
      <4> QED BY <4>1
    <3> QED BY <3>2, <3>3
  <2>7. full \in LookupResults(q)
    BY <2>5 DEF Results
  <2>8. CASE S = {}
    <3>1. short = NotFound /\ full = NotFound
      BY <2>6, <2>7, <2>8, ShortListSays DEF LookupResults
    <3> QED BY <3>1 DEF NotFound
  <2>9. CASE S # {}
    <3>1. PICK i \in S : /\ full = [found |-> TRUE, first |-> Name(i), delta |-> Delta(i, q.t), names |-> Distinct(S),
                                    confirmed |-> {}, reuse |-> Cardinality(Distinct(S)) > 1, cut |-> FALSE]
                         /\ \A j \in S : Delta(i, q.t) < Delta(j, q.t) \/ Delta(i, q.t) = Delta(j, q.t)
      BY <2>7, <2>9 DEF LookupResults
    <3>2. full.found = TRUE /\ full.names = Distinct(S) /\ full.delta = Delta(i, q.t)
      BY <3>1
    <3>3. Cardinality(Distinct(S)) > 1 => full.reuse
      BY <3>1
    <3>4. short.found = TRUE
      BY <2>6, <2>9, ShortListSays
    <3>5. PICK L \in SUBSET S : MadeFrom(short, L, S, q.t)
      BY <2>6, <2>9, ShortListSays
    <3>6. short.names \subseteq full.names /\ (~short.cut => short.names = full.names)
      BY <3>2, <3>5 DEF Distinct, MadeFrom
    <3>7. short.delta = full.delta
      <4>1. PICK x \in S : short.delta = Delta(x, q.t) /\ \A j \in S : Delta(x, q.t) <= Delta(j, q.t)
        BY <3>5 DEF MadeFrom
      <4>2. S \subseteq 1..Len(conns)
        BY DEF InWindow, Of, LeaTypeOK
      <4>3. Delta(x, q.t) \in Int /\ Delta(i, q.t) \in Int
        BY <2>4, <4>2, LogTimeIsInt
      <4>4. Delta(x, q.t) <= Delta(i, q.t) /\ (Delta(i, q.t) < Delta(x, q.t) \/ Delta(i, q.t) = Delta(x, q.t))
        BY <3>1, <4>1
      <4>5. Delta(x, q.t) = Delta(i, q.t)
        BY <4>3, <4>4
      <4> QED BY <3>2, <4>1, <4>5
    <3>8. ASSUME short.reuse PROVE full.reuse
      <4>1. PICK x \in {Key(j) : j \in L}, y \in {Key(j) : j \in L} : x # y
        <5>1. Cardinality({Key(j) : j \in L}) > 1
          BY <3>5, <3>8 DEF MadeFrom
        <5> QED BY <5>1, MoreAreTwo
      <4>2. PICK j \in L, k \in L : Key(j) # Key(k)
        BY <4>1
      <4>3. Name(j) # Name(k) /\ Name(j) \in Distinct(S) /\ Name(k) \in Distinct(S)
        BY <4>2 DEF Name, Distinct
      <4>4. Cardinality(Distinct(S)) > 1
        BY <4>3, CandidatesAreFinite, TwoMakeMore
      <4> QED BY <3>3, <4>4
    <3>9. short.found = full.found
      BY <3>2, <3>4
    <3> QED BY <3>6, <3>7, <3>8, <3>9
  <2> QED BY <2>8, <2>9
<1> QED BY <1>1, LeaTypeAlways, PTL

(* A step that leaves the rows of S as they were for every lookup: a connection   *)
(* that ends changes none of the columns a lookup reads.                          *)
SameRows(S) ==
  \A i \in S : /\ conns[i]'.sub = conns[i].sub /\ conns[i]'.began = conns[i].began
               /\ conns[i]'.dest = conns[i].dest

LEMMA SameNames ==
  ASSUME NEW S, SameRows(S), NEW i \in S
  PROVE  /\ Key(i)' = Key(i) /\ Name(i)' = Name(i) /\ LogTime(i)' = LogTime(i)
         /\ \A t : Delta(i, t)' = Delta(i, t)
BY DEF SameRows, Key, Name, Zone, LogTime, Delta

LEMMA SameDistinct ==
  ASSUME NEW S, SameRows(S) PROVE Distinct(S)' = Distinct(S)
<1>1. \A i \in S : Name(i)' = Name(i)
  BY SameNames
<1> QED BY <1>1 DEF Distinct

(* What the full lookup says of the rows S.                                       *)
Precedes(i, j, q) ==
  \/ Delta(i, q.t) < Delta(j, q.t)
  \/ Delta(i, q.t) = Delta(j, q.t) /\ LogTime(i) <= LogTime(j)

Firsts(S, q) == {x \in S : \A j \in S : Precedes(x, j, q)}

FullAnswers(S, q) ==
  IF S = {} THEN {NotFound}
  ELSE {[found |-> TRUE, first |-> Name(i), delta |-> Delta(i, q.t), names |-> Distinct(S),
         confirmed |-> {}, reuse |-> Cardinality(Distinct(S)) > 1, cut |-> FALSE] : i \in Firsts(S, q)}

LEMMA LookupIsFull ==
  ASSUME NEW q PROVE LookupResults(q) = FullAnswers(InWindow(q), q)
BY DEF LookupResults, FullAnswers, Firsts, Precedes

LEMMA SameFull ==
  ASSUME NEW S, NEW q, SameRows(S) PROVE FullAnswers(S, q)' = FullAnswers(S, q)
<1>1. PICK D : D = Distinct(S) /\ D = Distinct(S)'
  BY SameDistinct
<1>2. Firsts(S, q)' = Firsts(S, q)
  <2>1. ASSUME NEW i \in S, NEW j \in S PROVE Precedes(i, j, q)' <=> Precedes(i, j, q)
    <3>1. Delta(i, q.t)' = Delta(i, q.t) /\ Delta(j, q.t)' = Delta(j, q.t)
      BY SameNames
    <3>2. LogTime(i)' = LogTime(i) /\ LogTime(j)' = LogTime(j)
      BY SameNames
    <3> QED BY <3>1, <3>2 DEF Precedes
  <2> QED BY <2>1 DEF Firsts
<1>3. PICK F : F = Firsts(S, q) /\ F = Firsts(S, q)'
  BY <1>2
<1>4. F \subseteq S
  BY <1>3 DEF Firsts
<1>5. \A i \in F : Name(i)' = Name(i) /\ Delta(i, q.t)' = Delta(i, q.t)
  BY <1>4, SameNames
<1> QED BY <1>1, <1>3, <1>5 DEF FullAnswers, NotFound

(* What a list of the rows L, taken from the rows S, says.                        *)
Nearest(L, t) == {x \in L : \A j \in L : Delta(x, t) <= Delta(j, t)}

ListAnswers(L, S, C, t) ==
  {[found |-> TRUE, first |-> Name(i), delta |-> Delta(i, t), names |-> Distinct(L),
    confirmed |-> Distinct(L \cap C), reuse |-> Cardinality({Key(j) : j \in L}) > 1, cut |-> L # S]
     : i \in Nearest(L, t)}

LEMMA ListIsUnion ==
  ASSUME NEW S, NEW C, NEW t, NEW limit
  PROVE  ListResults(S, C, t, limit) =
           IF S = {} THEN {NotFound} ELSE UNION {ListAnswers(L, S, C, t) : L \in ShortLists(S, t, limit)}
BY DEF ListResults, ListAnswers, Nearest, Distinct

LEMMA SameListAnswers ==
  ASSUME NEW S, NEW C, NEW t, SameRows(S), NEW L \in SUBSET S
  PROVE  ListAnswers(L, S, C, t)' = ListAnswers(L, S, C, t)
<1>1. \A i \in L : Key(i)' = Key(i) /\ Name(i)' = Name(i) /\ Delta(i, t)' = Delta(i, t)
  BY SameNames
<1>2. SameRows(L) /\ SameRows(L \cap C)
  BY DEF SameRows
<1>3. PICK D : D = Distinct(L) /\ D = Distinct(L)'
  BY <1>2, SameDistinct
<1>4. Nearest(L, t)' = Nearest(L, t)
  BY <1>1 DEF Nearest
<1>5. Distinct(L \cap C)' = Distinct(L \cap C)
  BY <1>2, SameDistinct
<1>6. {Key(j) : j \in L}' = {Key(j) : j \in L}
  BY <1>1
<1>7. PICK N, E, K : /\ N = Nearest(L, t) /\ N = Nearest(L, t)'
                     /\ E = Distinct(L \cap C) /\ E = Distinct(L \cap C)'
                     /\ K = {Key(j) : j \in L} /\ K = {Key(j) : j \in L}'
  BY <1>4, <1>5, <1>6
<1>8. \A i \in N : Name(i)' = Name(i) /\ Delta(i, t)' = Delta(i, t)
  BY <1>1, <1>7 DEF Nearest
<1> QED BY <1>3, <1>7, <1>8 DEF ListAnswers

LEMMA SameList ==
  ASSUME NEW S, NEW C, NEW t, NEW limit, SameRows(S)
  PROVE  ListResults(S, C, t, limit)' = ListResults(S, C, t, limit)
<1>1. ShortLists(S, t, limit)' = ShortLists(S, t, limit)
  <2>1. \A i \in S : Delta(i, t)' = Delta(i, t)
    BY SameNames
  <2> QED BY <2>1 DEF ShortLists
<1>2. PICK X : X = ShortLists(S, t, limit) /\ X = ShortLists(S, t, limit)'
  BY <1>1
<1>3. \A L \in X : ListAnswers(L, S, C, t)' = ListAnswers(L, S, C, t)
  BY <1>2, SameListAnswers DEF ShortLists
<1>4. UNION {ListAnswers(L, S, C, t)' : L \in X} = UNION {ListAnswers(L, S, C, t) : L \in X}
  BY <1>3
<1>5. ListResults(S, C, t, limit) = IF S = {} THEN {NotFound} ELSE UNION {ListAnswers(L, S, C, t) : L \in X}
  BY <1>2, ListIsUnion
<1>6. ListResults(S, C, t, limit)' = IF S = {} THEN {NotFound} ELSE UNION {ListAnswers(L, S, C, t)' : L \in X}
  <2>1. ListResults(S, C, t, limit)' =
          IF S = {} THEN {NotFound} ELSE UNION {ListAnswers(L, S, C, t)' : L \in ShortLists(S, t, limit)'}
    BY DEF ListResults, ListAnswers, Nearest, Distinct, NotFound
  <2> QED BY <1>2, <2>1
<1> QED BY <1>4, <1>5, <1>6

(* Once a window is settled, no step adds a row to it or takes one away: what is   *)
(* still to be ingested was logged after it.                                       *)
LEMMA SettledRowsStand ==
  ASSUME LeaTypeOK, [LeaNext]_leaVars, NEW q, q.t \in Int, q.w \in Int, WindowSettled(q.t, q.w)
  PROVE  InWindow(q)' = InWindow(q) /\ SameRows(InWindow(q))
<1>0. /\ clock \in Nat /\ conns \in Seq(Connection) /\ Len(conns) \in Nat /\ stored \in 0..Len(conns)
      /\ DOMAIN conns = 1..Len(conns)
  BY LenProperties DEF LeaTypeOK
<1>1. /\ stored' \in stored..Len(conns)
      /\ \A i \in 1..Len(conns) : /\ conns'[i].sub = conns[i].sub /\ conns'[i].ip = conns[i].ip
                                  /\ conns'[i].port = conns[i].port /\ conns'[i].dest = conns[i].dest
                                  /\ conns'[i].began = conns[i].began
  <2>1. CASE TimePasses
    BY <1>0, <2>1 DEF TimePasses
  <2>2. ASSUME NEW s \in Subscribers, NEW ip \in Ips, NEW port \in Ports, NEW dest \in Dests, Open(s, ip, port, dest)
        PROVE  stored' = stored /\ \A i \in 1..Len(conns) : conns'[i] = conns[i]
    <3>1. PICK c : conns' = Append(conns, c) /\ stored' = stored
      BY <2>2 DEF Open
    <3> QED BY <1>0, <3>1
  <2>3. ASSUME NEW k \in DOMAIN conns, Close(k)
        PROVE  /\ stored' = stored
               /\ \A i \in 1..Len(conns) : /\ conns'[i].sub = conns[i].sub /\ conns'[i].ip = conns[i].ip
                                           /\ conns'[i].port = conns[i].port /\ conns'[i].dest = conns[i].dest
                                           /\ conns'[i].began = conns[i].began
    <3>1. conns[k] \in Connection
      BY <1>0, ElementOfSeq
    <3>2. PICK c : conns' = [conns EXCEPT ![k] = c] /\ c = [conns[k] EXCEPT !.ended = clock] /\ stored' = stored
      BY <2>3 DEF Close
    <3>3. /\ c.sub = conns[k].sub /\ c.ip = conns[k].ip /\ c.port = conns[k].port
          /\ c.dest = conns[k].dest /\ c.began = conns[k].began
      BY <3>1, <3>2 DEF Connection
    <3> QED BY <1>0, <3>2, <3>3
  <2>4. CASE Ingest
    BY <1>0, <2>4 DEF Ingest
  <2>5. CASE UNCHANGED leaVars
    BY <1>0, <2>5 DEF leaVars
  <2> QED BY <1>0, <2>1, <2>2, <2>3, <2>4, <2>5 DEF LeaNext
<1>2. SameRows(InWindow(q))
  BY <1>0, <1>1 DEF SameRows, InWindow, Of
<1>3. ASSUME NEW i \in 1..stored' PROVE i \in InWindow(q)' <=> i \in InWindow(q)
  <2>1. i \in 1..Len(conns)
    BY <1>0, <1>1
  <2>2. CASE i \in 1..stored
    BY <1>1, <2>1, <2>2 DEF InWindow, Of, Within, LogTime, Zone
  <2>3. CASE i \notin 1..stored
    <3>1. i \in stored + 1..Len(conns) /\ i \notin InWindow(q)
      BY <1>0, <2>1, <2>3 DEF InWindow, Of
    <3>2. LogTime(i) > q.t + q.w /\ LogTime(i) \in Int
      BY <2>1, <3>1, LogTimeIsInt DEF WindowSettled
    <3>3. LogTime(i)' = LogTime(i)
      BY <1>1, <2>1 DEF LogTime, Zone
    <3>4. ~(LogTime(i)' <= q.t + q.w)
      BY <3>2, <3>3
    <3>5. i \notin InWindow(q)'
      BY <3>4 DEF InWindow, Within
    <3> QED BY <3>1, <3>5
  <2> QED BY <2>2, <2>3
<1>4. InWindow(q) \subseteq 1..stored' /\ InWindow(q)' \subseteq 1..stored'
  BY <1>0, <1>1 DEF InWindow, Of
<1> QED BY <1>2, <1>3, <1>4

(* A settled window stays settled: the rows still to come are logged after it.     *)
LEMMA SettledStays ==
  ASSUME LeaTypeOK, [LeaNext]_leaVars, NEW t \in Int, NEW w \in Int, WindowSettled(t, w)
  PROVE  WindowSettled(t, w)'
<1>0. /\ clock \in Nat /\ conns \in Seq(Connection) /\ Len(conns) \in Nat /\ stored \in 0..Len(conns)
      /\ DOMAIN conns = 1..Len(conns)
  BY LenProperties DEF LeaTypeOK
<1>1. /\ \A s \in Subscribers : ZoneOf[NasOf[s]] \in Int /\ clock + ZoneOf[NasOf[s]] > t + w
      /\ \A i \in stored + 1..Len(conns) : LogTime(i) > t + w
  BY LeaAssumption DEF WindowSettled
<1>2. CASE TimePasses
  <2>1. \A s \in Subscribers : clock + 1 + ZoneOf[NasOf[s]] > t + w
    BY <1>0, <1>1
  <2>2. clock' = clock + 1 /\ conns' = conns /\ stored' = stored
    BY <1>2 DEF TimePasses
  <2> QED BY <1>1, <2>1, <2>2 DEF WindowSettled, LogTime, Zone
<1>3. ASSUME NEW s \in Subscribers, NEW ip \in Ips, NEW port \in Ports, NEW dest \in Dests, Open(s, ip, port, dest)
      PROVE  WindowSettled(t, w)'
  <2>1. PICK c : conns' = Append(conns, c) /\ c.sub = s /\ c.began = clock /\ stored' = stored /\ clock' = clock
    BY <1>3 DEF Open
  <2>2. /\ Len(conns') = Len(conns) + 1 /\ conns'[Len(conns) + 1] = c
        /\ \A i \in 1..Len(conns) : conns'[i] = conns[i]
    BY <1>0, <2>1
  <2>3. ASSUME NEW i \in stored + 1..Len(conns') PROVE LogTime(i)' > t + w
    <3>1. CASE i = Len(conns) + 1
      <4>1. LogTime(i)' = clock + ZoneOf[NasOf[s]]
        BY <2>1, <2>2, <3>1 DEF LogTime, Zone
      <4> QED BY <1>1, <4>1
    <3>2. CASE i # Len(conns) + 1
      <4>1. i \in stored + 1..Len(conns) /\ i \in 1..Len(conns)
        BY <1>0, <2>2, <3>2
      <4>2. LogTime(i)' = LogTime(i)
        BY <2>2, <4>1 DEF LogTime, Zone
      <4> QED BY <1>1, <4>1, <4>2
    <3> QED BY <3>1, <3>2
  <2> QED BY <1>1, <2>1, <2>3 DEF WindowSettled
<1>4. ASSUME NEW k \in DOMAIN conns, Close(k) PROVE WindowSettled(t, w)'
  <2>1. conns[k] \in Connection
    BY <1>0, ElementOfSeq
  <2>2. PICK c : /\ conns' = [conns EXCEPT ![k] = c] /\ c = [conns[k] EXCEPT !.ended = clock]
                 /\ stored' = stored /\ clock' = clock
    BY <1>4 DEF Close
  <2>3. c.sub = conns[k].sub /\ c.began = conns[k].began
    BY <2>1, <2>2 DEF Connection
  <2>4. ASSUME NEW i \in stored + 1..Len(conns') PROVE LogTime(i)' = LogTime(i) /\ i \in stored + 1..Len(conns)
    <3>1. i \in stored + 1..Len(conns) /\ i \in 1..Len(conns)
      BY <1>0, <2>2
    <3>2. conns'[i].sub = conns[i].sub /\ conns'[i].began = conns[i].began
      BY <1>0, <2>2, <2>3, <3>1
    <3> QED BY <3>1, <3>2 DEF LogTime, Zone
  <2> QED BY <1>1, <2>2, <2>4 DEF WindowSettled
<1>5. CASE Ingest
  <2>1. stored' \in stored + 1..Len(conns) /\ conns' = conns /\ clock' = clock
    BY <1>5 DEF Ingest
  <2>2. PICK m, n : m = stored' /\ n = stored
    OBVIOUS
  <2>5. m \in Nat /\ n \in Nat /\ n < m /\ Len(conns) \in Nat
    BY <1>0, <2>1, <2>2
  <2>6. \A i \in m + 1..Len(conns) : i \in n + 1..Len(conns)
    BY <2>5
  <2>3. \A i : LogTime(i)' = LogTime(i)
    BY <2>1 DEF LogTime, Zone
  <2>4. \A i \in stored' + 1..Len(conns') : LogTime(i)' > t + w
    BY <1>1, <2>1, <2>2, <2>3, <2>6 DEF WindowSettled
  <2> QED BY <1>1, <2>1, <2>4 DEF WindowSettled
<1>6. CASE UNCHANGED leaVars
  BY <1>1, <1>6 DEF leaVars, WindowSettled, LogTime, Zone
<1> QED BY <1>2, <1>3, <1>4, <1>5, <1>6 DEF LeaNext

(* No answer to a question changes if the rows of its window stand.                *)
LEMMA SameResults ==
  ASSUME LeaTypeOK, [LeaNext]_leaVars, NEW form \in Forms, NEW q, q.t \in Int, q.w \in Int,
         WindowSettled(q.t, q.w)
  PROVE  Results(form, q)' = Results(form, q)
<1>1. PICK S : S = InWindow(q) /\ S = InWindow(q)'
  BY SettledRowsStand
<1>2. SameRows(S)
  <2>1. SameRows(InWindow(q))
    BY SettledRowsStand
  <2> QED BY <1>1, <2>1 DEF SameRows
<1>3. CASE form \in {"page", "api"}
  <2>1. LookupResults(q) = FullAnswers(S, q)
    BY <1>1, LookupIsFull
  <2>2. LookupResults(q)' = FullAnswers(S, q)'
    BY <1>1 DEF LookupResults, FullAnswers, Firsts, Precedes
  <2>3. LookupResults(q)' = LookupResults(q)
    BY <1>2, <2>1, <2>2, SameFull
  <2> QED BY <1>3, <2>3 DEF Results
<1>4. CASE form \in {"paste", "resolve"}
  <2>1. PICK C : C = ListConfirms(q) /\ C = ListConfirms(q)'
    BY <1>1, <1>2 DEF ListConfirms, SameRows
  <2>2. ListResults(InWindow(q), ListConfirms(q), q.t, ListLimit)' = ListResults(S, C, q.t, ListLimit)'
    BY <1>1, <2>1
  <2>3. ListResults(InWindow(q), ListConfirms(q), q.t, ListLimit)' =
          ListResults(InWindow(q), ListConfirms(q), q.t, ListLimit)
    BY <1>1, <1>2, <2>1, <2>2, SameList
  <2> QED BY <1>4, <2>3 DEF Results
<1>5. CASE form = "tuple"
  <2>1. ToDest(q)' = ToDest(q) /\ ToDest(q) \subseteq S
    BY <1>1, <1>2 DEF ToDest, SameRows
  <2>2. PICK T : T = ToDest(q) /\ T = ToDest(q)' /\ T \subseteq S
    BY <2>1
  <2>3. PICK C : C = TupleConfirms(q) /\ C = TupleConfirms(q)'
    BY <2>2 DEF TupleConfirms
  <2>4. SameRows(T)
    BY <1>2, <2>2 DEF SameRows
  <2>5. ListResults(ToDest(q), TupleConfirms(q), q.t, TupleLimit)' = ListResults(T, C, q.t, TupleLimit)'
    BY <2>2, <2>3
  <2>6. ListResults(ToDest(q), TupleConfirms(q), q.t, TupleLimit)' =
          ListResults(ToDest(q), TupleConfirms(q), q.t, TupleLimit)
    BY <2>2, <2>3, <2>4, <2>5, SameList
  <2> QED BY <1>5, <2>6 DEF Results
<1> QED BY <1>3, <1>4, <1>5 DEF Forms

(* Whoever asks once the whole window is in the table is told the same from then   *)
(* on: connections that end, begin and are ingested later change no lookup's       *)
(* answer, as long as the rows are kept.                                           *)
THEOREM AnswersStand == LeaSpec => SettledAnswersStand
<1>1. LeaTypeOK /\ [LeaNext]_leaVars =>
        [\A t \in Moments, w \in Asked \cup {Window} :
           WindowSettled(t, w) =>
             /\ WindowSettled(t, w)'
             /\ \A form \in {"page", "tuple", "paste"}, ip \in Ips, port \in Ports,
                   dip \in DestIps \cup {Null}, dport \in DestPorts \cup {Null} :
                  LET q == Question(ip, port, dip, dport, t, w)
                  IN  Results(form, q)' = Results(form, q)]_leaVars
  <2> SUFFICES ASSUME LeaTypeOK, [LeaNext]_leaVars,
                      NEW t \in Moments, NEW w \in Asked \cup {Window}, WindowSettled(t, w)
               PROVE  /\ WindowSettled(t, w)'
                      /\ \A form \in {"page", "tuple", "paste"}, ip \in Ips, port \in Ports,
                            dip \in DestIps \cup {Null}, dport \in DestPorts \cup {Null} :
                           LET q == Question(ip, port, dip, dport, t, w)
                           IN  Results(form, q)' = Results(form, q)
    OBVIOUS
  <2>1. Asked \subseteq Int /\ Window \in Int /\ Stamps \subseteq StampType
    BY LeaAssumption DEF StampType
  <2>2. w \in Int /\ t \in Int
    BY <2>1, MomentIsInt DEF Moments
  <2>3. WindowSettled(t, w)'
    BY <2>2, SettledStays
  <2>4. ASSUME NEW form \in {"page", "tuple", "paste"}, NEW ip \in Ips, NEW port \in Ports,
               NEW dip \in DestIps \cup {Null}, NEW dport \in DestPorts \cup {Null}
        PROVE  Results(form, Question(ip, port, dip, dport, t, w))' =
                 Results(form, Question(ip, port, dip, dport, t, w))
    <3>1. PICK q : q = Question(ip, port, dip, dport, t, w)
      OBVIOUS
    <3>2. q.t \in Int /\ q.w \in Int /\ WindowSettled(q.t, q.w)
      BY <2>2, <3>1 DEF Question
    <3>3. Results(form, q)' = Results(form, q)
      BY <3>2, SameResults DEF Forms
    <3> QED BY <3>1, <3>3
  <2> QED BY <2>3, <2>4
<1> QED BY <1>1, LeaTypeAlways, PTL DEF LeaSpec, SettledAnswersStand

(* A connection that held the address and port at the time asked about is among   *)
(* the rows of the window, if the form takes log_time to be in the zone of his NAS. *)
LEMMA HeldIsInWindow ==
  ASSUME LeaTypeOK, NEW form \in Forms, NEW s \in StampType, NEW q, q.t = Moment(form, s), q.w \in Int,
         NEW i \in 1..stored, Held(i, q.ip, q.port, s), Instant(s, i) - q.w <= conns[i].began, ZoneFits(form, s, i)
  PROVE  i \in InWindow(q)
<1>1. i \in 1..Len(conns)
  BY DEF LeaTypeOK
<1>2. conns[i].began \in Nat /\ Zone(i) \in Int /\ LogTime(i) = conns[i].began + Zone(i)
  BY <1>1, LogTimeIsInt
<1>3. Instant(s, i) \in Int /\ q.t = Instant(s, i) + Zone(i)
  <2>1. s.wall \in Int /\ (s.offset # Missing => s.offset \in Int)
    BY DEF StampType
  <2>2. CASE s.offset = Missing
    BY <1>2, <2>1, <2>2 DEF Instant, Moment
  <2>3. CASE s.offset # Missing
    <3>1. FormZone[form] = Zone(i)
      BY <2>3 DEF ZoneFits
    <3> QED BY <1>2, <2>1, <2>3, <3>1 DEF Instant, Moment
  <2> QED BY <2>2, <2>3
<1>4. conns[i].began <= Instant(s, i)
  BY DEF Held
<1>5. q.t - q.w <= LogTime(i) /\ LogTime(i) <= q.t + q.w
  BY <1>2, <1>3, <1>4
<1> QED BY <1>5 DEF Held, InWindow, Of, Within

LEMMA RowsAreFinite ==
  ASSUME LeaTypeOK, NEW S, S \subseteq 1..stored PROVE IsFiniteSet(S)
<1>1. IsFiniteSet(1..stored)
  BY FS_Interval DEF LeaTypeOK
<1> QED BY <1>1, FS_Subset

(* The full lookup names every row's subscriber, and first him if he is the only   *)
(* one.                                                                            *)
LEMMA FullNames ==
  ASSUME LeaTypeOK, NEW q, NEW r \in LookupResults(q), NEW i \in InWindow(q)
  PROVE  /\ r.found = TRUE /\ Name(i) \in r.names
         /\ ~r.reuse => r.first = Name(i)
<1> DEFINE S == InWindow(q)
<1>1. PICK x \in S : r = [found |-> TRUE, first |-> Name(x), delta |-> Delta(x, q.t), names |-> Distinct(S),
                          confirmed |-> {}, reuse |-> Cardinality(Distinct(S)) > 1, cut |-> FALSE]
  BY DEF LookupResults
<1>2. r.found = TRUE /\ r.first = Name(x) /\ r.names = Distinct(S)
  BY <1>1
<1>3. r.reuse = (Cardinality(Distinct(S)) > 1)
  BY <1>1
<1>4. Name(i) \in Distinct(S) /\ Name(x) \in Distinct(S)
  BY DEF Distinct
<1>5. ASSUME Name(x) # Name(i) PROVE r.reuse
  <2>1. PICK c : c = r.reuse
    OBVIOUS
  <2>2. Cardinality(Distinct(S)) > 1
    BY <1>4, <1>5, CandidatesAreFinite, TwoMakeMore
  <2>3. c
    BY <1>3, <2>1, <2>2
  <2> QED BY <2>1, <2>3
<1> QED BY <1>2, <1>4, <1>5

(* A list that is not cut names every row's subscriber; the first is of his user   *)
(* name if there is no other; and he is confirmed if his row is among those of C.  *)
LEMMA ListNames ==
  ASSUME LeaTypeOK, NEW S, S \subseteq 1..stored, NEW C, NEW t, NEW limit, NEW r \in ListResults(S, C, t, limit),
         NEW i \in S, ~r.cut
  PROVE  /\ r.found = TRUE /\ Name(i) \in r.names
         /\ ~r.reuse => r.first[1] = Key(i)
         /\ i \in C => Name(i) \in r.confirmed
<1>1. PICK L \in ShortLists(S, t, limit) : r \in ListAnswers(L, S, C, t)
  BY ListIsUnion
<1>2. PICK x \in L : r = [found |-> TRUE, first |-> Name(x), delta |-> Delta(x, t), names |-> Distinct(L),
                          confirmed |-> Distinct(L \cap C),
                          reuse |-> Cardinality({Key(j) : j \in L}) > 1, cut |-> L # S]
  BY <1>1 DEF ListAnswers, Nearest
<1>3. r.found = TRUE /\ r.first = Name(x) /\ r.names = Distinct(L) /\ r.confirmed = Distinct(L \cap C)
  BY <1>2
<1>4. r.reuse = (Cardinality({Key(j) : j \in L}) > 1)
  BY <1>2
<1>5. L = S
  <2>1. PICK c : c = r.cut
    OBVIOUS
  <2>2. r.cut = (L # S)
    BY <1>2
  <2>3. ~c => L = S
    BY <2>1, <2>2
  <2> QED BY <2>1, <2>3
<1>6. Name(i) \in r.names /\ (i \in C => Name(i) \in r.confirmed)
  BY <1>3, <1>5 DEF Distinct
<1>7. ASSUME Key(x) # Key(i) PROVE r.reuse
  <2> DEFINE K == {Key(j) : j \in L}
             f == [j \in L |-> Key(j)]
  <2>1. f \in Surjection(L, K)
    BY DEF Surjection
  <2>2. IsFiniteSet(K)
    BY <1>5, <2>1, RowsAreFinite, FS_Surjection
  <2>3. Key(x) \in K /\ Key(i) \in K
    BY <1>2, <1>5
  <2> HIDE DEF K
  <2>4. Cardinality(K) > 1
    BY <1>7, <2>2, <2>3, TwoMakeMore
  <2>5. PICK c : c = r.reuse
    OBVIOUS
  <2>6. c
    BY <1>4, <2>4, <2>5 DEF K
  <2> QED BY <2>5, <2>6
<1>8. Name(x)[1] = Key(x)
  BY DEF Name
<1> QED BY <1>3, <1>6, <1>7, <1>8

(* Any one question, asked in any form.                                            *)
LEMMA AnswerNamesHolder ==
  ASSUME LeaTypeOK, NEW form \in Forms, NEW s \in StampType, NEW q, q.t = Moment(form, s), q.w \in Int,
         NEW a \in Answers(form, q)
  PROVE  NamesHolder(a, q.ip, q.port, s)
<1>1. a.form = form /\ a.q = q /\ a.result \in Results(form, q)
  BY DEF Answers
<1>2. SUFFICES ASSUME NEW i \in 1..stored, Held(i, q.ip, q.port, s), Instant(s, i) - q.w <= conns[i].began,
                      ZoneFits(form, s, i), form = "tuple" => i \in ToDest(q), ~a.result.cut
               PROVE  /\ a.result.found /\ Name(i) \in a.result.names
                      /\ ~a.result.reuse =>
                           IF form \in {"page", "api"} THEN a.result.first = Name(i) ELSE a.result.first[1] = Key(i)
                      /\ form \notin {"page", "api"} /\ conns[i].dest = <<q.dip, q.dport>> =>
                           Name(i) \in a.result.confirmed
  BY <1>1 DEF NamesHolder
<1>3. i \in InWindow(q) /\ InWindow(q) \subseteq 1..stored
  BY <1>2, HeldIsInWindow DEF InWindow, Of
<1>4. CASE form \in {"page", "api"}
  <2>1. a.result \in LookupResults(q)
    BY <1>1, <1>4 DEF Results
  <2>2. /\ a.result.found = TRUE /\ Name(i) \in a.result.names
        /\ ~a.result.reuse => a.result.first = Name(i)
    BY <1>3, <2>1, FullNames
  <2> QED BY <1>4, <2>2
<1>5. CASE form \in {"paste", "resolve"}
  <2>1. a.result \in ListResults(InWindow(q), ListConfirms(q), q.t, ListLimit)
    BY <1>1, <1>5 DEF Results
  <2>2. /\ a.result.found = TRUE /\ Name(i) \in a.result.names
        /\ ~a.result.reuse => a.result.first[1] = Key(i)
        /\ i \in ListConfirms(q) => Name(i) \in a.result.confirmed
    BY <1>2, <1>3, <2>1, ListNames
  <2>3. conns[i].dest = <<q.dip, q.dport>> => i \in ListConfirms(q)
    BY <1>3 DEF ListConfirms
  <2> QED BY <1>5, <2>2, <2>3
<1>6. CASE form = "tuple"
  <2>1. a.result \in ListResults(ToDest(q), TupleConfirms(q), q.t, TupleLimit)
    BY <1>1, <1>6 DEF Results
  <2>2. i \in ToDest(q) /\ ToDest(q) \subseteq 1..stored
    BY <1>2, <1>3, <1>6 DEF ToDest
  <2>3. /\ a.result.found = TRUE /\ Name(i) \in a.result.names
        /\ ~a.result.reuse => a.result.first[1] = Key(i)
        /\ i \in TupleConfirms(q) => Name(i) \in a.result.confirmed
    BY <1>2, <2>1, <2>2, ListNames
  <2>4. ASSUME conns[i].dest = <<q.dip, q.dport>> PROVE i \in TupleConfirms(q)
    <3>1. conns[i] \in Connection
      BY LogTimeIsInt DEF LeaTypeOK
    <3>2. conns[i].dest \in Dests
      BY <3>1 DEF Connection
    <3>3. q.dip \in DestIps
      BY <2>4, <3>2 DEF DestIps
    <3> QED BY <2>2, <3>3, LeaAssumption DEF TupleConfirms
  <2> QED BY <1>6, <2>3, <2>4
<1> QED BY <1>4, <1>5, <1>6 DEF Forms

(* Whoever held the address and port at the time asked about, by a stored          *)
(* connection of the window, is named by whatever page, API or command is asked,   *)
(* if the zone it takes log_time to be in is that of his NAS.                      *)
THEOREM WhoeverHeldIsNamed == LeaSpec => []HolderNamed
<1>1. ASSUME LeaTypeOK, NEW form \in Forms, NEW ip, NEW port, NEW dip, NEW dport, NEW s \in StampType, NEW w \in Int,
             NEW a \in Answers(form, Question(ip, port, dip, dport, Moment(form, s), w))
      PROVE  NamesHolder(a, ip, port, s)
  <2>1. PICK q : q = Question(ip, port, dip, dport, Moment(form, s), w)
    OBVIOUS
  <2>2. q.ip = ip /\ q.port = port /\ q.t = Moment(form, s) /\ q.w \in Int
    BY <2>1 DEF Question
  <2>3. NamesHolder(a, q.ip, q.port, s)
    BY <1>1, <2>1, <2>2, AnswerNamesHolder
  <2> QED BY <2>2, <2>3
<1>2. LeaTypeOK => HolderNamed
  <2> SUFFICES ASSUME LeaTypeOK, NEW ip \in Ips, NEW port \in Ports, NEW s \in Stamps
               PROVE  /\ \A a \in ApiLookup(ip, port, s) : NamesHolder(a, ip, port, s)
                      /\ \A w \in Asked : \A a \in LeaQuery(ip, port, s, w) : NamesHolder(a, ip, port, s)
                      /\ \A w \in Asked, dip \in DestIps \cup {Null}, dport \in DestPorts \cup {Null} :
                           \A a \in TupleLookup(ip, port, dip, dport, s, w) : NamesHolder(a, ip, port, s)
                      /\ \A dip \in DestIps, dport \in DestPorts :
                           \A a \in Resolve(ip, port, dip, dport, s) : NamesHolder(a, ip, port, s)
    BY DEF HolderNamed
  <2>1. s \in StampType /\ Window \in Int /\ ResolveWindow \in Int
    BY LeaAssumption DEF StampType
  <2>2. ASSUME NEW w \in Asked PROVE w \in Int /\ Clamp(w) \in Int
    BY LeaAssumption DEF Clamp
  <2>3. \A a \in ApiLookup(ip, port, s) : NamesHolder(a, ip, port, s)
    BY <1>1, <2>1 DEF ApiLookup, Forms
  <2>4. \A w \in Asked : \A a \in LeaQuery(ip, port, s, w) : NamesHolder(a, ip, port, s)
    BY <1>1, <2>1, <2>2 DEF LeaQuery, Forms
  <2>5. \A w \in Asked, dip \in DestIps \cup {Null}, dport \in DestPorts \cup {Null} :
          \A a \in TupleLookup(ip, port, dip, dport, s, w) : NamesHolder(a, ip, port, s)
    BY <1>1, <2>1, <2>2 DEF TupleLookup, Forms
  <2>6. \A dip \in DestIps, dport \in DestPorts :
          \A a \in Resolve(ip, port, dip, dport, s) : NamesHolder(a, ip, port, s)
    BY <1>1, <2>1 DEF Resolve, Forms
  <2> QED BY <2>3, <2>4, <2>5, <2>6
<1> QED BY <1>2, LeaTypeAlways, PTL

-----------------------------------------------------------------------------
(* Requests: what a pasted text becomes, by induction over its elements.       *)

(* The items of a text as they become unique.                                          *)
LEMMA UnseenFold ==
  ASSUME NEW S, NEW items \in Seq(S)
  PROVE  \E r \in [0..Len(items) -> Seq(S)] :
           /\ r[0] = <<>> /\ r[Len(items)] = FoldLeft(AddUnseen, <<>>, items)
           /\ \A k \in 1..Len(items) : r[k] = AddUnseen(r[k - 1], items[k])
<1> DEFINE n == Len(items)
           E(it) == it = [s \in SUBSET DOMAIN items |->
                           IF s = {} THEN <<>> ELSE AddUnseen(it[s \ {Max(s)}], items[Max(s)])]
           chosen == CHOOSE it : E(it)
           step == [p \in Seq(S) \X (1..n) |-> AddUnseen(p[1], items[p[2]])]
<1>1. n \in Nat /\ DOMAIN items = 1..n /\ \A i \in 1..n : items[i] \in S
  BY LenProperties, ElementOfSeq
<1>2. step \in [Seq(S) \X (1..n) -> Seq(S)] /\ <<>> \in Seq(S)
  BY <1>1 DEF AddUnseen
<1>3. PICK it \in [SUBSET (1..n) -> Seq(S)] : IsFold(it, n, <<>>, step)
  <2> HIDE DEF step, n
  <2> QED BY <1>1, <1>2, FoldExists
<1>4. E(it)
  <2>1. ASSUME NEW s \in SUBSET (1..n), s # {}
        PROVE  step[<<it[s \ {Max(s)}], Max(s)>>] = AddUnseen(it[s \ {Max(s)}], items[Max(s)])
    <3>1. Max(s) \in 1..n /\ s \ {Max(s)} \in SUBSET (1..n)
      BY <1>1, <2>1, TopOf
    <3> QED BY <3>1
  <2> HIDE DEF step, n
  <2> QED BY <1>1, <1>3, <2>1 DEF IsFold
<1>5. E(chosen)
  BY <1>4
<1>6. FoldLeft(AddUnseen, <<>>, items) = chosen[1..n]
  BY <1>1 DEF FoldLeft, MapThenFoldSet
<1>7. \A k \in 1..n, a \in Seq(S) : step[<<a, k>>] = AddUnseen(a, items[k])
  OBVIOUS
<1> HIDE DEF chosen, n, step
<1>8. chosen[{}] = <<>>
  BY <1>1, <1>5
<1>9. \A k \in 1..n : chosen[1..(k - 1)] \in Seq(S) => chosen[1..k] = step[<<chosen[1..(k - 1)], k>>]
  <2> SUFFICES ASSUME NEW k \in 1..n, chosen[1..(k - 1)] \in Seq(S)
               PROVE  chosen[1..k] = step[<<chosen[1..(k - 1)], k>>]
    OBVIOUS
  <2>1. 1..k \in SUBSET (1..n) /\ 1..k # {} /\ Max(1..k) = k /\ (1..k) \ {k} = 1..(k - 1)
    BY <1>1, TopOfFirst
  <2>2. chosen[1..k] = AddUnseen(chosen[1..(k - 1)], items[k])
    BY <1>1, <1>5, <2>1
  <2> QED BY <1>7, <2>2
<1> HIDE DEF E
<1>10. Leads(chosen, n, Seq(S), <<>>, step)
  BY <1>8, <1>9 DEF Leads
<1>11. PICK r \in [0..n -> Seq(S)] : r[n] = chosen[1..n] /\ IsRun(r, n, <<>>, step)
  BY <1>1, <1>2, <1>10, FoldRuns
<1>12. ASSUME NEW k \in 1..n PROVE r[k] = AddUnseen(r[k - 1], items[k])
  <2>1. k - 1 \in 0..n
    BY <1>1
  <2> QED BY <1>7, <1>11, <2>1 DEF IsRun
<1>13. r[0] = <<>>
  BY <1>11 DEF IsRun
<1> QED BY <1>6, <1>11, <1>12, <1>13 DEF n

(* The items as they are added.                                                        *)
LEMMA CompleteFold ==
  ASSUME NEW S, NEW items \in Seq(S)
  PROVE  \E r \in [0..Len(items) -> Seq({x \in S : Complete(x)})] :
           /\ r[0] = <<>> /\ r[Len(items)] = FoldLeft(AddComplete, <<>>, items)
           /\ \A k \in 1..Len(items) : r[k] = AddComplete(r[k - 1], items[k])
<1> DEFINE n == Len(items)
           E(it) == it = [s \in SUBSET DOMAIN items |->
                           IF s = {} THEN <<>> ELSE AddComplete(it[s \ {Max(s)}], items[Max(s)])]
           chosen == CHOOSE it : E(it)
           step == [p \in Seq({x \in S : Complete(x)}) \X (1..n) |-> AddComplete(p[1], items[p[2]])]
<1>1. n \in Nat /\ DOMAIN items = 1..n /\ \A i \in 1..n : items[i] \in S
  BY LenProperties, ElementOfSeq
<1>2. step \in [Seq({x \in S : Complete(x)}) \X (1..n) -> Seq({x \in S : Complete(x)})] /\ <<>> \in Seq({x \in S : Complete(x)})
  BY <1>1 DEF AddComplete
<1>3. PICK it \in [SUBSET (1..n) -> Seq({x \in S : Complete(x)})] : IsFold(it, n, <<>>, step)
  <2> HIDE DEF step, n
  <2> QED BY <1>1, <1>2, FoldExists
<1>4. E(it)
  <2>1. ASSUME NEW s \in SUBSET (1..n), s # {}
        PROVE  step[<<it[s \ {Max(s)}], Max(s)>>] = AddComplete(it[s \ {Max(s)}], items[Max(s)])
    <3>1. Max(s) \in 1..n /\ s \ {Max(s)} \in SUBSET (1..n)
      BY <1>1, <2>1, TopOf
    <3> QED BY <3>1
  <2> HIDE DEF step, n
  <2> QED BY <1>1, <1>3, <2>1 DEF IsFold
<1>5. E(chosen)
  BY <1>4
<1>6. FoldLeft(AddComplete, <<>>, items) = chosen[1..n]
  BY <1>1 DEF FoldLeft, MapThenFoldSet
<1>7. \A k \in 1..n, a \in Seq({x \in S : Complete(x)}) : step[<<a, k>>] = AddComplete(a, items[k])
  OBVIOUS
<1> HIDE DEF chosen, n, step
<1>8. chosen[{}] = <<>>
  BY <1>1, <1>5
<1>9. \A k \in 1..n : chosen[1..(k - 1)] \in Seq({x \in S : Complete(x)}) => chosen[1..k] = step[<<chosen[1..(k - 1)], k>>]
  <2> SUFFICES ASSUME NEW k \in 1..n, chosen[1..(k - 1)] \in Seq({x \in S : Complete(x)})
               PROVE  chosen[1..k] = step[<<chosen[1..(k - 1)], k>>]
    OBVIOUS
  <2>1. 1..k \in SUBSET (1..n) /\ 1..k # {} /\ Max(1..k) = k /\ (1..k) \ {k} = 1..(k - 1)
    BY <1>1, TopOfFirst
  <2>2. chosen[1..k] = AddComplete(chosen[1..(k - 1)], items[k])
    BY <1>1, <1>5, <2>1
  <2> QED BY <1>7, <2>2
<1> HIDE DEF E
<1>10. Leads(chosen, n, Seq({x \in S : Complete(x)}), <<>>, step)
  BY <1>8, <1>9 DEF Leads
<1>11. PICK r \in [0..n -> Seq({x \in S : Complete(x)})] : r[n] = chosen[1..n] /\ IsRun(r, n, <<>>, step)
  BY <1>1, <1>2, <1>10, FoldRuns
<1>12. ASSUME NEW k \in 1..n PROVE r[k] = AddComplete(r[k - 1], items[k])
  <2>1. k - 1 \in 0..n
    BY <1>1
  <2> QED BY <1>7, <1>11, <2>1 DEF IsRun
<1>13. r[0] = <<>>
  BY <1>11 DEF IsRun
<1> QED BY <1>6, <1>11, <1>12, <1>13 DEF n

(* The values of a field as they are found.                                            *)
LEMMA StatedFold ==
  ASSUME NEW S, NEW items \in Seq(S)
  PROVE  \E r \in [0..Len(items) -> Seq(S)] :
           /\ r[0] = <<>> /\ r[Len(items)] = FoldLeft(AddStated, <<>>, items)
           /\ \A k \in 1..Len(items) : r[k] = AddStated(r[k - 1], items[k])
<1> DEFINE n == Len(items)
           E(it) == it = [s \in SUBSET DOMAIN items |->
                           IF s = {} THEN <<>> ELSE AddStated(it[s \ {Max(s)}], items[Max(s)])]
           chosen == CHOOSE it : E(it)
           step == [p \in Seq(S) \X (1..n) |-> AddStated(p[1], items[p[2]])]
<1>1. n \in Nat /\ DOMAIN items = 1..n /\ \A i \in 1..n : items[i] \in S
  BY LenProperties, ElementOfSeq
<1>2. step \in [Seq(S) \X (1..n) -> Seq(S)] /\ <<>> \in Seq(S)
  BY <1>1 DEF AddStated
<1>3. PICK it \in [SUBSET (1..n) -> Seq(S)] : IsFold(it, n, <<>>, step)
  <2> HIDE DEF step, n
  <2> QED BY <1>1, <1>2, FoldExists
<1>4. E(it)
  <2>1. ASSUME NEW s \in SUBSET (1..n), s # {}
        PROVE  step[<<it[s \ {Max(s)}], Max(s)>>] = AddStated(it[s \ {Max(s)}], items[Max(s)])
    <3>1. Max(s) \in 1..n /\ s \ {Max(s)} \in SUBSET (1..n)
      BY <1>1, <2>1, TopOf
    <3> QED BY <3>1
  <2> HIDE DEF step, n
  <2> QED BY <1>1, <1>3, <2>1 DEF IsFold
<1>5. E(chosen)
  BY <1>4
<1>6. FoldLeft(AddStated, <<>>, items) = chosen[1..n]
  BY <1>1 DEF FoldLeft, MapThenFoldSet
<1>7. \A k \in 1..n, a \in Seq(S) : step[<<a, k>>] = AddStated(a, items[k])
  OBVIOUS
<1> HIDE DEF chosen, n, step
<1>8. chosen[{}] = <<>>
  BY <1>1, <1>5
<1>9. \A k \in 1..n : chosen[1..(k - 1)] \in Seq(S) => chosen[1..k] = step[<<chosen[1..(k - 1)], k>>]
  <2> SUFFICES ASSUME NEW k \in 1..n, chosen[1..(k - 1)] \in Seq(S)
               PROVE  chosen[1..k] = step[<<chosen[1..(k - 1)], k>>]
    OBVIOUS
  <2>1. 1..k \in SUBSET (1..n) /\ 1..k # {} /\ Max(1..k) = k /\ (1..k) \ {k} = 1..(k - 1)
    BY <1>1, TopOfFirst
  <2>2. chosen[1..k] = AddStated(chosen[1..(k - 1)], items[k])
    BY <1>1, <1>5, <2>1
  <2> QED BY <1>7, <2>2
<1> HIDE DEF E
<1>10. Leads(chosen, n, Seq(S), <<>>, step)
  BY <1>8, <1>9 DEF Leads
<1>11. PICK r \in [0..n -> Seq(S)] : r[n] = chosen[1..n] /\ IsRun(r, n, <<>>, step)
  BY <1>1, <1>2, <1>10, FoldRuns
<1>12. ASSUME NEW k \in 1..n PROVE r[k] = AddStated(r[k - 1], items[k])
  <2>1. k - 1 \in 0..n
    BY <1>1
  <2> QED BY <1>7, <1>11, <2>1 DEF IsRun
<1>13. r[0] = <<>>
  BY <1>11 DEF IsRun
<1> QED BY <1>6, <1>11, <1>12, <1>13 DEF n

(* What is in a sequence stays in it when something is added.                          *)
Holds(x, s) == \E j \in DOMAIN s : s[j] = x

LEMMA AddedIsIn ==
  ASSUME NEW S, NEW s \in Seq(S), NEW x \in S
  PROVE  /\ Append(s, x) \in Seq(S) /\ Holds(x, Append(s, x))
         /\ \A y : Holds(y, s) => Holds(y, Append(s, x))
         /\ Len(Append(s, x)) = Len(s) + 1 /\ Append(s, x)[Len(s) + 1] = x
         /\ \A i \in 1..Len(s) : Append(s, x)[i] = s[i]
<1>1. /\ Append(s, x) \in Seq(S) /\ Len(s) \in Nat /\ DOMAIN s = 1..Len(s)
      /\ DOMAIN Append(s, x) = 1..(Len(s) + 1) /\ Len(Append(s, x)) = Len(s) + 1
      /\ Append(s, x)[Len(s) + 1] = x /\ \A i \in 1..Len(s) : Append(s, x)[i] = s[i]
  BY LenProperties
<1>2. Len(s) + 1 \in 1..(Len(s) + 1) /\ \A i \in 1..Len(s) : i \in 1..(Len(s) + 1)
  BY <1>1
<1> QED BY <1>1, <1>2 DEF Holds

(* _add keeps what is complete.                                                        *)
LEMMA CompleteIsAdded ==
  ASSUME NEW S, NEW items \in Seq(S)
  PROVE  /\ Added(items) \in Seq({x \in S : Complete(x)})
         /\ \A i \in DOMAIN items : Complete(items[i]) => Holds(items[i], Added(items))
         /\ items = <<>> => Added(items) = <<>>
<1> DEFINE n == Len(items)
           T == {x \in S : Complete(x)}
<1>1. PICK r \in [0..n -> Seq(T)] :
        /\ r[0] = <<>> /\ r[n] = Added(items)
        /\ \A k \in 1..n : r[k] = AddComplete(r[k - 1], items[k])
  BY CompleteFold DEF Added
<1>2. n \in Nat /\ DOMAIN items = 1..n /\ \A i \in 1..n : items[i] \in S
  BY LenProperties, ElementOfSeq
<1> DEFINE N == {k \in 0..n : \A i \in 1..k : Complete(items[i]) => Holds(items[i], r[k])}
<1>3. 0 \in N
  BY <1>2
<1>4. ASSUME NEW k \in 0..(n - 1), k \in N PROVE k + 1 \in N
  <2>1. k + 1 \in 1..n /\ (k + 1) - 1 = k /\ k + 1 \in 0..n /\ k \in 0..n /\ \A i \in 1..(k + 1) : i \in 1..k \/ i = k + 1
    BY <1>2
  <2>2. r[k + 1] = AddComplete(r[k], items[k + 1]) /\ items[k + 1] \in S
    BY <1>1, <1>2, <2>1
  <2>3. CASE Complete(items[k + 1])
    <3>1. r[k + 1] = Append(r[k], items[k + 1]) /\ r[k] \in Seq(T) /\ items[k + 1] \in T
      BY <2>1, <2>2, <2>3 DEF AddComplete
    <3>2. Holds(items[k + 1], r[k + 1]) /\ \A y : Holds(y, r[k]) => Holds(y, r[k + 1])
      BY <3>1, AddedIsIn
    <3> QED BY <1>4, <2>1, <3>2
  <2>4. CASE ~Complete(items[k + 1])
    <3>1. r[k + 1] = r[k]
      BY <2>2, <2>4 DEF AddComplete
    <3> QED BY <1>4, <2>1, <2>4, <3>1
  <2> QED BY <2>3, <2>4
<1>5. n \in N
  <2> HIDE DEF N, n
  <2>1. \A k \in 0..n : k \in N
    BY <1>2, <1>3, <1>4, Upward
  <2> QED BY <1>2, <2>1
<1>6. n \in 0..n /\ (items = <<>> => n = 0)
  BY <1>2
<1> QED BY <1>1, <1>2, <1>5, <1>6

(* A column begins with the values of the first elements, as far as all state theirs.  *)
LEMMA ColumnBegins ==
  ASSUME NEW S, NEW values \in Seq(S), NEW m \in 0..Len(values), \A i \in 1..m : values[i] # Missing
  PROVE  /\ FoldLeft(AddStated, <<>>, values) \in Seq(S)
         /\ Len(FoldLeft(AddStated, <<>>, values)) >= m
         /\ \A i \in 1..m : FoldLeft(AddStated, <<>>, values)[i] = values[i]
<1> DEFINE n == Len(values)
<1>1. PICK r \in [0..n -> Seq(S)] :
        /\ r[0] = <<>> /\ r[n] = FoldLeft(AddStated, <<>>, values)
        /\ \A k \in 1..n : r[k] = AddStated(r[k - 1], values[k])
  BY StatedFold
<1>2. n \in Nat /\ m \in 0..n /\ \A i \in 1..n : values[i] \in S
  BY LenProperties, ElementOfSeq
<1> DEFINE N == {k \in 0..n : /\ k <= m => Len(r[k]) = k
                              /\ k > m => Len(r[k]) >= m
                              /\ \A i \in 1..m : i <= k => r[k][i] = values[i]}
<1>3. 0 \in N
  BY <1>1, <1>2
<1>4. ASSUME NEW k \in 0..(n - 1), k \in N PROVE k + 1 \in N
  <2>1. k + 1 \in 1..n /\ (k + 1) - 1 = k /\ k + 1 \in 0..n /\ k \in 0..n
    BY <1>2
  <2>2. r[k + 1] = AddStated(r[k], values[k + 1]) /\ values[k + 1] \in S /\ r[k] \in Seq(S) /\ Len(r[k]) \in Nat
    BY <1>1, <1>2, <2>1, LenProperties
  <2>3. CASE values[k + 1] = Missing
    <3>1. r[k + 1] = r[k]
      BY <2>2, <2>3 DEF AddStated
    <3>2. ~(k + 1 <= m)
      BY <1>2, <2>1, <2>3
    <3>3. k >= m
      BY <1>2, <2>1, <3>2
    <3> QED BY <1>2, <1>4, <2>1, <2>2, <3>1, <3>2, <3>3
  <2>4. CASE values[k + 1] # Missing
    <3>1. r[k + 1] = Append(r[k], values[k + 1])
      BY <2>2, <2>4 DEF AddStated
    <3>2. /\ Len(r[k + 1]) = Len(r[k]) + 1 /\ r[k + 1][Len(r[k]) + 1] = values[k + 1]
          /\ \A i \in 1..Len(r[k]) : r[k + 1][i] = r[k][i]
      BY <2>2, <3>1, AddedIsIn
    <3>3. CASE k + 1 <= m
      <4>1. Len(r[k]) = k /\ \A i \in 1..m : i <= k => r[k][i] = values[i]
        BY <1>2, <1>4, <2>1, <3>3
      <4>2. ASSUME NEW i \in 1..m, i <= k + 1 PROVE r[k + 1][i] = values[i]
        <5>1. i = k + 1 \/ i \in 1..k
          BY <1>2, <2>1, <4>2
        <5> QED BY <2>1, <3>2, <4>1, <4>2, <5>1
      <4> QED BY <1>2, <2>1, <3>2, <3>3, <4>1, <4>2
    <3>4. CASE ~(k + 1 <= m)
      <4>1. Len(r[k]) >= m /\ \A i \in 1..m : i <= k /\ i \in 1..Len(r[k]) /\ r[k][i] = values[i]
        BY <1>2, <1>4, <2>1, <2>2, <3>4
      <4> QED BY <1>2, <2>1, <2>2, <3>2, <3>4, <4>1
    <3> QED BY <3>3, <3>4
  <2> QED BY <2>3, <2>4
<1>5. n \in N
  <2> HIDE DEF N, n
  <2>1. \A k \in 0..n : k \in N
    BY <1>2, <1>3, <1>4, Upward
  <2> QED BY <1>2, <2>1
<1>6. n \in 0..n /\ \A i \in 1..m : i <= n
  BY <1>2
<1>7. r[n] \in Seq(S) /\ Len(r[n]) >= m /\ \A i \in 1..m : r[n][i] = values[i]
  BY <1>2, <1>5, <1>6
<1> QED BY <1>1, <1>7

(* Of each item, one that asks the same stays.                                         *)
Unique(items) == FoldLeft(AddUnseen, <<>>, items)

LEMMA RequestStays ==
  ASSUME NEW S, NEW items \in Seq(S)
  PROVE  /\ Unique(items) \in Seq(S)
         /\ \A i \in DOMAIN items : \E j \in DOMAIN Unique(items) :
              SameRequest(Unique(items)[j], items[i])
         /\ items = <<>> => Unique(items) = <<>>
<1> DEFINE n == Len(items)
           Asked4(s, it) == \E x \in S : Holds(x, s) /\ SameRequest(x, it)
<1>1. PICK r \in [0..n -> Seq(S)] :
        /\ r[0] = <<>> /\ r[n] = Unique(items)
        /\ \A k \in 1..n : r[k] = AddUnseen(r[k - 1], items[k])
  BY UnseenFold DEF Unique
<1>2. n \in Nat /\ DOMAIN items = 1..n /\ \A i \in 1..n : items[i] \in S
  BY LenProperties, ElementOfSeq
<1> DEFINE N == {k \in 0..n : \A i \in 1..k : Asked4(r[k], items[i])}
<1>3. 0 \in N
  BY <1>2
<1>4. ASSUME NEW k \in 0..(n - 1), k \in N PROVE k + 1 \in N
  <2>1. k + 1 \in 1..n /\ (k + 1) - 1 = k /\ k + 1 \in 0..n /\ k \in 0..n /\ \A i \in 1..(k + 1) : i \in 1..k \/ i = k + 1
    BY <1>2
  <2>2. r[k + 1] = AddUnseen(r[k], items[k + 1]) /\ items[k + 1] \in S /\ r[k] \in Seq(S)
    BY <1>1, <1>2, <2>1
  <2>3. CASE \E x \in Range(r[k]) : SameRequest(x, items[k + 1])
    <3>1. r[k + 1] = r[k]
      BY <2>2, <2>3 DEF AddUnseen
    <3>2. PICK j \in DOMAIN r[k] : SameRequest(r[k][j], items[k + 1])
      BY <2>3 DEF Range
    <3>3. r[k][j] \in S /\ Holds(r[k][j], r[k])
      BY <2>2, ElementOfSeq, LenProperties DEF Holds
    <3> QED BY <1>4, <2>1, <3>1, <3>2, <3>3
  <2>4. CASE ~\E x \in Range(r[k]) : SameRequest(x, items[k + 1])
    <3>1. r[k + 1] = Append(r[k], items[k + 1])
      BY <2>2, <2>4 DEF AddUnseen
    <3>2. Holds(items[k + 1], r[k + 1]) /\ \A y : Holds(y, r[k]) => Holds(y, r[k + 1])
      BY <2>2, <3>1, AddedIsIn
    <3>3. SameRequest(items[k + 1], items[k + 1])
      BY DEF SameRequest
    <3> QED BY <1>4, <2>1, <2>2, <3>2, <3>3
  <2> QED BY <2>3, <2>4
<1>5. n \in N
  <2> HIDE DEF N, n
  <2>1. \A k \in 0..n : k \in N
    BY <1>2, <1>3, <1>4, Upward
  <2> QED BY <1>2, <2>1
<1>6. n \in 0..n /\ (items = <<>> => n = 0)
  BY <1>2
<1>7. r[n] \in Seq(S) /\ \A i \in 1..n : \E j \in DOMAIN r[n] : SameRequest(r[n][j], items[i])
  BY <1>5, <1>6 DEF Holds
<1> QED BY <1>1, <1>2, <1>6, <1>7

(* What the parser makes of a text, complete or not; what it looks up.                 *)
Items == [ip : Ips \cup {Missing}, port : StatedPorts \cup {Missing}, dip : DestIps \cup {Missing},
          dport : DestPorts \cup {Missing}, when : Int \cup {Missing}]
Asking == {x \in Items : Complete(x)}

(* A time as it is found in a text, read or not.                                       *)
FoundStamps == [wall : Int \cup {Missing}, offset : Int \cup {Missing}]

(* One of the items asks for a piece of evidence.                                      *)
AsksFor(s, e) ==
  \E j \in DOMAIN s : s[j].ip = e.ip /\ s[j].port = e.port /\ s[j].when = ToStored(e.stamp)

LEMMA ItemOfEvidence ==
  ASSUME NEW ip \in Ips \cup {Missing}, NEW port \in StatedPorts \cup {Missing},
         NEW dip \in DestIps \cup {Missing}, NEW dport \in DestPorts \cup {Missing},
         NEW stamp \in FoundStamps \cup {Missing}
  PROVE  Item(ip, port, stamp, dip, dport) \in Items
<1>1. ASSUME stamp # Missing PROVE ToStored(stamp) \in Int \cup {Missing}
  BY <1>1 DEF ToStored, FoundStamps
<1> QED BY <1>1 DEF Item, Items

LEMMA ItemSays ==
  ASSUME NEW ip, NEW port, NEW dip, NEW dport, NEW stamp
  PROVE  /\ Item(ip, port, stamp, dip, dport).ip = ip /\ Item(ip, port, stamp, dip, dport).port = port
         /\ stamp # Missing => Item(ip, port, stamp, dip, dport).when = ToStored(stamp)
BY DEF Item

LEMMA ItemIsComplete ==
  ASSUME NEW ip, NEW port, NEW dip, NEW dport, NEW stamp \in FoundStamps,
         Missing \notin {ip, port, stamp}, stamp.wall # Missing
  PROVE  Complete(Item(ip, port, stamp, dip, dport))
<1>1. ToStored(stamp) \in Int
  BY DEF ToStored, FoundStamps
<1> QED BY <1>1, RequestAssumption DEF Item, Complete

(* What is among items that were added is asked for.                                   *)
LEMMA AddedAsks ==
  ASSUME NEW items \in Seq(Items), NEW i \in DOMAIN items, NEW e, Complete(items[i]),
         items[i].ip = e.ip, items[i].port = e.port, items[i].when = ToStored(e.stamp)
  PROVE  AsksFor(Added(items), e)
BY CompleteIsAdded DEF Holds, AsksFor

LEMMA LinesAsk ==
  ASSUME NEW els \in Seq(Element)
  PROVE  /\ LineItems(els) \in Seq(Asking)
         /\ \A e \in Range(els) : Readable(e) => AsksFor(LineItems(els), e)
         /\ els = <<>> => LineItems(els) = <<>>
<1> DEFINE items == [i \in DOMAIN els |-> Item(els[i].ip, els[i].port, els[i].stamp, els[i].dip, els[i].dport)]
<1>1. DOMAIN els = 1..Len(els) /\ Len(els) \in Nat /\ \A i \in 1..Len(els) : els[i] \in Element
  BY LenProperties, ElementOfSeq
<1>2. ASSUME NEW i \in 1..Len(els)
      PROVE  /\ items[i] \in Items
             /\ Readable(els[i]) => Complete(items[i]) /\ items[i].ip = els[i].ip /\ items[i].port = els[i].port
                                    /\ items[i].when = ToStored(els[i].stamp)
  <2>1. PICK ip, port, dip, dport, stamp :
          /\ ip = els[i].ip /\ port = els[i].port /\ stamp = els[i].stamp
          /\ dip = els[i].dip /\ dport = els[i].dport
    OBVIOUS
  <2>2. /\ ip \in Ips \cup {Missing} /\ port \in StatedPorts \cup {Missing} /\ stamp \in FoundStamps \cup {Missing}
        /\ dip \in DestIps \cup {Missing} /\ dport \in DestPorts \cup {Missing}
    BY <1>1, <2>1 DEF Element, FoundStamps
  <2>3. items[i] = Item(ip, port, stamp, dip, dport)
    BY <1>1, <2>1
  <2>4. Readable(els[i]) => Missing \notin {ip, port, stamp} /\ stamp.wall # Missing
    BY <2>1 DEF Readable, States
  <2>5. /\ items[i] \in Items /\ items[i].ip = ip /\ items[i].port = port
        /\ stamp # Missing => items[i].when = ToStored(stamp)
    <3>1. Item(ip, port, stamp, dip, dport) \in Items
      BY <2>2, ItemOfEvidence, Zenon
    <3>2. /\ Item(ip, port, stamp, dip, dport).ip = ip /\ Item(ip, port, stamp, dip, dport).port = port
          /\ stamp # Missing => Item(ip, port, stamp, dip, dport).when = ToStored(stamp)
      BY ItemSays
    <3>3. PICK it : it = items[i]
      OBVIOUS
    <3> QED BY <2>3, <3>1, <3>2, <3>3
  <2>7. ASSUME Readable(els[i]) PROVE Complete(items[i])
    <3>1. Missing \notin {ip, port, stamp} /\ stamp.wall # Missing /\ stamp \in FoundStamps
      BY <2>2, <2>4, <2>7
    <3>2. Complete(Item(ip, port, stamp, dip, dport))
      BY <3>1, ItemIsComplete
    <3> QED BY <2>3, <3>2
  <2>8. ASSUME Readable(els[i]) PROVE items[i].when = ToStored(els[i].stamp)
    BY <2>1, <2>4, <2>5, <2>8
  <2> QED BY <2>1, <2>5, <2>7, <2>8
<1>3. items \in Seq(Items) /\ DOMAIN items = 1..Len(els)
  BY <1>1, <1>2
<1>4. LineItems(els) = Added(items)
  BY DEF LineItems
<1> HIDE DEF items
<1>5. LineItems(els) \in Seq(Asking)
  BY <1>3, <1>4, CompleteIsAdded DEF Asking
<1>6. ASSUME NEW e \in Range(els), Readable(e) PROVE AsksFor(LineItems(els), e)
  <2>1. PICK i \in 1..Len(els) : e = els[i]
    BY <1>1 DEF Range
  <2> QED BY <1>2, <1>3, <1>4, <1>6, <2>1, AddedAsks
<1>7. ASSUME els = <<>> PROVE LineItems(els) = <<>>
  <2>1. items = <<>>
    BY <1>7 DEF items
  <2> QED BY <1>3, <1>4, <2>1, CompleteIsAdded
<1> QED BY <1>5, <1>6, <1>7

(* A column of a list: the first values belong to the first elements.                  *)
LEMMA ColumnOf ==
  ASSUME NEW els \in Seq(Element), NEW field \in {"ip", "port", "dip", "dport", "stamp"},
         NEW V, \A e \in Element : e[field] \in V
  PROVE  /\ Column(els, field) \in Seq(V)
         /\ \A m \in 0..Len(els) : (\A i \in 1..m : els[i][field] # Missing) =>
              Len(Column(els, field)) >= m /\ \A i \in 1..m : Column(els, field)[i] = els[i][field]
<1> DEFINE values == [i \in DOMAIN els |-> els[i][field]]
<1>1. DOMAIN els = 1..Len(els) /\ Len(els) \in Nat /\ \A i \in 1..Len(els) : els[i] \in Element
  BY LenProperties, ElementOfSeq
<1>2. values \in Seq(V) /\ Len(values) = Len(els) /\ \A i \in 1..Len(els) : values[i] = els[i][field]
  BY <1>1
<1>3. Column(els, field) = FoldLeft(AddStated, <<>>, values)
  BY DEF Column
<1> HIDE DEF values
<1>4. ASSUME NEW m \in 0..Len(els), \A i \in 1..m : els[i][field] # Missing
      PROVE  /\ Column(els, field) \in Seq(V) /\ Len(Column(els, field)) >= m
             /\ \A i \in 1..m : Column(els, field)[i] = els[i][field]
  <2>1. \A i \in 1..m : i \in 1..Len(els)
    BY <1>1
  <2>2. m \in 0..Len(values) /\ \A i \in 1..m : values[i] # Missing
    BY <1>2, <1>4, <2>1
  <2>3. /\ Column(els, field) \in Seq(V) /\ Len(Column(els, field)) >= m
        /\ \A i \in 1..m : Column(els, field)[i] = values[i]
    BY <1>2, <1>3, <2>2, ColumnBegins
  <2> QED BY <1>2, <2>1, <2>3
<1>5. 0 \in 0..Len(els) /\ \A i \in 1..0 : els[i][field] # Missing
  BY <1>1
<1> QED BY <1>4, <1>5

LEMMA NthOfColumn ==
  ASSUME NEW V, NEW col \in Seq(V), NEW k \in Nat \ {0}
  PROVE  NthOrFirst(col, k) \in V \cup {Missing} /\ (k <= Len(col) => NthOrFirst(col, k) = col[k])
<1>1. Len(col) \in Nat /\ \A i \in 1..Len(col) : col[i] \in V
  BY LenProperties, ElementOfSeq
<1>2. col # <<>> => 1 \in 1..Len(col)
  BY <1>1, EmptySeq
<1> QED BY <1>1, <1>2 DEF NthOrFirst

(* The fields of the element at a position, or, by default, of the first, make an item. *)
LEMMA NthItem ==
  ASSUME NEW els \in Seq(Element), NEW k \in Nat \ {0},
         NEW dip \in DestIps \cup {Missing}, NEW dport \in DestPorts \cup {Missing}
  PROVE  LET item == Item(NthOrFirst(Column(els, "ip"), k), NthOrFirst(Column(els, "port"), k),
                          NthOrFirst(Column(els, "stamp"), k), dip, dport)
         IN  /\ item \in Items
             /\ k <= Len(els) /\ (\A i \in 1..k : States(els[i])) /\ Readable(els[k]) =>
                  /\ Complete(item) /\ item.ip = els[k].ip /\ item.port = els[k].port
                  /\ item.when = ToStored(els[k].stamp)
                  /\ Len(Column(els, "ip")) >= k
<1> DEFINE ip == NthOrFirst(Column(els, "ip"), k)
           port == NthOrFirst(Column(els, "port"), k)
           stamp == NthOrFirst(Column(els, "stamp"), k)
<1>1. /\ \A e \in Element : e["ip"] \in Ips \cup {Missing}
      /\ \A e \in Element : e["port"] \in StatedPorts \cup {Missing}
      /\ \A e \in Element : e["stamp"] \in FoundStamps \cup {Missing}
  BY DEF Element, FoundStamps
<1>2. /\ Column(els, "ip") \in Seq(Ips \cup {Missing})
      /\ Column(els, "port") \in Seq(StatedPorts \cup {Missing})
      /\ Column(els, "stamp") \in Seq(FoundStamps \cup {Missing})
  BY <1>1, ColumnOf
<1>3. ip \in Ips \cup {Missing}
  BY <1>2, NthOfColumn
<1>4. port \in StatedPorts \cup {Missing}
  BY <1>2, NthOfColumn
<1>5. stamp \in FoundStamps \cup {Missing}
  BY <1>2, NthOfColumn
<1>6. ASSUME k <= Len(els), \A i \in 1..k : States(els[i])
      PROVE  /\ ip = els[k].ip /\ port = els[k].port /\ stamp = els[k].stamp
             /\ Len(Column(els, "ip")) >= k
  <2>1. k \in 0..Len(els) /\ k \in 1..k /\ Len(els) \in Nat
    BY <1>6, LenProperties
  <2>2. \A i \in 1..k : els[i]["ip"] # Missing /\ els[i]["port"] # Missing /\ els[i]["stamp"] # Missing
    BY <1>6 DEF States
  <2>3. Len(Column(els, "ip")) >= k /\ Column(els, "ip")[k] = els[k]["ip"]
    BY <1>1, <2>1, <2>2, ColumnOf
  <2>4. Len(Column(els, "port")) >= k /\ Column(els, "port")[k] = els[k]["port"]
    BY <1>1, <2>1, <2>2, ColumnOf
  <2>5. Len(Column(els, "stamp")) >= k /\ Column(els, "stamp")[k] = els[k]["stamp"]
    BY <1>1, <2>1, <2>2, ColumnOf
  <2>6. ip = Column(els, "ip")[k]
    BY <1>2, <2>3, NthOfColumn, LenProperties
  <2>7. port = Column(els, "port")[k]
    BY <1>2, <2>4, NthOfColumn, LenProperties
  <2>8. stamp = Column(els, "stamp")[k]
    BY <1>2, <2>5, NthOfColumn, LenProperties
  <2> QED BY <2>3, <2>4, <2>5, <2>6, <2>7, <2>8
<1>7. ASSUME k <= Len(els), \A i \in 1..k : States(els[i]), Readable(els[k])
      PROVE  Missing \notin {ip, port, stamp} /\ stamp.wall # Missing
  <2>1. Missing \notin {els[k].ip, els[k].port, els[k].stamp} /\ els[k].stamp.wall # Missing
    BY <1>7 DEF Readable, States
  <2> QED BY <1>6, <1>7, <2>1
<1> HIDE DEF ip, port, stamp
<1>8. PICK item : item = Item(ip, port, stamp, dip, dport)
  OBVIOUS
<1>9. /\ item \in Items /\ item.ip = ip /\ item.port = port
      /\ stamp # Missing => item.when = ToStored(stamp)
  <2>1. Item(ip, port, stamp, dip, dport) \in Items
    BY <1>3, <1>4, <1>5, ItemOfEvidence, Zenon
  <2>2. /\ Item(ip, port, stamp, dip, dport).ip = ip /\ Item(ip, port, stamp, dip, dport).port = port
        /\ stamp # Missing => Item(ip, port, stamp, dip, dport).when = ToStored(stamp)
    BY ItemSays
  <2> QED BY <1>8, <2>1, <2>2
<1>11. ASSUME k <= Len(els), \A i \in 1..k : States(els[i]), Readable(els[k])
       PROVE  Complete(item)
  <2>1. Missing \notin {ip, port, stamp} /\ stamp.wall # Missing
    BY <1>7, <1>11
  <2>2. stamp \in FoundStamps
    BY <1>5, <2>1
  <2>3. Complete(Item(ip, port, stamp, dip, dport))
    BY <2>1, <2>2, ItemIsComplete
  <2> QED BY <1>8, <2>3
<1>12. ASSUME k <= Len(els), \A i \in 1..k : States(els[i]), Readable(els[k])
       PROVE  /\ item.ip = els[k].ip /\ item.port = els[k].port /\ item.when = ToStored(els[k].stamp)
              /\ Len(Column(els, "ip")) >= k
  <2>1. stamp # Missing
    BY <1>7, <1>12
  <2> QED BY <1>6, <1>9, <1>12, <2>1
<1> QED BY <1>8, <1>9, <1>11, <1>12 DEF ip, port, stamp

LEMMA ColumnsAsk ==
  ASSUME NEW els \in Seq(Element)
  PROVE  /\ AcnsItems(els) \in Seq(Asking)
         /\ \A k \in DOMAIN els : (\A i \in 1..k : States(els[i])) /\ Readable(els[k]) => AsksFor(AcnsItems(els), els[k])
<1> DEFINE ips == Column(els, "ip")
           ports == Column(els, "port")
           n == IF Len(ips) > Len(ports) THEN Len(ips) ELSE Len(ports)
           item(i) == Item(NthOrFirst(ips, i), NthOrFirst(ports, i), NthOrFirst(Column(els, "stamp"), i), Missing, Missing)
           items == [i \in 1..n |-> item(i)]
<1>1. Len(ips) \in Nat /\ Len(ports) \in Nat
  <2>1. \A e \in Element : e["ip"] \in Ips \cup {Missing} /\ e["port"] \in StatedPorts \cup {Missing}
    BY DEF Element
  <2>2. ips \in Seq(Ips \cup {Missing})
    BY <2>1, ColumnOf
  <2>3. ports \in Seq(StatedPorts \cup {Missing})
    BY <2>1, ColumnOf
  <2> QED BY <2>2, <2>3, LenProperties
<1>2. n \in Nat /\ n >= Len(ips)
  BY <1>1
<1>3. ASSUME NEW i \in 1..n PROVE item(i) \in Items
  <2>1. i \in Nat \ {0}
    BY <1>2
  <2> QED BY <2>1, NthItem
<1> HIDE DEF n, item
<1>4. items \in Seq(Items) /\ DOMAIN items = 1..n /\ \A i \in 1..n : items[i] = item(i)
  BY <1>2, <1>3
<1>5. AcnsItems(els) = Added(items)
  BY DEF AcnsItems, n, item
<1> HIDE DEF items
<1>6. AcnsItems(els) \in Seq(Asking)
  BY <1>4, <1>5, CompleteIsAdded DEF Asking
<1>7. ASSUME NEW k \in DOMAIN els, \A i \in 1..k : States(els[i]), Readable(els[k])
      PROVE  AsksFor(AcnsItems(els), els[k])
  <2>1. k \in Nat \ {0} /\ k <= Len(els)
    BY LenProperties
  <2>2. /\ Complete(item(k)) /\ item(k).ip = els[k].ip /\ item(k).port = els[k].port
        /\ item(k).when = ToStored(els[k].stamp) /\ Len(ips) >= k
    BY <1>7, <2>1, NthItem DEF item
  <2>3. k \in 1..n
    BY <1>1, <1>2, <2>1, <2>2
  <2> QED BY <1>4, <1>5, <2>2, <2>3, AddedAsks
<1> QED BY <1>6, <1>7

LEMMA FirstAsks ==
  ASSUME NEW els \in Seq(Element)
  PROVE  /\ KeyValueItems(els) \in Seq(Asking)
         /\ els # <<>> /\ Readable(els[1]) => AsksFor(KeyValueItems(els), els[1])
<1> DEFINE dip == NthOrFirst(Column(els, "dip"), 1)
           dport == NthOrFirst(Column(els, "dport"), 1)
           item == Item(NthOrFirst(Column(els, "ip"), 1), NthOrFirst(Column(els, "port"), 1),
                        NthOrFirst(Column(els, "stamp"), 1), dip, dport)
<1>1. dip \in DestIps \cup {Missing} /\ dport \in DestPorts \cup {Missing}
  <2>1. \A e \in Element : e["dip"] \in DestIps \cup {Missing} /\ e["dport"] \in DestPorts \cup {Missing}
    BY DEF Element
  <2>2. Column(els, "dip") \in Seq(DestIps \cup {Missing}) /\ Column(els, "dport") \in Seq(DestPorts \cup {Missing})
    BY <2>1, ColumnOf
  <2>3. dip \in DestIps \cup {Missing}
    BY <2>2, NthOfColumn
  <2>4. dport \in DestPorts \cup {Missing}
    BY <2>2, NthOfColumn
  <2> QED BY <2>3, <2>4
<1> HIDE DEF dip, dport
<1>2. item \in Items
  BY <1>1, NthItem
<1>3. KeyValueItems(els) = Added(<<item>>)
  BY DEF KeyValueItems, dip, dport
<1>4. ASSUME els # <<>>, Readable(els[1])
      PROVE  Complete(item) /\ item.ip = els[1].ip /\ item.port = els[1].port /\ item.when = ToStored(els[1].stamp)
  <2>1. 1 <= Len(els) /\ 1 \in Nat \ {0}
    BY <1>4, EmptySeq, LenProperties
  <2>2. \A i \in 1..1 : States(els[i])
    BY <1>4 DEF Readable
  <2> QED BY <1>1, <1>4, <2>1, <2>2, NthItem
<1> HIDE DEF item
<1>5. <<item>> \in Seq(Items) /\ DOMAIN <<item>> = {1} /\ <<item>>[1] = item
  BY <1>2
<1>6. KeyValueItems(els) \in Seq(Asking)
  BY <1>3, <1>5, CompleteIsAdded DEF Asking
<1>7. ASSUME els # <<>>, Readable(els[1]) PROVE AsksFor(KeyValueItems(els), els[1])
  BY <1>3, <1>4, <1>5, <1>7, AddedAsks
<1> QED BY <1>6, <1>7

LEMMA JoinedAsk ==
  ASSUME NEW s \in Seq(Asking), NEW t \in Seq(Asking)
  PROVE  /\ s \o t \in Seq(Asking)
         /\ \A e : AsksFor(s, e) \/ AsksFor(t, e) => AsksFor(s \o t, e)
<1>1. s \o t \in Seq(Asking)
  BY Joined
<1>2. ASSUME NEW e, AsksFor(s, e) PROVE AsksFor(s \o t, e)
  <2>1. PICK j \in 1..Len(s) : s[j].ip = e.ip /\ s[j].port = e.port /\ s[j].when = ToStored(e.stamp)
    BY <1>2, LenProperties DEF AsksFor
  <2>2. (s \o t)[j] = s[j] /\ j \in DOMAIN (s \o t)
    BY Joined, LenProperties
  <2>3. PICK u : u = s \o t
    OBVIOUS
  <2> QED BY <2>1, <2>2, <2>3 DEF AsksFor
<1>3. ASSUME NEW e, AsksFor(t, e) PROVE AsksFor(s \o t, e)
  <2>1. PICK j \in 1..Len(t) : t[j].ip = e.ip /\ t[j].port = e.port /\ t[j].when = ToStored(e.stamp)
    BY <1>3, LenProperties DEF AsksFor
  <2>2. (s \o t)[Len(s) + j] = t[j] /\ Len(s) + j \in DOMAIN (s \o t)
    BY Joined, LenProperties
  <2>3. PICK u, m : u = s \o t /\ m = Len(s) + j
    OBVIOUS
  <2> QED BY <2>1, <2>2, <2>3 DEF AsksFor
<1> QED BY <1>1, <1>2, <1>3

(* What the patterns of whole texts and whole lines find.                              *)
Found(text) ==
  LineItems(text.tcpdump) \o AcnsItems(text.acns) \o LineItems(text.netflow)
  \o KeyValueItems(text.keyvalue) \o KeyValueItems(text.incident)

LEMMA FoundAsks ==
  ASSUME NEW text \in Request
  PROVE  /\ Found(text) \in Seq(Asking)
         /\ \A e \in Range(text.tcpdump) \cup Range(text.netflow) : Readable(e) => AsksFor(Found(text), e)
         /\ \A k \in DOMAIN text.acns : (\A i \in 1..k : States(text.acns[i])) /\ Readable(text.acns[k]) =>
              AsksFor(Found(text), text.acns[k])
         /\ \A els \in {text.keyvalue, text.incident} : els # <<>> /\ Readable(els[1]) => AsksFor(Found(text), els[1])
<1> DEFINE a == LineItems(text.tcpdump)
           b == AcnsItems(text.acns)
           c == LineItems(text.netflow)
           d == KeyValueItems(text.keyvalue)
           f == KeyValueItems(text.incident)
<1>1. /\ text.tcpdump \in Seq(Element) /\ text.acns \in Seq(Element) /\ text.netflow \in Seq(Element)
      /\ text.keyvalue \in Seq(Element) /\ text.incident \in Seq(Element)
  BY DEF Request
<1>2. a \in Seq(Asking) /\ \A e \in Range(text.tcpdump) : Readable(e) => AsksFor(a, e)
  BY <1>1, LinesAsk
<1>3. /\ b \in Seq(Asking)
      /\ \A k \in DOMAIN text.acns : (\A i \in 1..k : States(text.acns[i])) /\ Readable(text.acns[k]) =>
           AsksFor(b, text.acns[k])
  BY <1>1, ColumnsAsk
<1>4. c \in Seq(Asking) /\ \A e \in Range(text.netflow) : Readable(e) => AsksFor(c, e)
  BY <1>1, LinesAsk
<1>5. d \in Seq(Asking) /\ (text.keyvalue # <<>> /\ Readable(text.keyvalue[1]) => AsksFor(d, text.keyvalue[1]))
  BY <1>1, FirstAsks
<1>6. f \in Seq(Asking) /\ (text.incident # <<>> /\ Readable(text.incident[1]) => AsksFor(f, text.incident[1]))
  BY <1>1, FirstAsks
<1>7. Found(text) = a \o b \o c \o d \o f
  BY DEF Found
<1> HIDE DEF a, b, c, d, f
<1>8. a \o b \in Seq(Asking) /\ \A e : AsksFor(a, e) \/ AsksFor(b, e) => AsksFor(a \o b, e)
  BY <1>2, <1>3, JoinedAsk
<1>9. a \o b \o c \in Seq(Asking) /\ \A e : AsksFor(a \o b, e) \/ AsksFor(c, e) => AsksFor(a \o b \o c, e)
  BY <1>4, <1>8, JoinedAsk
<1>10. a \o b \o c \o d \in Seq(Asking) /\ \A e : AsksFor(a \o b \o c, e) \/ AsksFor(d, e) => AsksFor(a \o b \o c \o d, e)
  BY <1>5, <1>9, JoinedAsk
<1>11. /\ Found(text) \in Seq(Asking)
       /\ \A e : AsksFor(a \o b \o c \o d, e) \/ AsksFor(f, e) => AsksFor(Found(text), e)
  BY <1>6, <1>7, <1>10, JoinedAsk
<1>12. \A e : AsksFor(a, e) \/ AsksFor(b, e) \/ AsksFor(c, e) \/ AsksFor(d, e) \/ AsksFor(f, e) => AsksFor(Found(text), e)
  BY <1>8, <1>9, <1>10, <1>11
<1> QED BY <1>2, <1>3, <1>4, <1>5, <1>6, <1>11, <1>12

(* The items parsed ask for all that items found ask for.                              *)
LEMMA UniqueAsk ==
  ASSUME NEW items \in Seq(Asking)
  PROVE  /\ Unique(items) \in Seq(Asking)
         /\ \A e : AsksFor(items, e) => AsksFor(Unique(items), e)
         /\ items = <<>> <=> Unique(items) = <<>>
<1>0. PICK u : u = Unique(items)
  OBVIOUS
<1>1. /\ u \in Seq(Asking)
      /\ items = <<>> => u = <<>>
      /\ \A i \in DOMAIN items : \E j \in DOMAIN u : SameRequest(u[j], items[i])
  BY <1>0, RequestStays
<1>2. ASSUME NEW e, AsksFor(items, e) PROVE AsksFor(u, e)
  <2>1. PICK i \in DOMAIN items :
          items[i].ip = e.ip /\ items[i].port = e.port /\ items[i].when = ToStored(e.stamp)
    BY <1>2 DEF AsksFor
  <2>2. PICK j \in DOMAIN u : SameRequest(u[j], items[i])
    BY <1>1
  <2> QED BY <2>1, <2>2 DEF SameRequest, AsksFor
<1>3. ASSUME items # <<>> PROVE u # <<>>
  <2>1. 1 \in DOMAIN items
    BY <1>3, EmptySeq, LenProperties
  <2>2. PICK j : j \in DOMAIN u
    BY <1>1, <2>1
  <2> QED BY <2>2
<1>4. /\ u \in Seq(Asking)
      /\ \A e : AsksFor(items, e) => AsksFor(u, e)
      /\ items = <<>> <=> u = <<>>
  BY <1>1, <1>2, <1>3
<1> QED BY <1>0, <1>4

(* A text's evidence is what its items ask for.                                        *)
LEMMA EvidenceIsParsed ==
  ASSUME NEW text \in Request
  PROVE  /\ Parse(text) \in Seq(Asking)
         /\ \A e \in Evidence(text) : AsksFor(Parse(text), e) /\ e \in Element /\ Readable(e)
<1> DEFINE items == IF Found(text) = <<>> THEN LineItems(text.plain) ELSE Found(text)
           bare == [text EXCEPT !.plain = <<>>]
<1>1. Parse(text) = Unique(items)
  BY DEF Parse, Found, Unique
<1>2. text.plain \in Seq(Element)
  BY DEF Request
<1>3. Found(text) \in Seq(Asking) /\ LineItems(text.plain) \in Seq(Asking)
  BY <1>2, FoundAsks, LinesAsk
<1>4. items \in Seq(Asking)
  BY <1>3
<1>5. Parse(text) \in Seq(Asking) /\ \A e : AsksFor(items, e) => AsksFor(Parse(text), e)
  BY <1>1, <1>4, UniqueAsk
<1>6. Parse(bare) = <<>> <=> Found(text) = <<>>
  <2>1. /\ bare.tcpdump = text.tcpdump /\ bare.acns = text.acns /\ bare.netflow = text.netflow
        /\ bare.keyvalue = text.keyvalue /\ bare.incident = text.incident /\ bare.plain = <<>>
    BY DEF Request
  <2>2. Found(bare) = Found(text)
    BY <2>1 DEF Found
  <2>3. LineItems(<<>>) = <<>>
    BY LinesAsk, EmptySeq
  <2>4. Parse(bare) = Unique(IF Found(bare) = <<>> THEN LineItems(bare.plain) ELSE Found(bare))
    BY DEF Parse, Found, Unique
  <2>5. Parse(bare) = Unique(Found(text))
    BY <2>1, <2>2, <2>3, <2>4
  <2> QED BY <1>3, <2>5, UniqueAsk
<1> HIDE DEF bare
<1>7. CASE Found(text) = <<>>
  <2>1. \A e \in Evidence(text) : e \in Range(text.plain) /\ Readable(e)
    BY <1>6, <1>7 DEF Evidence, bare
  <2>2. \A e \in Range(text.plain) : e \in Element
    BY <1>2, ElementOfSeq, LenProperties DEF Range
  <2> QED BY <1>2, <1>5, <1>7, <2>1, <2>2, LinesAsk
<1>8. CASE Found(text) # <<>>
  <2> SUFFICES ASSUME NEW e \in Evidence(text) PROVE AsksFor(Found(text), e) /\ e \in Element /\ Readable(e)
    BY <1>5, <1>8
  <2>1. \/ e \in Range(text.tcpdump) \cup Range(text.netflow) /\ Readable(e)
        \/ \E k \in DOMAIN text.acns : e = text.acns[k] /\ (\A i \in 1..k : States(text.acns[i])) /\ Readable(text.acns[k])
        \/ \E els \in {text.keyvalue, text.incident} : els # <<>> /\ Readable(els[1]) /\ e = els[1]
    BY <1>6, <1>8 DEF Evidence, bare
  <2>2. AsksFor(Found(text), e) /\ Readable(e)
    BY <2>1, FoundAsks
  <2>3. e \in Element
    <3>1. /\ text.tcpdump \in Seq(Element) /\ text.acns \in Seq(Element) /\ text.netflow \in Seq(Element)
          /\ text.keyvalue \in Seq(Element) /\ text.incident \in Seq(Element)
      BY DEF Request
    <3>2. CASE e \in Range(text.tcpdump) \cup Range(text.netflow)
      BY <3>1, <3>2, ElementOfSeq, LenProperties DEF Range
    <3>3. CASE \E k \in DOMAIN text.acns : e = text.acns[k]
      BY <3>1, <3>3, ElementOfSeq, LenProperties
    <3>4. CASE \E els \in {text.keyvalue, text.incident} : els # <<>> /\ e = els[1]
      BY <3>1, <3>4, ElementOfSeq, EmptySeq, LenProperties
    <3> QED BY <2>1, <3>2, <3>3, <3>4
  <2> QED BY <2>2, <2>3
<1> QED BY <1>7, <1>8

(* Whatever is pasted, each piece of evidence it states is looked up, and whoever     *)
(* held its address and port at its time is in the answer, if the text states no      *)
(* offset or the clock of his NAS is UTC, as the parser takes log_time to be.         *)
THEOREM PastedAnswersNameHolder == LeaSpec => []PastedHolderNamed
<1>1. ASSUME LeaTypeOK, NEW n \in DOMAIN Texts, NEW e \in EvidenceOf[n]
      PROVE  \E k \in DOMAIN Parsed[n] : \A a \in PasteRequest(n)[k] : NamesHolder(a, e.ip, e.port, e.stamp)
  <2>1. Texts[n] \in Request
    BY LeaAssumption, ElementOfSeq, LenProperties
  <2>2. Parsed[n] = Parse(Texts[n]) /\ EvidenceOf[n] = Evidence(Texts[n])
    BY DEF Parsed, EvidenceOf
  <2>3. AsksFor(Parsed[n], e) /\ e \in Element /\ Readable(e)
    BY <1>1, <2>1, <2>2, EvidenceIsParsed
  <2>4. PICK k \in DOMAIN Parsed[n] :
          Parsed[n][k].ip = e.ip /\ Parsed[n][k].port = e.port /\ Parsed[n][k].when = ToStored(e.stamp)
    BY <2>3 DEF AsksFor
  <2>5. e.stamp \in FoundStamps /\ e.stamp.wall \in Int
    BY <2>3 DEF Element, Readable, States, FoundStamps
  <2>6. e.stamp \in StampType
    BY <2>5 DEF FoundStamps, StampType
  <2>7. ToStored(e.stamp) = Moment("paste", e.stamp)
    <3>1. FormZone["paste"] = 0 /\ e.stamp.wall # Missing
      BY <2>5, RequestAssumption DEF FormZone
    <3>2. e.stamp.offset # Missing => e.stamp.offset \in Int
      BY <2>5 DEF FoundStamps
    <3> QED BY <2>5, <3>1, <3>2 DEF ToStored, Moment
  <2>8. SUFFICES ASSUME NEW a \in PasteRequest(n)[k] PROVE NamesHolder(a, e.ip, e.port, e.stamp)
    BY <2>4
  <2>9. PICK it : it = Parsed[n][k]
    OBVIOUS
  <2>10. PICK q : /\ a \in Answers("paste", q)
                  /\ q.ip = it.ip /\ q.port = it.port /\ q.t = it.when /\ q.w = Window
    BY <2>9 DEF PasteRequest, Question
  <2>11. q.t = Moment("paste", e.stamp) /\ q.w \in Int /\ q.ip = e.ip /\ q.port = e.port
    BY <2>4, <2>7, <2>9, <2>10, LeaAssumption
  <2>12. NamesHolder(a, q.ip, q.port, e.stamp)
    BY <1>1, <2>6, <2>10, <2>11, AnswerNamesHolder DEF Forms
  <2> QED BY <2>11, <2>12
<1>2. LeaTypeOK => PastedHolderNamed
  BY <1>1 DEF PastedHolderNamed
<1> QED BY <1>2, LeaTypeAlways, PTL
=============================================================================
