--------------------------- MODULE JuniperProofs ---------------------------
(* Theorems about NatPba, for any number of subscribers, blocks, lines and   *)
(* events, and any batch size, and about NatTail, for any dates, number of   *)
(* lines and deaths.                                                         *)
EXTENDS NatPba, NatTail, SequenceTheorems, FiniteSetTheorems, TLAPS

-----------------------------------------------------------------------------
(* The sequences a step writes.                                              *)

LEMMA AppendType ==
  ASSUME NEW S, NEW s \in Seq(S), NEW x \in S
  PROVE  /\ Append(s, x) \in Seq(S)
         /\ Len(Append(s, x)) = Len(s) + 1
         /\ DOMAIN Append(s, x) = 1..(Len(s) + 1)
         /\ \A i \in DOMAIN s : Append(s, x)[i] = s[i]
         /\ Append(s, x)[Len(s) + 1] = x
  OBVIOUS

LEMMA ConcatType ==
  ASSUME NEW S, NEW s \in Seq(S), NEW t \in Seq(S)
  PROVE  /\ s \o t \in Seq(S)
         /\ \A i \in DOMAIN s : i \in DOMAIN (s \o t) /\ (s \o t)[i] = s[i]
         /\ \A j \in DOMAIN t : Len(s) + j \in DOMAIN (s \o t) /\ (s \o t)[Len(s) + j] = t[j]
         /\ \A i \in DOMAIN (s \o t) : (\E k \in DOMAIN s : (s \o t)[i] = s[k])
                                       \/ (\E k \in DOMAIN t : (s \o t)[i] = t[k])
<1>1. /\ s \o t \in Seq(S)
      /\ Len(s \o t) = Len(s) + Len(t)
      /\ \A i \in 1 .. Len(s) + Len(t) : (s \o t)[i] = IF i <= Len(s) THEN s[i] ELSE t[i - Len(s)]
  BY ConcatProperties
<1>2. Len(s) \in Nat /\ Len(t) \in Nat /\ DOMAIN s = 1..Len(s) /\ DOMAIN t = 1..Len(t)
      /\ DOMAIN (s \o t) = 1..(Len(s) + Len(t))
  BY <1>1, LenProperties
<1>3. \A j \in 1..Len(t) : (s \o t)[Len(s) + j] = t[j]
  <2> TAKE j \in 1..Len(t)
  <2>1. Len(s) + j \in 1..(Len(s) + Len(t)) /\ ~(Len(s) + j <= Len(s)) /\ Len(s) + j - Len(s) = j
    BY <1>2
  <2> QED BY <1>1, <2>1
<1>4. ASSUME NEW i \in 1..(Len(s) + Len(t))
      PROVE  (\E k \in DOMAIN s : (s \o t)[i] = s[k]) \/ (\E k \in DOMAIN t : (s \o t)[i] = t[k])
  <2>1. CASE i <= Len(s)
    BY <1>1, <1>2, <2>1
  <2>2. CASE ~(i <= Len(s))
    <3>1. i - Len(s) \in DOMAIN t
      BY <1>2, <2>2
    <3> QED BY <1>1, <2>2, <3>1
  <2> QED BY <2>1, <2>2
<1>5. \A i \in DOMAIN s : i \in DOMAIN (s \o t) /\ (s \o t)[i] = s[i]
  <2> TAKE i \in DOMAIN s
  <2>1. i \in 1..(Len(s) + Len(t)) /\ i <= Len(s)
    BY <1>2
  <2> QED BY <1>1, <1>2, <2>1
<1>6. \A j \in DOMAIN t : Len(s) + j \in DOMAIN (s \o t)
  BY <1>2
<1> QED BY <1>1, <1>2, <1>3, <1>4, <1>5, <1>6

LEMMA TailType ==
  ASSUME NEW S, NEW s \in Seq(S), s # <<>>
  PROVE  /\ Tail(s) \in Seq(S)
         /\ \A i \in DOMAIN Tail(s) : i + 1 \in DOMAIN s /\ Tail(s)[i] = s[i + 1]
<1>1. /\ Tail(s) \in Seq(S) /\ Len(Tail(s)) = Len(s) - 1
      /\ \A i \in 1 .. Len(Tail(s)) : Tail(s)[i] = s[i+1]
  BY HeadTailProperties
<1> QED BY <1>1, LenProperties

LEMMA RowsType ==
  ASSUME NEW buf \in Seq(Id)
  PROVE  /\ Rows(buf) \in Seq(Row)
         /\ DOMAIN Rows(buf) = DOMAIN buf
         /\ \A i \in DOMAIN buf : Rows(buf)[i].line = buf[i]
<1>1. DOMAIN buf = 1..Len(buf) /\ Len(buf) \in Nat
  BY LenProperties
<1>2. \A i \in DOMAIN buf : [line |-> buf[i], release |-> Null] \in Row
  BY <1>1, ElementOfSeq DEF Row
<1>3. Rows(buf) \in [1..Len(buf) -> Row]
  BY <1>1, <1>2 DEF Rows
<1> QED BY <1>1, <1>3, SeqDef DEF Rows

-----------------------------------------------------------------------------
(* Types.                                                                     *)

(* The release to be recorded is that of the line last read.                  *)
ReleaseWasRead == \A i \in DOMAIN todo : todo[i] = "release" => next \in 1..Len(lines)

(* A flush under way is the first task.                                       *)
FlushIsFirst == pc \in {"inserted", "committed"} => todo # <<>> /\ Head(todo) \in {"nat", "flow"}

TypeInv == TypeOK /\ ReleaseWasRead /\ FlushIsFirst

LEMMA TypeInvInit == Init => TypeInv
<1> SUFFICES ASSUME Init PROVE TypeInv
  OBVIOUS
<1>1. /\ lines \in Seq(Line) /\ todo \in Seq(Tasks)
      /\ natBuf \in Seq(Id) /\ flowBuf \in Seq(Id)
      /\ natLogs \in Seq(Row) /\ flowLogs \in Seq(Id)
  BY EmptySeq DEF Init
<1>2. Len(lines) = 0 /\ DOMAIN todo = {}
  BY DEF Init
<1>3. Len(lines) <= MaxLines /\ next \in 0..Len(lines) /\ events \in 0..MaxEvents
  BY <1>2, NatAssumption DEF Init
<1>4. TypeOK
  BY <1>1, <1>3 DEF Init, TypeOK
<1>5. ReleaseWasRead /\ FlushIsFirst
  BY <1>2 DEF Init, ReleaseWasRead, FlushIsFirst
<1> QED BY <1>4, <1>5 DEF TypeInv

(* What the failure of a connection leaves behind.                            *)
LEMMA RaiseTypes ==
  ASSUME TypeInv, Raise, lines' = lines
  PROVE  /\ pc' \in {"down", "read"} /\ conn' = "dead"
         /\ next' \in 0..Len(lines) /\ todo' = <<>>
         /\ natBuf' \in Seq(Id) /\ flowBuf' \in Seq(Id)
         /\ lost' \subseteq Id
<1>1. InBufs \subseteq Id
  BY ElementOfSeq, LenProperties DEF TypeInv, TypeOK, InBufs
<1>2. Len(lines) \in Nat /\ next..Len(lines) \subseteq 0..Len(lines)
  BY DEF TypeInv, TypeOK
<1>3. <<>> \in Seq(Id)
  BY EmptySeq
<1> QED BY <1>1, <1>2, <1>3 DEF TypeInv, TypeOK, Raise, Ends, bufs

(* A task that is done, and the same for whatever leaves the line unchanged.  *)
LEMMA TaskDone ==
  ASSUME TypeInv, todo # <<>>, todo' = Tail(todo), next' = next, lines' = lines
  PROVE  todo' \in Seq(Tasks) /\ ReleaseWasRead'
<1>1. /\ Tail(todo) \in Seq(Tasks)
      /\ \A i \in DOMAIN Tail(todo) : i + 1 \in DOMAIN todo /\ Tail(todo)[i] = todo[i + 1]
  BY TailType DEF TypeInv, TypeOK
<1> QED BY <1>1 DEF TypeInv, ReleaseWasRead

LEMMA TypeInvNext == TypeInv /\ [Next]_vars => TypeInv'
<1> SUFFICES ASSUME TypeInv, [Next]_vars PROVE TypeInv'
  OBVIOUS
<1> USE NatAssumption DEF TypeInv
<1>1. /\ lines \in Seq(Line) /\ Len(lines) \in 0..MaxLines /\ next \in 0..Len(lines)
      /\ natBuf \in Seq(Id) /\ flowBuf \in Seq(Id)
      /\ natLogs \in Seq(Row) /\ flowLogs \in Seq(Id) /\ todo \in Seq(Tasks)
  BY DEF TypeOK
<1>2. InBufs \subseteq Id
  BY <1>1, LenProperties, ElementOfSeq DEF InBufs
<1>3. <<>> \in Seq(Tasks) /\ <<>> \in Seq(Id) /\ DOMAIN <<>> = {}
  BY EmptySeq
<1>4. ASSUME NEW line \in Line, Log(line), holder' \in [Blocks -> Subs \cup {Null}]
      PROVE  TypeInv'
  <2>1. lines' \in Seq(Line) /\ Len(lines') = Len(lines) + 1
    BY <1>1, <1>4, AppendType DEF Log
  <2>2. Len(lines') <= MaxLines /\ next \in 0..Len(lines') /\ 1..Len(lines) \subseteq 1..Len(lines')
    BY <1>1, <1>4, <2>1 DEF Log
  <2> QED BY <1>4, <2>1, <2>2 DEF TypeOK, ReleaseWasRead, FlushIsFirst, Log, bufs, logs, past
<1>5. CASE Router
  <2>1. ASSUME NEW b \in Blocks, NEW s \in Subs, Allocate(s, b) PROVE TypeInv'
    BY <1>4, <2>1 DEF Allocate, TypeOK, Line, Kinds
  <2>2. ASSUME NEW b \in Blocks, Release(b) PROVE TypeInv'
    BY <1>4, <2>2 DEF Release, TypeOK, Line, Kinds
  <2>3. ASSUME NEW b \in Blocks, Interim(b) PROVE TypeInv'
    BY <1>4, <2>3 DEF Interim, TypeOK, Line, Kinds
  <2>4. ASSUME NEW kind \in {"garbled", "flow"}, OtherLine(kind) PROVE TypeInv'
    BY <1>4, <2>4 DEF OtherLine, TypeOK, Line, Kinds
  <2> QED BY <1>5, <2>1, <2>2, <2>3, <2>4 DEF Router
<1>6. CASE DbGoes
  <2>1. events' \in 0..MaxEvents
    BY <1>6 DEF DbGoes, Event, TypeOK
  <2>2. conn' \in {"none", "up", "dead"} /\ (conn' = "up" => dbUp')
    BY <1>6 DEF DbGoes, TypeOK
  <2> QED BY <1>6, <2>1, <2>2 DEF DbGoes, TypeOK, ReleaseWasRead, FlushIsFirst, bufs, logs, past
<1>7. CASE DbReturns
  BY <1>7 DEF DbReturns, TypeOK, ReleaseWasRead, FlushIsFirst, bufs, logs, past
<1>8. CASE Start
  <2>1. next' \in 0..Len(lines)
    BY <1>1, <1>8 DEF Start
  <2>2. next' \in next..Len(lines)
    BY <1>8 DEF Start
  <2>3. next \in 1..Len(lines) => next' \in 1..Len(lines)
    BY <1>1, <2>2
  <2> QED BY <1>8, <2>1, <2>3 DEF Start, Fresh, TypeOK, ReleaseWasRead, FlushIsFirst, env, bufs, logs, past
<1>9. CASE ReadLine
  <2> DEFINE full(buf, task) == IF Len(buf) >= BatchSize THEN <<task>> ELSE <<>>
             kind            == lines[next + 1].kind
             mark            == IF kind = "release" THEN <<"release">> ELSE <<>>
  <2>1. next + 1 \in 1..Len(lines) /\ next + 1 \in Id /\ next' = next + 1
    <3>1. next < Len(lines) /\ next' = next + 1
      BY <1>9 DEF ReadLine
    <3>2. next + 1 \in 1..Len(lines)
      BY <1>1, <3>1
    <3> QED BY <1>1, <3>1, <3>2 DEF Id
  <2>2. Append(natBuf, next + 1) \in Seq(Id) /\ Append(flowBuf, next + 1) \in Seq(Id)
    BY <1>1, <2>1, AppendType
  <2>3. PICK periodic \in {<<>>, <<"nat", "flow">>} :
          \/ /\ flowBuf' = Append(flowBuf, next + 1)
             /\ todo' = full(flowBuf', "flow") \o periodic
             /\ UNCHANGED natBuf
          \/ /\ natBuf' = Append(natBuf, next + 1)
             /\ todo' = full(natBuf', "nat") \o mark \o periodic
             /\ UNCHANGED flowBuf
    BY <1>9 DEF ReadLine
  <2>4. \A buf : full(buf, "flow") \in Seq(Tasks) /\ full(buf, "nat") \in Seq(Tasks)
    <3>1. <<"flow">> \in Seq(Tasks) /\ <<"nat">> \in Seq(Tasks)
      BY DEF Tasks
    <3> QED BY <1>3, <3>1
  <2>5. mark \in Seq(Tasks) /\ periodic \in Seq(Tasks)
    <3>1. <<"release">> \in Seq(Tasks) /\ <<"nat", "flow">> \in Seq(Tasks)
      BY DEF Tasks
    <3> QED BY <1>3, <3>1
  <2>6. todo' \in Seq(Tasks)
    <3> HIDE DEF mark
    <3>1. CASE todo' = full(flowBuf', "flow") \o periodic
      <4>1. full(flowBuf', "flow") \in Seq(Tasks)
        BY <2>4
      <4> HIDE DEF full
      <4> QED BY <2>5, <3>1, <4>1, ConcatProperties
    <3>2. CASE todo' = full(natBuf', "nat") \o mark \o periodic
      <4>1. full(natBuf', "nat") \in Seq(Tasks)
        BY <2>4
      <4> HIDE DEF full
      <4>2. full(natBuf', "nat") \o mark \in Seq(Tasks)
        BY <2>5, <4>1, ConcatProperties
      <4> QED BY <2>5, <3>2, <4>2, ConcatProperties
    <3> QED BY <2>3, <3>1, <3>2
  <2>7. natBuf' \in Seq(Id) /\ flowBuf' \in Seq(Id)
    BY <1>1, <2>2, <2>3
  <2>8. taken' \subseteq Id
    BY <1>9, <2>1 DEF ReadLine, TypeOK
  <2> QED BY <1>9, <2>1, <2>6, <2>7, <2>8 DEF ReadLine, TypeOK, ReleaseWasRead, FlushIsFirst, env, logs
<1>10. CASE EndOfInput
  <2>1. todo' \in Seq(Tasks) /\ \A i \in DOMAIN todo' : todo'[i] # "release"
    BY <1>10 DEF EndOfInput, Tasks
  <2> QED BY <1>10, <2>1 DEF EndOfInput, TypeOK, ReleaseWasRead, FlushIsFirst, env, bufs, logs, past
<1>11. CASE Exit
  <2>1. lost' \subseteq Id
    BY <1>2, <1>11 DEF Exit, Ends, TypeOK
  <2> QED BY <1>3, <1>11, <2>1 DEF Exit, Ends, TypeOK, ReleaseWasRead, FlushIsFirst, env, logs
<1>12. ASSUME Raise, lines' = lines, natLogs' \in Seq(Row), flowLogs' \in Seq(Id),
              UNCHANGED <<holder, mode, taken, interrupted>>,
              dbUp' \in BOOLEAN, events' \in 0..MaxEvents
       PROVE  TypeInv'
  <2>1. /\ pc' \in {"down", "read"} /\ conn' = "dead"
        /\ next' \in 0..Len(lines) /\ todo' = <<>>
        /\ natBuf' \in Seq(Id) /\ flowBuf' \in Seq(Id)
        /\ lost' \subseteq Id
    BY <1>12, RaiseTypes
  <2> QED BY <1>3, <1>12, <2>1 DEF TypeOK, ReleaseWasRead, FlushIsFirst
<1>13. ASSUME NEW task \in {"nat", "flow"}, NEW buf \in Seq(Id), Flush(task, buf) PROVE TypeInv'
  <2>1. todo # <<>>
    BY <1>13 DEF Flush, Doing
  <2>2. ASSUME todo' = Tail(todo), conn' \in {"none", "up", "dead"}, conn' = "up" => dbUp,
               UNCHANGED <<env, mode, pc, next, bufs, logs, past>>
        PROVE  TypeInv'
    <3>1. todo' \in Seq(Tasks) /\ ReleaseWasRead'
      BY <2>1, <2>2, TaskDone DEF env
    <3> QED BY <1>13, <2>2, <3>1 DEF Flush, Doing, TypeOK, FlushIsFirst, env, bufs, logs, past
  <2>3. CASE Raise
    BY <1>12, <1>13, <2>3 DEF Flush, TypeOK, env, logs
  <2>4. CASE pc' = "inserted" /\ conn' = "up" /\ dbUp /\ UNCHANGED <<next, todo, bufs, lost>>
    BY <1>13, <2>4 DEF Flush, Doing, TypeOK, ReleaseWasRead, FlushIsFirst, env, bufs, logs
  <2> QED BY <1>13, <2>2, <2>3, <2>4 DEF Flush, Fresh, Kept, TypeOK, past
<1>14. ASSUME Stored PROVE natLogs' \in Seq(Row) /\ flowLogs' \in Seq(Id)
  <2>1. natLogs \o Rows(natBuf) \in Seq(Row)
    <3>1. Rows(natBuf) \in Seq(Row)
      BY <1>1, RowsType
    <3> QED BY <1>1, <3>1, ConcatProperties
  <2>2. flowLogs \o flowBuf \in Seq(Id)
    BY <1>1, ConcatProperties
  <2> QED BY <1>1, <1>14, <2>1, <2>2 DEF Stored
<1>15. CASE Commit
  <2>1. CASE conn = "up" /\ Stored /\ pc' = "committed" /\ UNCHANGED <<env, next, todo, conn, bufs, lost>>
    BY <1>14, <1>15, <2>1 DEF Commit, TypeOK, ReleaseWasRead, FlushIsFirst, env, bufs
  <2>2. CASE Raise /\ UNCHANGED <<env, logs>>
    BY <1>12, <1>15, <2>2 DEF Commit, TypeOK, env, logs
  <2>3. CASE conn = "up" /\ Event /\ Stored /\ dbUp' = FALSE /\ Raise /\ UNCHANGED <<lines, holder>>
    <3>1. events' \in 0..MaxEvents
      BY <2>3 DEF Event, TypeOK
    <3> QED BY <1>12, <1>14, <1>15, <2>3, <3>1 DEF Commit, TypeOK
  <2> QED BY <1>15, <2>1, <2>2, <2>3 DEF Commit
<1>16. CASE Clear
  <2>1. natBuf' \in Seq(Id) /\ flowBuf' \in Seq(Id)
    BY <1>1, <1>3, <1>16 DEF Clear
  <2>2. todo' \in Seq(Tasks) /\ ReleaseWasRead'
    BY <1>16, TaskDone DEF Clear, env, FlushIsFirst
  <2> QED BY <1>16, <2>1, <2>2 DEF Clear, TypeOK, FlushIsFirst, env, logs, past
<1>17. CASE UpdateRelease
  <2>1. todo # <<>> /\ todo[1] = "release" /\ DOMAIN todo = 1..Len(todo) /\ Len(todo) \in Nat \ {0}
    BY <1>1, <1>17, EmptySeq, LenProperties DEF UpdateRelease, Doing
  <2>2. next \in 1..Len(lines)
    BY <2>1 DEF ReleaseWasRead
  <2>3. ASSUME todo' = Tail(todo), natLogs' \in Seq(Row),
               UNCHANGED <<env, mode, pc, next, conn, bufs, flowLogs, past>>
        PROVE  TypeInv'
    <3>1. todo' \in Seq(Tasks) /\ ReleaseWasRead'
      BY <2>1, <2>3, TaskDone DEF env
    <3> QED BY <1>17, <2>3, <3>1 DEF UpdateRelease, Doing, TypeOK, FlushIsFirst, env, bufs, past
  <2>4. ASSUME NEW i \in Latest(Unreleased(next)), natLogs' = [natLogs EXCEPT ![i].release = next]
        PROVE  natLogs' \in Seq(Row)
    <3>1. i \in 1..Len(natLogs) /\ natLogs[i] \in Row
      BY <1>1, LenProperties, ElementOfSeq DEF Latest, Unreleased
    <3>2. [natLogs[i] EXCEPT !.release = next] \in Row
      <4>1. next \in Id
        BY <1>1, <2>2 DEF Id
      <4> QED BY <3>1, <4>1 DEF Row
    <3>3. natLogs' = [natLogs EXCEPT ![i] = [natLogs[i] EXCEPT !.release = next]]
      BY <2>4
    <3> QED BY <1>1, <3>1, <3>2, <3>3, ExceptSeq
  <2>5. CASE Raise /\ UNCHANGED natLogs
    BY <1>12, <1>17, <2>5 DEF UpdateRelease, TypeOK, env
  <2> QED BY <1>1, <1>17, <2>3, <2>4, <2>5 DEF UpdateRelease, past
<1>18. CASE Signal
  <2>1. \A rows \in {<<>>, Rows(natBuf), Rows(natBuf) \o Rows(natBuf)} : natLogs \o rows \in Seq(Row)
    <3>1. Rows(natBuf) \in Seq(Row)
      BY <1>1, RowsType
    <3>2. Rows(natBuf) \o Rows(natBuf) \in Seq(Row)
      BY <3>1, ConcatProperties
    <3>3. <<>> \in Seq(Row)
      BY EmptySeq
    <3> QED BY <1>1, <3>1, <3>2, <3>3, ConcatProperties
  <2>2. natLogs' \in Seq(Row)
    BY <1>1, <1>18, <2>1 DEF Signal, logs
  <2>3. flowLogs' \in Seq(Id)
    <3>1. flowBuf \o flowBuf \in Seq(Id)
      BY <1>1, ConcatProperties
    <3>2. \A rows \in {flowBuf, flowBuf \o flowBuf} : flowLogs \o rows \in Seq(Id)
      BY <1>1, <3>1, ConcatProperties
    <3> QED BY <1>1, <1>18, <3>2 DEF Signal, logs
  <2>4. events' \in 0..MaxEvents
    BY <1>18 DEF Signal, Event, TypeOK
  <2>5. lost' \subseteq Id
    BY <1>2, <1>18 DEF Signal, TypeOK
  <2>6. interrupted' \in BOOLEAN
    BY <1>18 DEF Signal, TypeOK
  <2>7. /\ pc' = "down" /\ todo' = <<>> /\ natBuf' = <<>> /\ flowBuf' = <<>>
        /\ UNCHANGED <<lines, holder, dbUp, mode, next, conn, taken>>
    BY <1>18 DEF Signal
  <2> QED BY <1>3, <2>2, <2>3, <2>4, <2>5, <2>6, <2>7 DEF TypeOK, ReleaseWasRead, FlushIsFirst
<1>19. CASE Kill
  <2>1. events' \in 0..MaxEvents
    BY <1>19 DEF Kill, Event, TypeOK
  <2>2. lost' \subseteq Id
    BY <1>2, <1>19 DEF Kill, Ends, TypeOK
  <2> QED BY <1>3, <1>19, <2>1, <2>2 DEF Kill, Ends, TypeOK, ReleaseWasRead, FlushIsFirst, logs
<1>20. CASE UNCHANGED vars
  BY <1>20 DEF vars, TypeOK, ReleaseWasRead, FlushIsFirst, env, bufs, logs, past
<1> QED
  BY <1>1, <1>5, <1>6, <1>7, <1>8, <1>9, <1>10, <1>11, <1>13, <1>15, <1>16, <1>17, <1>18, <1>19, <1>20
     DEF Next, Parser

LEMMA TypeInvariance == Spec => []TypeInv
  BY TypeInvInit, TypeInvNext, PTL DEF Spec

(* Every variable keeps its type; in particular what is stored is rows with the  *)
(* number of a line that was logged.                                              *)
THEOREM TypeCorrect == Spec => []TypeOK
<1>1. TypeInv => TypeOK
  BY DEF TypeInv
<1> QED BY <1>1, TypeInvariance, PTL

-----------------------------------------------------------------------------
(* Stored rows stay.                                                             *)

RowsStay ==
  /\ \A i \in DOMAIN natLogs :
       /\ i \in DOMAIN natLogs' /\ natLogs'[i].line = natLogs[i].line
       /\ natLogs[i].release # Null => natLogs'[i].release = natLogs[i].release
  /\ \A i \in DOMAIN flowLogs : i \in DOMAIN flowLogs' /\ flowLogs'[i] = flowLogs[i]

LEMMA StoredAtTheEnd ==
  ASSUME TypeInv, NEW rows \in Seq(Row), NEW flows \in Seq(Id),
         natLogs' = natLogs \o rows, flowLogs' = flowLogs \o flows
  PROVE  RowsStay
<1>1. natLogs \in Seq(Row) /\ flowLogs \in Seq(Id)
  BY DEF TypeInv, TypeOK
<1>2. \A i \in DOMAIN natLogs : i \in DOMAIN natLogs' /\ natLogs'[i] = natLogs[i]
  BY <1>1, ConcatType
<1>3. \A i \in DOMAIN flowLogs : i \in DOMAIN flowLogs' /\ flowLogs'[i] = flowLogs[i]
  BY <1>1, ConcatType
<1> QED BY <1>2, <1>3 DEF RowsStay

LEMMA StepKeepsRows == TypeInv /\ [Next]_vars => RowsStay
<1> SUFFICES ASSUME TypeInv, [Next]_vars PROVE RowsStay
  OBVIOUS
<1>1. /\ natBuf \in Seq(Id) /\ flowBuf \in Seq(Id)
      /\ natLogs \in Seq(Row) /\ flowLogs \in Seq(Id)
      /\ Rows(natBuf) \in Seq(Row)
      /\ <<>> \in Seq(Row) /\ <<>> \in Seq(Id)
  BY RowsType, EmptySeq DEF TypeInv, TypeOK
<1>2. natLogs \o <<>> = natLogs /\ flowLogs \o <<>> = flowLogs
  BY <1>1, ConcatEmptySeq
<1>3. CASE UNCHANGED logs
  BY <1>3 DEF RowsStay, logs
<1>4. ASSUME Stored PROVE RowsStay
  BY <1>1, <1>2, <1>4, StoredAtTheEnd DEF Stored
<1>5. CASE UpdateRelease
  <2>1. ASSUME NEW i \in Latest(Unreleased(next)), natLogs' = [natLogs EXCEPT ![i].release = next]
        PROVE  \A j \in DOMAIN natLogs :
                 /\ j \in DOMAIN natLogs' /\ natLogs'[j].line = natLogs[j].line
                 /\ natLogs[j].release # Null => natLogs'[j].release = natLogs[j].release
    <3>1. i \in DOMAIN natLogs /\ natLogs[i].release = Null
      BY DEF Latest, Unreleased
    <3> TAKE j \in DOMAIN natLogs
    <3>2. natLogs[j] \in Row
      BY <1>1, LenProperties, ElementOfSeq
    <3>3. CASE j = i
      BY <2>1, <3>1, <3>2, <3>3 DEF Row
    <3>4. CASE j # i
      BY <2>1, <3>1, <3>4
    <3> QED BY <3>3, <3>4
  <2>2. UNCHANGED flowLogs
    BY <1>5 DEF UpdateRelease
  <2>3. CASE UNCHANGED natLogs
    BY <1>3, <2>2, <2>3 DEF logs
  <2> QED BY <1>5, <2>1, <2>2, <2>3 DEF UpdateRelease, RowsStay
<1>6. CASE Signal
  <2>1. CASE UNCHANGED logs
    BY <1>3, <2>1
  <2>2. CASE ~ UNCHANGED logs
    <3>1. PICK rows \in {<<>>, Rows(natBuf), Rows(natBuf) \o Rows(natBuf)} : natLogs' = natLogs \o rows
      BY <1>6, <2>2 DEF Signal
    <3>2. PICK flows \in {flowBuf, flowBuf \o flowBuf} : flowLogs' = flowLogs \o flows
      BY <1>6, <2>2 DEF Signal
    <3>3. rows \in Seq(Row) /\ flows \in Seq(Id)
      BY <1>1, ConcatProperties
    <3> QED BY <3>1, <3>2, <3>3, StoredAtTheEnd
  <2> QED BY <2>1, <2>2
<1>7. CASE Commit
  BY <1>3, <1>4, <1>7 DEF Commit, logs
<1>8. CASE Router
  BY <1>3, <1>8 DEF Router, Allocate, Release, Interim, OtherLine, Log
<1> QED
  BY <1>3, <1>4, <1>5, <1>6, <1>7, <1>8
     DEF Next, Parser, DbGoes, DbReturns, Start, ReadLine, EndOfInput, Exit, Flush, Clear, Kill,
         vars, logs

(* What is stored is evidence: no flush, retry, release or signal handler removes *)
(* a row, and a release time once set is not changed.                             *)
THEOREM EvidenceIsKept == Spec => EvidenceKept
  BY TypeInvariance, StepKeepsRows, PTL DEF Spec, EvidenceKept, RowsStay

-----------------------------------------------------------------------------
(* Nothing is dropped.                                                            *)

(* Between commit and clear() the buffer's records are in the table already.      *)
CommittedIsStored ==
  pc = "committed" =>
    /\ Head(todo) = "nat" => {natBuf[i] : i \in DOMAIN natBuf} \subseteq NatIds
    /\ Head(todo) = "flow" => {flowBuf[i] : i \in DOMAIN flowBuf} \subseteq FlowIds

DropInv == NothingDropped /\ CommittedIsStored

LEMMA RowsStayNumbers ==
  ASSUME RowsStay
  PROVE  NatIds \subseteq NatIds' /\ FlowIds \subseteq FlowIds'
  BY DEF RowsStay, NatIds, FlowIds

(* What Stored puts into the table is what is in the buffer.                      *)
LEMMA StoredNumbers ==
  ASSUME TypeInv, Stored
  PROVE  /\ Head(todo) = "nat" => {natBuf[i] : i \in DOMAIN natBuf} \subseteq NatIds'
         /\ Head(todo) # "nat" => {flowBuf[i] : i \in DOMAIN flowBuf} \subseteq FlowIds'
<1>1. /\ natBuf \in Seq(Id) /\ flowBuf \in Seq(Id)
      /\ natLogs \in Seq(Row) /\ flowLogs \in Seq(Id)
      /\ Rows(natBuf) \in Seq(Row) /\ DOMAIN Rows(natBuf) = DOMAIN natBuf
      /\ \A i \in DOMAIN natBuf : Rows(natBuf)[i].line = natBuf[i]
  BY RowsType DEF TypeInv, TypeOK
<1>2. ASSUME Head(todo) = "nat", NEW i \in DOMAIN natBuf PROVE natBuf[i] \in NatIds'
  <2>1. natLogs' = natLogs \o Rows(natBuf)
    BY <1>2 DEF Stored
  <2>2. Len(natLogs) + i \in DOMAIN natLogs' /\ natLogs'[Len(natLogs) + i] = Rows(natBuf)[i]
    BY <1>1, <2>1, ConcatType
  <2> QED BY <1>1, <2>2 DEF NatIds
<1>3. ASSUME Head(todo) # "nat", NEW i \in DOMAIN flowBuf PROVE flowBuf[i] \in FlowIds'
  <2>1. flowLogs' = flowLogs \o flowBuf
    BY <1>3 DEF Stored
  <2>2. Len(flowLogs) + i \in DOMAIN flowLogs' /\ flowLogs'[Len(flowLogs) + i] = flowBuf[i]
    BY <1>1, <2>1, ConcatType
  <2> QED BY <2>2 DEF FlowIds
<1> QED BY <1>2, <1>3

LEMMA DropInvNext == TypeInv /\ DropInv /\ [Next]_vars => DropInv'
<1> SUFFICES ASSUME TypeInv, DropInv, [Next]_vars PROVE DropInv'
  OBVIOUS
<1> USE DEF DropInv, NothingDropped, CommittedIsStored
<1>1. NatIds \subseteq NatIds' /\ FlowIds \subseteq FlowIds'
  BY StepKeepsRows, RowsStayNumbers
<1>2. ASSUME taken' = taken, lost \subseteq lost', InBufs \subseteq InBufs' \cup lost', pc' # "committed"
      PROVE  DropInv'
  BY <1>1, <1>2
<1>3. ASSUME UNCHANGED <<taken, lost, bufs, pc, todo>> PROVE DropInv'
  <2>1. InBufs' = InBufs
    BY <1>3 DEF InBufs, bufs
  <2> QED BY <1>1, <1>3, <2>1 DEF bufs
<1>4. ASSUME Ends PROVE lost \subseteq lost' /\ InBufs \subseteq lost' /\ pc' # "committed"
  BY <1>4 DEF Ends
<1>5. ASSUME Raise, taken' = taken PROVE DropInv'
  <2>1. CASE Ends
    BY <1>2, <1>4, <1>5, <2>1
  <2>2. CASE pc' = "read" /\ UNCHANGED <<bufs, lost>>
    BY <1>2, <1>5, <2>2 DEF InBufs, bufs
  <2> QED BY <1>5, <2>1, <2>2 DEF Raise
<1>6. CASE ReadLine
  <2>1. /\ natBuf \in Seq(Id) /\ flowBuf \in Seq(Id)
        /\ taken' = taken \cup {next + 1} /\ lost' = lost /\ pc' # "committed"
    <3>1. natBuf \in Seq(Id) /\ flowBuf \in Seq(Id)
      BY DEF TypeInv, TypeOK
    <3> QED BY <1>6, <3>1 DEF ReadLine
  <2>2. next + 1 \in Id
    <3>1. next \in 0..Len(lines) /\ Len(lines) \in Nat /\ Len(lines) <= MaxLines /\ next < Len(lines)
      BY <1>6 DEF ReadLine, TypeInv, TypeOK
    <3> QED BY <3>1, NatAssumption DEF Id
  <2>3. InBufs \cup {next + 1} \subseteq InBufs'
    <3>1. CASE flowBuf' = Append(flowBuf, next + 1) /\ natBuf' = natBuf
      BY <2>1, <2>2, <3>1, AppendType DEF InBufs
    <3>2. CASE natBuf' = Append(natBuf, next + 1) /\ flowBuf' = flowBuf
      BY <2>1, <2>2, <3>2, AppendType DEF InBufs
    <3> QED BY <1>6, <3>1, <3>2 DEF ReadLine
  <2> QED BY <1>1, <2>1, <2>3
<1>7. CASE Exit
  BY <1>2, <1>4, <1>7 DEF Exit
<1>8. ASSUME NEW task \in {"nat", "flow"}, NEW buf, Flush(task, buf) PROVE DropInv'
  <2>1. CASE Raise
    BY <1>5, <1>8, <2>1 DEF Flush
  <2>2. CASE pc' # "committed" /\ UNCHANGED <<bufs, lost>>
    BY <1>2, <1>8, <2>2 DEF Flush, InBufs, bufs
  <2> QED BY <1>8, <2>1, <2>2 DEF Flush, Doing, Kept
<1>9. CASE Commit
  <2>1. CASE Raise
    BY <1>5, <1>9, <2>1 DEF Commit
  <2>2. CASE Stored /\ UNCHANGED <<todo, bufs, lost>>
    <3>1. InBufs' = InBufs
      BY <2>2 DEF InBufs, bufs
    <3> QED BY <1>1, <1>9, <2>2, <3>1, StoredNumbers DEF Commit, bufs
  <2> QED BY <1>9, <2>1, <2>2 DEF Commit
<1>10. CASE Clear
  <2>1. Head(todo) \in {"nat", "flow"}
    BY <1>10 DEF Clear, TypeInv, FlushIsFirst
  <2>2. InBufs \subseteq InBufs' \cup NatIds \cup FlowIds
    BY <1>10, <2>1 DEF Clear, InBufs
  <2> QED BY <1>1, <1>10, <2>2 DEF Clear, past
<1>11. CASE UpdateRelease
  <2>1. CASE Raise
    BY <1>5, <1>11, <2>1 DEF UpdateRelease
  <2>2. CASE pc' # "committed" /\ UNCHANGED <<bufs, lost>>
    BY <1>2, <1>11, <2>2 DEF UpdateRelease, InBufs, bufs
  <2> QED BY <1>11, <2>1, <2>2 DEF UpdateRelease, Doing
<1>12. CASE Signal
  BY <1>2, <1>12 DEF Signal
<1>13. CASE Kill
  BY <1>2, <1>4, <1>13 DEF Kill
<1>14. CASE Start
  BY <1>2, <1>14 DEF Start, InBufs, bufs, past
<1>15. CASE EndOfInput
  BY <1>2, <1>15 DEF EndOfInput, InBufs, bufs, past
<1>16. CASE Router
  BY <1>3, <1>16 DEF Router, Allocate, Release, Interim, OtherLine, Log, past
<1> QED
  BY <1>3, <1>6, <1>7, <1>8, <1>9, <1>10, <1>11, <1>12, <1>13, <1>14, <1>15, <1>16
     DEF Next, Parser, DbGoes, DbReturns, vars, past

(* A line that was read is stored or waits in a buffer, unless the process that   *)
(* had it there has ended: outages, refused batches and lost commit answers drop  *)
(* nothing.                                                                        *)
THEOREM NothingIsDropped == Spec => []NothingDropped
<1>1. Init => DropInv
  BY DEF Init, DropInv, NothingDropped, CommittedIsStored
<1>2. DropInv => NothingDropped
  BY DEF DropInv
<1> QED BY <1>1, <1>2, DropInvNext, TypeInvariance, PTL DEF Spec

-----------------------------------------------------------------------------
(* Nothing is stored twice.                                                       *)

Ascending(s) == \A i, j \in DOMAIN s : i < j => s[i] < s[j]

(* What is stored and what waits, each in the order of the lines and none after   *)
(* line n.                                                                        *)
InOrder(stored, buf, n) ==
  /\ Ascending(stored) /\ Ascending(buf)
  /\ \A i \in DOMAIN stored : stored[i] <= n
  /\ \A i \in DOMAIN buf : buf[i] <= n

Precedes(stored, buf) == \A i \in DOMAIN stored, j \in DOMAIN buf : stored[i] < buf[j]

LEMMA Elements ==
  ASSUME NEW S, NEW s \in Seq(S)
  PROVE  /\ DOMAIN s = 1..Len(s) /\ Len(s) \in Nat
         /\ \A i \in DOMAIN s : s[i] \in S
  BY LenProperties, ElementOfSeq

LEMMA IdsAreNumbers == Id \subseteq Nat
  BY NatAssumption DEF Id

LEMMA InOrderLater ==
  ASSUME NEW n \in Nat, NEW m \in Nat, n <= m, NEW stored \in Seq(Id), NEW buf \in Seq(Id),
         InOrder(stored, buf, n)
  PROVE  InOrder(stored, buf, m) /\ InOrder(stored, <<>>, m) /\ Precedes(stored, <<>>)
<1>1. /\ \A i \in DOMAIN stored : stored[i] \in Nat
      /\ \A i \in DOMAIN buf : buf[i] \in Nat
  BY Elements, IdsAreNumbers
<1>2. /\ \A i \in DOMAIN stored : stored[i] <= m
      /\ \A i \in DOMAIN buf : buf[i] <= m
  BY <1>1 DEF InOrder
<1>3. DOMAIN <<>> = {}
  OBVIOUS
<1> QED BY <1>2, <1>3 DEF InOrder, Ascending, Precedes

LEMMA InOrderStored ==
  ASSUME NEW n \in Nat, NEW stored \in Seq(Id), NEW buf \in Seq(Id), InOrder(stored, buf, n),
         Precedes(stored, buf)
  PROVE  InOrder(stored \o buf, buf, n) /\ InOrder(stored \o buf, <<>>, n)
<1> DEFINE all == stored \o buf
<1>1. /\ all \in Seq(Id) /\ Len(all) = Len(stored) + Len(buf)
      /\ \A i \in 1 .. Len(stored) + Len(buf) :
           all[i] = IF i <= Len(stored) THEN stored[i] ELSE buf[i - Len(stored)]
  BY ConcatProperties
<1>2. /\ Len(stored) \in Nat /\ Len(buf) \in Nat /\ DOMAIN stored = 1..Len(stored)
      /\ DOMAIN buf = 1..Len(buf) /\ DOMAIN all = 1..(Len(stored) + Len(buf))
  BY <1>1, LenProperties
<1> HIDE DEF all
<1>3. ASSUME NEW i \in DOMAIN all
      PROVE  \/ i \in DOMAIN stored /\ all[i] = stored[i]
             \/ i - Len(stored) \in DOMAIN buf /\ i > Len(stored) /\ all[i] = buf[i - Len(stored)]
  BY <1>1, <1>2
<1>4. Ascending(all)
  <2> SUFFICES ASSUME NEW i \in DOMAIN all, NEW j \in DOMAIN all, i < j PROVE all[i] < all[j]
    BY DEF Ascending
  <2>1. CASE i \in DOMAIN stored /\ all[i] = stored[i] /\ j \in DOMAIN stored /\ all[j] = stored[j]
    BY <2>1 DEF InOrder, Ascending
  <2>2. CASE /\ i \in DOMAIN stored /\ all[i] = stored[i]
             /\ j - Len(stored) \in DOMAIN buf /\ all[j] = buf[j - Len(stored)]
    BY <2>2 DEF Precedes
  <2>3. CASE i > Len(stored) /\ j \in DOMAIN stored
    BY <1>2, <2>3
  <2>4. CASE /\ i - Len(stored) \in DOMAIN buf /\ all[i] = buf[i - Len(stored)]
             /\ j - Len(stored) \in DOMAIN buf /\ all[j] = buf[j - Len(stored)]
    <3>1. i - Len(stored) < j - Len(stored)
      BY <1>2
    <3> QED BY <2>4, <3>1 DEF InOrder, Ascending
  <2> QED BY <1>3, <2>1, <2>2, <2>3, <2>4
<1>5. \A i \in DOMAIN all : all[i] <= n
  BY <1>3 DEF InOrder
<1>6. DOMAIN <<>> = {}
  OBVIOUS
<1>7. InOrder(all, buf, n) /\ InOrder(all, <<>>, n)
  BY <1>4, <1>5, <1>6 DEF InOrder, Ascending
<1> QED BY <1>7 DEF all

LEMMA InOrderRead ==
  ASSUME NEW n \in Nat, n + 1 \in Id, NEW stored \in Seq(Id), NEW buf \in Seq(Id),
         InOrder(stored, buf, n), Precedes(stored, buf)
  PROVE  InOrder(stored, Append(buf, n + 1), n + 1) /\ Precedes(stored, Append(buf, n + 1))
<1>1. /\ DOMAIN Append(buf, n + 1) = 1..(Len(buf) + 1) /\ Append(buf, n + 1)[Len(buf) + 1] = n + 1
      /\ \A i \in DOMAIN buf : Append(buf, n + 1)[i] = buf[i]
      /\ DOMAIN buf = 1..Len(buf) /\ Len(buf) \in Nat
  BY AppendType, LenProperties
<1>2. /\ \A i \in DOMAIN stored : stored[i] \in Nat /\ stored[i] <= n
      /\ \A i \in DOMAIN buf : buf[i] \in Nat /\ buf[i] <= n
  BY Elements, IdsAreNumbers DEF InOrder
<1>3. /\ \A i \in DOMAIN stored : stored[i] < n + 1 /\ stored[i] <= n + 1
      /\ \A i \in DOMAIN buf : buf[i] < n + 1 /\ buf[i] <= n + 1
  BY <1>2
<1> DEFINE more == Append(buf, n + 1)
<1>4. \A i \in DOMAIN more : (i \in DOMAIN buf /\ more[i] = buf[i]) \/ (i = Len(buf) + 1 /\ more[i] = n + 1)
  BY <1>1
<1>5. \A i, j \in DOMAIN more : i < j => i \in DOMAIN buf
  BY <1>1
<1> HIDE DEF more
<1>6. Ascending(more)
  BY <1>3, <1>4, <1>5 DEF InOrder, Ascending
<1>7. \A i \in DOMAIN more : more[i] <= n + 1
  BY <1>3, <1>4
<1>8. Precedes(stored, more)
  BY <1>3, <1>4 DEF Precedes
<1>9. InOrder(stored, more, n + 1)
  BY <1>3, <1>6, <1>7 DEF InOrder
<1> QED BY <1>8, <1>9 DEF more

(* The line numbers of the rows.                                                  *)
Numbers(rows) == [i \in DOMAIN rows |-> rows[i].line]

LEMMA NumbersType ==
  ASSUME NEW rows \in Seq(Row)
  PROVE  Numbers(rows) \in Seq(Id) /\ DOMAIN Numbers(rows) = DOMAIN rows /\ Len(Numbers(rows)) = Len(rows)
<1>1. DOMAIN rows = 1..Len(rows) /\ Len(rows) \in Nat /\ \A i \in 1..Len(rows) : rows[i].line \in Id
  <2>1. DOMAIN rows = 1..Len(rows) /\ Len(rows) \in Nat /\ \A i \in DOMAIN rows : rows[i] \in Row
    BY Elements
  <2> QED BY <2>1 DEF Row
<1>2. Numbers(rows) = [i \in 1..Len(rows) |-> rows[i].line]
  BY <1>1 DEF Numbers
<1>3. [i \in 1..Len(rows) |-> rows[i].line] \in Seq(Id) /\ Len([i \in 1..Len(rows) |-> rows[i].line]) = Len(rows)
  BY <1>1, IsASeq
<1> QED BY <1>1, <1>2, <1>3

LEMMA NumbersStored ==
  ASSUME NEW rows \in Seq(Row), NEW buf \in Seq(Id)
  PROVE  Numbers(rows \o Rows(buf)) = Numbers(rows) \o buf
<1> DEFINE both == rows \o Rows(buf)
           nums == Numbers(rows) \o buf
<1>1. /\ Rows(buf) \in Seq(Row) /\ DOMAIN Rows(buf) = DOMAIN buf
      /\ \A i \in DOMAIN buf : Rows(buf)[i].line = buf[i]
  BY RowsType
<1>2. /\ Numbers(rows) \in Seq(Id) /\ Len(Numbers(rows)) = Len(rows)
  BY NumbersType
<1>3. /\ Len(rows) \in Nat /\ Len(buf) \in Nat /\ DOMAIN rows = 1..Len(rows) /\ DOMAIN buf = 1..Len(buf)
      /\ Len(Rows(buf)) = Len(buf)
  BY <1>1, LenProperties
<1>4. /\ both \in Seq(Row) /\ Len(both) = Len(rows) + Len(buf)
      /\ \A i \in 1..(Len(rows) + Len(buf)) : both[i] = IF i <= Len(rows) THEN rows[i] ELSE Rows(buf)[i - Len(rows)]
  <2>1. /\ both \in Seq(Row) /\ Len(both) = Len(rows) + Len(Rows(buf))
        /\ \A i \in 1 .. Len(rows) + Len(Rows(buf)) :
             both[i] = IF i <= Len(rows) THEN rows[i] ELSE Rows(buf)[i - Len(rows)]
    BY <1>1, ConcatProperties
  <2> QED BY <1>3, <2>1
<1>5. /\ nums \in Seq(Id) /\ Len(nums) = Len(rows) + Len(buf)
      /\ \A i \in 1..(Len(rows) + Len(buf)) : nums[i] = IF i <= Len(rows) THEN Numbers(rows)[i] ELSE buf[i - Len(rows)]
  <2>1. /\ nums \in Seq(Id) /\ Len(nums) = Len(Numbers(rows)) + Len(buf)
        /\ \A i \in 1 .. Len(Numbers(rows)) + Len(buf) :
             nums[i] = IF i <= Len(Numbers(rows)) THEN Numbers(rows)[i] ELSE buf[i - Len(Numbers(rows))]
    BY <1>2, ConcatProperties
  <2> QED BY <1>2, <2>1
<1>6. Numbers(both) \in Seq(Id) /\ Len(Numbers(both)) = Len(rows) + Len(buf) /\ DOMAIN both = 1..(Len(rows) + Len(buf))
  BY <1>4, NumbersType, LenProperties
<1> HIDE DEF both, nums
<1>7. ASSUME NEW i \in 1..(Len(rows) + Len(buf)) PROVE Numbers(both)[i] = nums[i]
  <2>1. Numbers(both)[i] = both[i].line
    BY <1>6 DEF Numbers
  <2>2. CASE i <= Len(rows)
    <3>1. i \in DOMAIN rows
      BY <1>3, <2>2
    <3>2. Numbers(rows)[i] = rows[i].line
      BY <3>1 DEF Numbers
    <3> QED BY <1>4, <1>5, <2>1, <2>2, <3>2
  <2>3. CASE ~(i <= Len(rows))
    <3>1. i - Len(rows) \in DOMAIN buf
      BY <1>3, <2>3
    <3> QED BY <1>1, <1>4, <1>5, <2>1, <2>3, <3>1
  <2> QED BY <2>2, <2>3
<1>8. Numbers(both) = nums
  BY <1>5, <1>6, <1>7, SeqEqual
<1> QED BY <1>8 DEF both, nums

(* Between commit and clear().                                                    *)
Clearing(task) == pc = "committed" /\ Head(todo) = task

(* What is stored precedes what waits, unless that is what was just stored.       *)
OnceInv ==
  ~interrupted => /\ InOrder(Numbers(natLogs), natBuf, next)
                  /\ InOrder(flowLogs, flowBuf, next)
                  /\ ~Clearing("nat") => Precedes(Numbers(natLogs), natBuf)
                  /\ ~Clearing("flow") => Precedes(flowLogs, flowBuf)

LEMMA RaiseEmpties ==
  ASSUME TypeInv, Raise
  PROVE  /\ natBuf' = <<>> /\ flowBuf' = <<>> /\ pc' # "committed"
         /\ next' \in Nat /\ next <= next'
<1>1. natBuf \in Seq(Id) /\ flowBuf \in Seq(Id) /\ next \in Nat /\ Len(lines) \in Nat
  BY DEF TypeInv, TypeOK
<1>2. CASE Ends /\ UNCHANGED next
  BY <1>1, <1>2 DEF Ends
<1>3. CASE InBufs = {} /\ pc' = "read" /\ next' \in next..Len(lines) /\ UNCHANGED bufs
  <2>1. DOMAIN natBuf = {} /\ DOMAIN flowBuf = {}
    BY <1>3 DEF InBufs
  <2>2. Len(natBuf) = 0 /\ Len(flowBuf) = 0
    BY <1>1, <2>1, Elements
  <2>3. natBuf = <<>> /\ flowBuf = <<>>
    BY <1>1, <2>2, EmptySeq
  <2> QED BY <1>1, <1>3, <2>3 DEF bufs
<1> QED BY <1>2, <1>3 DEF Raise

(* The process ends, or begins the pipe anew, and what was in the buffers is      *)
(* stored or not, but not for the second time.                                    *)
LEMMA EmptiedInOrder ==
  ASSUME TypeInv, OnceInv, ~interrupted, natBuf' = <<>>, flowBuf' = <<>>,
         next' \in Nat, next <= next',
         \/ Numbers(natLogs') = Numbers(natLogs)
         \/ ~Clearing("nat") /\ Numbers(natLogs') = Numbers(natLogs) \o natBuf,
         \/ flowLogs' = flowLogs
         \/ ~Clearing("flow") /\ flowLogs' = flowLogs \o flowBuf
  PROVE  OnceInv'
<1>1. /\ Numbers(natLogs) \in Seq(Id) /\ natBuf \in Seq(Id) /\ flowLogs \in Seq(Id) /\ flowBuf \in Seq(Id)
      /\ next \in Nat /\ <<>> \in Seq(Id)
  BY NumbersType, EmptySeq DEF TypeInv, TypeOK
<1>2. InOrder(Numbers(natLogs'), <<>>, next') /\ Precedes(Numbers(natLogs'), <<>>)
  <2>1. CASE Numbers(natLogs') = Numbers(natLogs)
    BY <1>1, <2>1, InOrderLater DEF OnceInv
  <2>2. CASE ~Clearing("nat") /\ Numbers(natLogs') = Numbers(natLogs) \o natBuf
    <3>1. InOrder(Numbers(natLogs) \o natBuf, <<>>, next) /\ Numbers(natLogs) \o natBuf \in Seq(Id)
      BY <1>1, <2>2, InOrderStored, ConcatProperties DEF OnceInv
    <3> QED BY <1>1, <2>2, <3>1, InOrderLater
  <2> QED BY <2>1, <2>2
<1>3. InOrder(flowLogs', <<>>, next') /\ Precedes(flowLogs', <<>>)
  <2>1. CASE flowLogs' = flowLogs
    BY <1>1, <2>1, InOrderLater DEF OnceInv
  <2>2. CASE ~Clearing("flow") /\ flowLogs' = flowLogs \o flowBuf
    <3>1. InOrder(flowLogs \o flowBuf, <<>>, next) /\ flowLogs \o flowBuf \in Seq(Id)
      BY <1>1, <2>2, InOrderStored, ConcatProperties DEF OnceInv
    <3> QED BY <1>1, <2>2, <3>1, InOrderLater
  <2> QED BY <2>1, <2>2
<1> QED BY <1>2, <1>3 DEF OnceInv

LEMMA StoredInOrder ==
  ASSUME TypeInv, Stored
  PROVE  \/ /\ Head(todo) = "nat"
            /\ Numbers(natLogs') = Numbers(natLogs) \o natBuf /\ UNCHANGED flowLogs
         \/ /\ Head(todo) # "nat"
            /\ flowLogs' = flowLogs \o flowBuf /\ UNCHANGED natLogs
  BY NumbersStored DEF TypeInv, TypeOK, Stored

LEMMA ReleasedInOrder ==
  ASSUME TypeInv, NEW i \in Latest(Unreleased(next)), natLogs' = [natLogs EXCEPT ![i].release = next]
  PROVE  Numbers(natLogs') = Numbers(natLogs)
<1>1. \A j \in DOMAIN natLogs : natLogs[j] \in Row
  BY Elements DEF TypeInv, TypeOK
<1>2. DOMAIN natLogs' = DOMAIN natLogs /\ \A j \in DOMAIN natLogs : natLogs'[j].line = natLogs[j].line
  BY <1>1 DEF Row
<1> QED BY <1>2 DEF Numbers

LEMMA OnceInvNext == TypeInv /\ OnceInv /\ [Next]_vars => OnceInv'
<1> SUFFICES ASSUME TypeInv, OnceInv, [Next]_vars, ~interrupted' PROVE OnceInv'
  BY DEF OnceInv
<1>1. /\ natBuf \in Seq(Id) /\ flowBuf \in Seq(Id) /\ natLogs \in Seq(Row) /\ flowLogs \in Seq(Id)
      /\ Numbers(natLogs) \in Seq(Id) /\ next \in Nat /\ Len(lines) \in Nat /\ todo \in Seq(Tasks)
  BY NumbersType DEF TypeInv, TypeOK
<1>2. ~interrupted
  BY DEF Next, Router, Parser, Allocate, Release, Interim, OtherLine, Log, DbGoes, DbReturns, Start,
         ReadLine, EndOfInput, Exit, Flush, Commit, Clear, UpdateRelease, Signal, Kill, vars, past
<1>3. /\ InOrder(Numbers(natLogs), natBuf, next)
      /\ InOrder(flowLogs, flowBuf, next)
      /\ ~Clearing("nat") => Precedes(Numbers(natLogs), natBuf)
      /\ ~Clearing("flow") => Precedes(flowLogs, flowBuf)
  BY <1>2 DEF OnceInv
<1>4. CASE UNCHANGED <<natLogs, flowLogs, natBuf, flowBuf, next, pc, todo>>
  BY <1>3, <1>4 DEF OnceInv, Clearing
<1>5. ASSUME pc # "committed", UNCHANGED <<flowLogs, natBuf, flowBuf>>, Numbers(natLogs') = Numbers(natLogs),
             next' \in Nat, next <= next'
      PROVE  OnceInv'
  <2>1. Precedes(Numbers(natLogs), natBuf) /\ Precedes(flowLogs, flowBuf)
    BY <1>3, <1>5 DEF Clearing
  <2>2. InOrder(Numbers(natLogs), natBuf, next') /\ InOrder(flowLogs, flowBuf, next')
    BY <1>1, <1>3, <1>5, InOrderLater
  <2> QED BY <1>5, <2>1, <2>2 DEF OnceInv
<1>6. ASSUME Raise, UNCHANGED logs PROVE OnceInv'
  BY <1>2, <1>6, RaiseEmpties, EmptiedInOrder DEF logs
<1>7. CASE Start
  <2>1. next' \in Nat /\ next <= next'
    BY <1>1, <1>7 DEF Start
  <2> QED BY <1>5, <1>7, <2>1 DEF Start, bufs, logs
<1>8. CASE ReadLine
  <2>1. next' = next + 1 /\ next + 1 \in Id /\ next' \in Nat /\ pc = "read" /\ pc' = "read" /\ UNCHANGED logs
    <3>1. next < Len(lines) /\ Len(lines) <= MaxLines /\ MaxLines \in Nat
      BY <1>8, NatAssumption DEF ReadLine, TypeInv, TypeOK
    <3> QED BY <1>1, <1>8, <3>1 DEF ReadLine, Id
  <2>2. Precedes(Numbers(natLogs), natBuf) /\ Precedes(flowLogs, flowBuf)
    BY <1>3, <2>1 DEF Clearing
  <2>3. InOrder(Numbers(natLogs), natBuf, next') /\ InOrder(flowLogs, flowBuf, next')
    <3>1. next <= next + 1
      BY <1>1
    <3> QED BY <1>1, <1>3, <2>1, <3>1, InOrderLater
  <2>4. /\ InOrder(Numbers(natLogs), Append(natBuf, next + 1), next')
        /\ InOrder(flowLogs, Append(flowBuf, next + 1), next')
        /\ Precedes(Numbers(natLogs), Append(natBuf, next + 1))
        /\ Precedes(flowLogs, Append(flowBuf, next + 1))
    BY <1>1, <1>3, <2>1, <2>2, InOrderRead
  <2>5. \/ flowBuf' = Append(flowBuf, next + 1) /\ UNCHANGED natBuf
        \/ natBuf' = Append(natBuf, next + 1) /\ UNCHANGED flowBuf
    BY <1>8 DEF ReadLine
  <2> QED BY <2>1, <2>2, <2>3, <2>4, <2>5 DEF OnceInv, logs
<1>9. CASE Exit
  <2>1. natBuf' = <<>> /\ flowBuf' = <<>> /\ UNCHANGED <<next, logs>>
    BY <1>9 DEF Exit, Ends
  <2> QED BY <1>1, <1>2, <2>1, EmptiedInOrder DEF logs
<1>10. ASSUME NEW task \in {"nat", "flow"}, NEW buf, Flush(task, buf) PROVE OnceInv'
  <2>1. CASE Raise
    BY <1>6, <1>10, <2>1 DEF Flush
  <2>2. CASE UNCHANGED <<bufs, next>>
    BY <1>1, <1>5, <1>10, <2>2 DEF Flush, Doing, bufs, logs
  <2> QED BY <1>10, <2>1, <2>2 DEF Flush, Kept
<1>11. CASE Commit
  <2>1. pc = "inserted" /\ ~Clearing("nat") /\ ~Clearing("flow") /\ Head(todo) \in {"nat", "flow"}
    BY <1>11 DEF Commit, Clearing, TypeInv, FlushIsFirst
  <2>2. CASE Stored /\ pc' = "committed" /\ UNCHANGED <<env, next, todo, conn, bufs, lost>>
    <3>1. /\ InOrder(Numbers(natLogs) \o natBuf, natBuf, next)
          /\ InOrder(flowLogs \o flowBuf, flowBuf, next)
      BY <1>1, <1>3, <2>1, InOrderStored
    <3>2. /\ Head(todo) = "nat" => Clearing("nat")' /\ ~Clearing("flow")'
          /\ Head(todo) = "flow" => Clearing("flow")' /\ ~Clearing("nat")'
      BY <2>2 DEF Clearing
    <3>3. CASE Head(todo) = "nat"
      <4>1. Numbers(natLogs') = Numbers(natLogs) \o natBuf /\ UNCHANGED <<flowLogs, natBuf, flowBuf, next>>
        BY <2>2, <3>3, StoredInOrder DEF bufs
      <4> QED BY <1>3, <2>1, <3>1, <3>2, <3>3, <4>1 DEF OnceInv
    <3>4. CASE Head(todo) = "flow"
      <4>1. flowLogs' = flowLogs \o flowBuf /\ UNCHANGED <<natLogs, natBuf, flowBuf, next>>
        BY <2>2, <3>4, StoredInOrder DEF bufs
      <4> QED BY <1>3, <2>1, <3>1, <3>2, <3>4, <4>1 DEF OnceInv
    <3> QED BY <2>1, <3>3, <3>4
  <2>3. CASE Raise /\ UNCHANGED <<env, logs>>
    BY <1>6, <2>3
  <2>4. CASE Raise /\ Stored
    BY <1>2, <2>1, <2>4, RaiseEmpties, StoredInOrder, EmptiedInOrder
  <2> QED BY <1>11, <2>2, <2>3, <2>4 DEF Commit
<1>12. CASE Clear
  <2>1. pc' = "read" /\ UNCHANGED <<next, natLogs, flowLogs>> /\ Head(todo) \in {"nat", "flow"}
    BY <1>12 DEF Clear, logs, TypeInv, FlushIsFirst
  <2>2. /\ InOrder(Numbers(natLogs), <<>>, next) /\ Precedes(Numbers(natLogs), <<>>)
        /\ InOrder(flowLogs, <<>>, next) /\ Precedes(flowLogs, <<>>)
    BY <1>1, <1>3, InOrderLater
  <2>3. CASE Head(todo) = "nat"
    <3>1. natBuf' = <<>> /\ UNCHANGED flowBuf /\ ~Clearing("flow")
      BY <1>12, <2>1, <2>3 DEF Clear, Clearing
    <3> QED BY <1>3, <2>1, <2>2, <3>1 DEF OnceInv
  <2>4. CASE Head(todo) = "flow"
    <3>1. flowBuf' = <<>> /\ UNCHANGED natBuf /\ ~Clearing("nat")
      BY <1>12, <2>1, <2>4 DEF Clear, Clearing
    <3> QED BY <1>3, <2>1, <2>2, <3>1 DEF OnceInv
  <2> QED BY <2>1, <2>3, <2>4
<1>13. CASE UpdateRelease
  <2>1. CASE Raise /\ UNCHANGED natLogs
    BY <1>6, <1>13, <2>1 DEF UpdateRelease, logs
  <2>2. CASE UNCHANGED <<next, bufs, natLogs>>
    BY <1>1, <1>5, <1>13, <2>2 DEF UpdateRelease, Doing, bufs
  <2>3. CASE /\ \E i \in Latest(Unreleased(next)) : natLogs' = [natLogs EXCEPT ![i].release = next]
             /\ UNCHANGED <<next, bufs>>
    <3>1. Numbers(natLogs') = Numbers(natLogs)
      BY <2>3, ReleasedInOrder
    <3> QED BY <1>1, <1>5, <1>13, <2>3, <3>1 DEF UpdateRelease, Doing, bufs
  <2> QED BY <1>13, <2>1, <2>2, <2>3 DEF UpdateRelease
<1>14. CASE Signal
  <2>1. pc = "read" /\ natBuf' = <<>> /\ flowBuf' = <<>> /\ UNCHANGED next
    BY <1>14 DEF Signal, TypeInv, TypeOK
  <2>2. UNCHANGED logs \/ (natLogs' \in {natLogs \o <<>>, natLogs \o Rows(natBuf)} /\ flowLogs' = flowLogs \o flowBuf)
    BY <1>14, <2>1 DEF Signal
  <2>3. natLogs \o <<>> = natLogs
    BY <1>1, ConcatEmptySeq
  <2>4. Numbers(natLogs') = Numbers(natLogs) \/ Numbers(natLogs') = Numbers(natLogs) \o natBuf
    BY <1>1, <2>2, <2>3, NumbersStored DEF logs
  <2>5. flowLogs' = flowLogs \/ flowLogs' = flowLogs \o flowBuf
    BY <2>2 DEF logs
  <2> QED BY <1>1, <1>2, <2>1, <2>4, <2>5, EmptiedInOrder DEF Clearing
<1>15. CASE Kill
  <2>1. natBuf' = <<>> /\ flowBuf' = <<>> /\ UNCHANGED <<next, logs>>
    BY <1>15 DEF Kill, Ends
  <2> QED BY <1>1, <1>2, <2>1, EmptiedInOrder DEF logs
<1>16. CASE EndOfInput
  BY <1>1, <1>5, <1>16 DEF EndOfInput, bufs, logs
<1>17. CASE Router
  BY <1>4, <1>17 DEF Router, Allocate, Release, Interim, OtherLine, Log, bufs, logs
<1> QED
  BY <1>4, <1>7, <1>8, <1>9, <1>10, <1>11, <1>12, <1>13, <1>14, <1>15, <1>16, <1>17
     DEF Next, Parser, DbGoes, DbReturns, vars, bufs, logs

LEMMA AscendingCounted ==
  ASSUME NEW s \in Seq(Id), Ascending(s)
  PROVE  Cardinality({s[i] : i \in DOMAIN s}) = Len(s)
<1> DEFINE T == {s[i] : i \in DOMAIN s}
<1>1. DOMAIN s = 1..Len(s) /\ Len(s) \in Nat /\ \A i \in DOMAIN s : s[i] \in Nat
  BY Elements, IdsAreNumbers
<1>2. s = [i \in 1..Len(s) |-> s[i]]
  BY <1>1, LenProperties
<1>3. s \in [1..Len(s) -> T]
  BY <1>1, <1>2
<1>4. \A i, j \in 1..Len(s) : s[i] = s[j] => i = j
  <2> SUFFICES ASSUME NEW i \in 1..Len(s), NEW j \in 1..Len(s), s[i] = s[j], i # j PROVE FALSE
    OBVIOUS
  <2>1. i < j \/ j < i
    BY <1>1
  <2>2. s[i] < s[j] \/ s[j] < s[i]
    BY <1>1, <2>1 DEF Ascending
  <2> QED BY <1>1, <2>2
<1>5. \A t \in T : \E i \in 1..Len(s) : s[i] = t
  BY <1>1
<1>6. s \in Bijection(1..Len(s), T)
  BY <1>3, <1>4, <1>5 DEF Bijection, Injection, Surjection, IsInjective
<1> QED BY <1>1, <1>6, FS_CountingElements DEF ExistsBijection

(* As long as no signal comes inside a flush no line is stored twice, whatever    *)
(* commits are lost, batches refused and processes restarted.                     *)
THEOREM NothingStoredTwice == Spec => []StoredOnce
<1>1. Init => OnceInv
  <2> SUFFICES ASSUME Init PROVE OnceInv
    OBVIOUS
  <2>1. natLogs = <<>> /\ natBuf = <<>> /\ flowLogs = <<>> /\ flowBuf = <<>> /\ Numbers(natLogs) = <<>>
    BY DEF Init, Numbers
  <2>2. DOMAIN <<>> = {}
    OBVIOUS
  <2> QED BY <2>1, <2>2 DEF OnceInv, InOrder, Ascending, Precedes
<1>2. ASSUME TypeInv, OnceInv PROVE StoredOnce
  <2> SUFFICES ASSUME ~interrupted PROVE Cardinality(NatIds) = Len(natLogs) /\ Cardinality(FlowIds) = Len(flowLogs)
    BY DEF StoredOnce
  <2>1. natLogs \in Seq(Row) /\ flowLogs \in Seq(Id)
    BY <1>2 DEF TypeInv, TypeOK
  <2>2. Ascending(Numbers(natLogs)) /\ Ascending(flowLogs)
    BY <1>2 DEF OnceInv, InOrder
  <2>3. /\ Numbers(natLogs) \in Seq(Id) /\ Len(Numbers(natLogs)) = Len(natLogs)
        /\ DOMAIN Numbers(natLogs) = DOMAIN natLogs
    BY <2>1, NumbersType
  <2>4. NatIds = {Numbers(natLogs)[i] : i \in DOMAIN Numbers(natLogs)}
    BY <2>3 DEF NatIds, Numbers
  <2> QED BY <2>1, <2>2, <2>3, <2>4, AscendingCounted DEF FlowIds
<1> QED BY <1>1, <1>2, OnceInvNext, TypeInvariance, PTL DEF Spec

-----------------------------------------------------------------------------
(* Who held a block is found.                                                     *)

LEMMA HasGreatest ==
  ASSUME NEW n \in Nat, NEW T, T \subseteq 0..n, T # {}
  PROVE  \E x \in T : \A y \in T : y <= x
<1> DEFINE U == {n - x : x \in T}
           R == {p \in Nat \X Nat : p[1] < p[2]}
<1>1. IsWellFoundedOn(R, Nat)
  BY NatLessThanWellFounded DEF OpToRel
<1>2. U \subseteq Nat /\ U # {}
  <2>1. \A x \in T : x \in 0..n
    OBVIOUS
  <2>2. \A x \in T : n - x \in Nat
    BY <2>1
  <2> QED BY <2>2
<1>3. PICK m \in U : \A k \in U : ~(<<k, m>> \in R)
  <2> HIDE DEF U, R
  <2> QED BY <1>1, <1>2, WFMin
<1>4. PICK x \in T : m = n - x
  BY <1>3
<1>5. ASSUME NEW y \in T PROVE y <= x
  <2>1. n - y \in U /\ n - y \in Nat /\ m \in Nat
    BY <1>2, <1>3
  <2>2. ~(n - y < m)
    BY <1>3, <2>1
  <2>3. x \in 0..n /\ y \in 0..n
    OBVIOUS
  <2> QED BY <1>4, <2>2, <2>3
<1> QED BY <1>5

(* The line is a release of the block.                                            *)
Releases(r, b) == lines[r].kind = "release" /\ lines[r].block = b

Allocation(s, b) == [kind |-> "alloc", sub |-> s, block |-> b]

(* The router knows who holds each block, and names him in each line about it.    *)
RouterInv ==
  \A b \in Blocks, s \in Subs, a \in 1..Len(lines) : lines[a] = Allocation(s, b) =>
    /\ (\A r \in a..Len(lines) : ~Releases(r, b)) => holder[b] = s
    /\ \A x \in a..Len(lines) :
         lines[x].block = b /\ (\A r \in a..(x - 1) : ~Releases(r, b)) => lines[x].sub = s

(* The row's line is read, and so is its release: one of the row's block, after it. *)
RowFits(row, written, n) ==
  /\ row.line <= n
  /\ row.release # Null => /\ row.release \in row.line..n
                           /\ written[row.release].kind = "release"
                           /\ written[row.release].block = written[row.line].block

(* A release is dealt with right after it is read, and its time is given to a row *)
(* it fits.                                                                       *)
ReleaseInv ==
  /\ pc = "down" => todo = <<>>
  /\ \A i \in DOMAIN todo : todo[i] = "release" => lines[next].kind = "release"
  /\ \A i \in DOMAIN natBuf : natBuf[i] <= next
  /\ \A i \in DOMAIN natLogs : RowFits(natLogs[i], lines, next)

HolderInv == TypeInv /\ RouterInv /\ ReleaseInv

LEMMA LinesStay ==
  ASSUME TypeInv, [Next]_vars
  PROVE  /\ Len(lines) \in Nat /\ Len(lines') \in Nat
         /\ UNCHANGED <<lines, holder>> \/ \E line \in Line : Log(line) /\ Router
         /\ \A i \in 1..Len(lines) : i \in 1..Len(lines') /\ lines'[i] = lines[i]
<1>1. lines \in Seq(Line) /\ Len(lines) \in Nat /\ holder \in [Blocks -> Subs \cup {Null}]
  BY DEF TypeInv, TypeOK
<1>2. ASSUME NEW line \in Line, Log(line)
      PROVE  Len(lines') = Len(lines) + 1 /\ \A i \in 1..Len(lines) : lines'[i] = lines[i]
  BY <1>1, <1>2, AppendType DEF Log
<1>3. UNCHANGED <<lines, holder>> \/ \E line \in Line : Log(line) /\ Router
  <2>1. CASE Router
    <3>1. ASSUME NEW b \in Blocks, NEW s \in Subs, Allocate(s, b) PROVE \E line \in Line : Log(line)
      BY <3>1 DEF Allocate, Line, Kinds
    <3>2. ASSUME NEW b \in Blocks, Release(b) \/ Interim(b) PROVE \E line \in Line : Log(line)
      BY <1>1, <3>2 DEF Release, Interim, Line, Kinds
    <3>3. ASSUME NEW kind \in {"garbled", "flow"}, OtherLine(kind) PROVE \E line \in Line : Log(line)
      BY <3>3 DEF OtherLine, Line, Kinds
    <3> QED BY <2>1, <3>1, <3>2, <3>3 DEF Router
  <2> QED
    BY <2>1 DEF Next, Parser, DbGoes, DbReturns, Start, ReadLine, EndOfInput, Exit, Flush, Commit, Clear,
         UpdateRelease, Signal, Kill, vars, env
<1>4. \A i \in 1..Len(lines) : i \in 1..Len(lines') /\ lines'[i] = lines[i]
  <2>1. CASE UNCHANGED <<lines, holder>>
    BY <2>1
  <2>2. CASE \E line \in Line : Log(line)
    <3>1. Len(lines') = Len(lines) + 1 /\ \A i \in 1..Len(lines) : lines'[i] = lines[i]
      BY <1>2, <2>2
    <3>2. \A i \in 1..Len(lines) : i \in 1..(Len(lines) + 1)
      BY <1>1
    <3> QED BY <3>1, <3>2
  <2> QED BY <1>3, <2>1, <2>2
<1>5. Len(lines') \in Nat
  BY <1>1, <1>2, <1>3
<1> QED BY <1>1, <1>3, <1>4, <1>5

LEMMA RouterInvNext ==
  ASSUME TypeInv, RouterInv, [Next]_vars
  PROVE  RouterInv'
<1>1. /\ Len(lines) \in Nat /\ lines \in Seq(Line) /\ holder \in [Blocks -> Subs \cup {Null}]
      /\ Null \notin Subs \cup Blocks \cup Nat
  BY NatAssumption DEF TypeInv, TypeOK
<1>2. CASE UNCHANGED <<lines, holder>>
  BY <1>2 DEF RouterInv, Releases
<1>3. ASSUME NEW line \in Line, Log(line), Router PROVE RouterInv'
  <2> PICK n \in Nat : n = Len(lines)
    BY <1>1
  <2>1. /\ Len(lines') = n + 1 /\ lines'[n + 1] = line
        /\ \A i \in 1..n : lines'[i] = lines[i]
    BY <1>1, <1>3, AppendType DEF Log
  <2>2. \A b \in Blocks, r \in 1..n : Releases(r, b)' <=> Releases(r, b)
    BY <2>1 DEF Releases
  <2>3. ASSUME NEW b \in Blocks
        PROVE  \/ line.block # b /\ holder'[b] = holder[b]
               \/ line.block = b /\ line.kind = "alloc" /\ holder[b] = Null /\ holder'[b] = line.sub
               \/ line.block = b /\ line.kind = "release" /\ line.sub = holder[b]
               \/ line.block = b /\ line.kind = "interim" /\ line.sub = holder[b] /\ holder'[b] = holder[b]
    <3>1. lines' = Append(lines, line)
      BY <1>3 DEF Log
    <3>2. \A other \in Line : lines' = Append(lines, other) => other = line
      BY <1>1, <2>1, AppendType
    <3>3. ASSUME NEW c \in Blocks, NEW s \in Subs, Allocate(s, c) PROVE <2>3!2
      <4>1. Allocation(s, c) \in Line /\ lines' = Append(lines, Allocation(s, c))
        BY <3>3 DEF Allocate, Log, Line, Kinds, Allocation
      <4>2. line = Allocation(s, c)
        BY <3>2, <4>1
      <4> QED BY <1>1, <3>3, <4>2 DEF Allocate, Allocation
    <3>4. ASSUME NEW c \in Blocks, Release(c) PROVE <2>3!2
      <4>1. [kind |-> "release", sub |-> holder[c], block |-> c] \in Line
        BY <1>1 DEF Line, Kinds
      <4>2. line = [kind |-> "release", sub |-> holder[c], block |-> c]
        BY <3>2, <3>4, <4>1 DEF Release, Log
      <4> QED BY <1>1, <3>4, <4>2 DEF Release
    <3>5. ASSUME NEW c \in Blocks, Interim(c) PROVE <2>3!2
      <4>1. [kind |-> "interim", sub |-> holder[c], block |-> c] \in Line
        BY <1>1 DEF Line, Kinds
      <4>2. line = [kind |-> "interim", sub |-> holder[c], block |-> c]
        BY <3>2, <3>5, <4>1 DEF Interim, Log
      <4> QED BY <1>1, <3>5, <4>2 DEF Interim
    <3>6. ASSUME NEW kind \in {"garbled", "flow"}, OtherLine(kind) PROVE <2>3!2
      <4>1. [kind |-> kind, sub |-> Null, block |-> Null] \in Line
        BY DEF Line, Kinds
      <4>2. line = [kind |-> kind, sub |-> Null, block |-> Null]
        BY <3>2, <3>6, <4>1 DEF OtherLine, Log
      <4>3. line.block # b
        BY <1>1, <4>2
      <4> QED BY <3>6, <4>3 DEF OtherLine
    <3> QED BY <1>3, <3>3, <3>4, <3>5, <3>6 DEF Router
  <2> SUFFICES ASSUME NEW b \in Blocks, NEW s \in Subs, NEW a \in 1..Len(lines'), lines'[a] = Allocation(s, b)
               PROVE  /\ (\A r \in a..Len(lines') : ~Releases(r, b)') => holder'[b] = s
                      /\ \A x \in a..Len(lines') :
                           lines'[x].block = b /\ (\A r \in a..(x - 1) : ~Releases(r, b)') => lines'[x].sub = s
    BY Zenon DEF RouterInv
  <2>4. n \in Nat /\ s # Null /\ a \in 1..(n + 1)
    BY <1>1, <2>1
  <2>5. (\A r \in a..n : ~Releases(r, b)') => a = n + 1 \/ holder[b] = s
    <3> SUFFICES ASSUME a # n + 1, \A r \in a..n : ~Releases(r, b)' PROVE holder[b] = s
      OBVIOUS
    <3>1. a \in 1..n /\ lines[a] = Allocation(s, b)
      BY <2>1, <2>4
    <3>2. \A r \in a..n : r \in 1..n
      BY <2>4
    <3>3. \A r \in a..n : ~Releases(r, b)
      BY <2>2, <3>2
    <3> QED BY <3>1, <3>3 DEF RouterInv
  <2>6. a = n + 1 => line.block = b /\ line.kind = "alloc" /\ line.sub = s
    BY <2>1 DEF Allocation
  <2>7. ASSUME \A r \in a..(n + 1) : ~Releases(r, b)' PROVE holder'[b] = s
    <3>1. /\ \A r \in a..n : r \in a..(n + 1)
          /\ n + 1 \in a..(n + 1)
      BY <2>4
    <3>2. (\A r \in a..n : ~Releases(r, b)') /\ ~Releases(n + 1, b)'
      BY <2>7, <3>1
    <3>3. ~(line.block = b /\ line.kind = "release")
      BY <2>1, <3>2 DEF Releases
    <3> QED BY <2>3, <2>4, <2>5, <2>6, <3>2, <3>3
  <2>8. ASSUME NEW x \in a..(n + 1), lines'[x].block = b, \A r \in a..(x - 1) : ~Releases(r, b)'
        PROVE  lines'[x].sub = s
    <3>1. CASE x = n + 1
      <4>1. \A r \in a..n : ~Releases(r, b)'
        <5>1. x - 1 = n
          BY <2>4, <3>1
        <5> QED BY <2>8, <5>1
      <4> QED BY <2>1, <2>3, <2>4, <2>5, <2>6, <2>8, <3>1, <4>1
    <3>2. CASE x # n + 1
      <4>1. a \in 1..n /\ x \in a..n /\ x \in 1..n /\ \A r \in a..(x - 1) : r \in 1..n
        BY <2>4, <3>2
      <4>2. lines[a] = Allocation(s, b) /\ lines[x].block = b /\ lines'[x] = lines[x]
        BY <2>1, <2>8, <4>1
      <4>3. \A r \in a..(x - 1) : ~Releases(r, b)
        BY <2>2, <2>8, <4>1
      <4>4. lines[x].sub = s
        BY <4>1, <4>2, <4>3 DEF RouterInv
      <4> QED BY <4>2, <4>4
    <3> QED BY <3>1, <3>2
  <2> QED BY <2>1, <2>7, <2>8
<1> QED BY <1>2, <1>3, LinesStay

LEMMA FitsStill ==
  ASSUME TypeInv, [Next]_vars, next' \in Nat, next <= next', NEW row \in Row, RowFits(row, lines, next)
  PROVE  RowFits(row, lines', next')
<1>1. /\ next \in Nat /\ Len(lines) \in Nat /\ next <= Len(lines) /\ row.line \in Nat \ {0}
      /\ row.release \in Nat \cup {Null}
  <2>1. next \in 0..Len(lines) /\ Len(lines) \in Nat
    BY DEF TypeInv, TypeOK
  <2>2. row.line \in Id /\ row.release \in Id \cup {Null}
    BY DEF Row
  <2>3. Id \subseteq Nat \ {0}
    BY NatAssumption DEF Id
  <2>4. next \in Nat /\ next <= Len(lines)
    BY <2>1
  <2>5. row.line \in Nat \ {0} /\ row.release \in Nat \cup {Null}
    BY <2>2, <2>3, Zenon
  <2> QED BY <2>1, <2>4, <2>5
<1>2. row.line <= next'
  BY <1>1 DEF RowFits
<1>3. CASE row.release # Null
  <2>1. row.release \in row.line..next /\ row.release \in row.line..next'
    BY <1>1, <1>3 DEF RowFits
  <2>2. row.release \in 1..Len(lines) /\ row.line \in 1..Len(lines)
    BY <1>1, <2>1
  <2>3. lines'[row.release] = lines[row.release] /\ lines'[row.line] = lines[row.line]
    BY <2>2, LinesStay
  <2> QED BY <1>2, <1>3, <2>1, <2>3 DEF RowFits
<1> QED BY <1>2, <1>3 DEF RowFits

LEMMA FreshRowsFit ==
  ASSUME TypeInv, ReleaseInv
  PROVE  /\ Rows(natBuf) \in Seq(Row)
         /\ \A k \in DOMAIN Rows(natBuf) : RowFits(Rows(natBuf)[k], lines, next)
<1>1. natBuf \in Seq(Id)
  BY DEF TypeInv, TypeOK
<1>2. \A k \in DOMAIN Rows(natBuf) : /\ k \in DOMAIN natBuf /\ Rows(natBuf)[k].line = natBuf[k]
                                     /\ Rows(natBuf)[k].release = Null
  BY DEF Rows
<1> QED BY <1>1, <1>2, RowsType DEF ReleaseInv, RowFits

LEMMA ConcatWithin ==
  ASSUME NEW S, NEW s \in Seq(S), NEW t \in Seq(S), NEW G,
         \A k \in DOMAIN s : s[k] \in G, \A k \in DOMAIN t : t[k] \in G
  PROVE  \A i \in DOMAIN (s \o t) : (s \o t)[i] \in G
  BY ConcatType

LEMMA RowsAddedFit ==
  ASSUME TypeInv, ReleaseInv, [Next]_vars, next' \in Nat, next <= next',
         NEW rows \in Seq(Row), \A k \in DOMAIN rows : RowFits(rows[k], lines, next),
         natLogs' = natLogs \o rows
  PROVE  \A i \in DOMAIN natLogs' : RowFits(natLogs'[i], lines', next')
<1> DEFINE Fitting == {row \in Row : RowFits(row, lines, next)}
<1>1. natLogs \in Seq(Row) /\ rows \in Seq(Row)
  BY DEF TypeInv, TypeOK
<1>2. (\A i \in DOMAIN natLogs : natLogs[i] \in Fitting) /\ (\A k \in DOMAIN rows : rows[k] \in Fitting)
  BY <1>1, Elements DEF ReleaseInv
<1>3. \A i \in DOMAIN natLogs' : natLogs'[i] \in Fitting
  <2> HIDE DEF Fitting
  <2> QED BY <1>1, <1>2, ConcatWithin
<1> QED BY <1>3, FitsStill

LEMMA ReleaseInvNext ==
  ASSUME TypeInv, ReleaseInv, [Next]_vars
  PROVE  ReleaseInv'
<1>1. /\ natLogs \in Seq(Row) /\ natBuf \in Seq(Id) /\ next \in Nat /\ Len(lines) \in Nat /\ next <= Len(lines)
      /\ todo \in Seq(Tasks)
      /\ \A i \in DOMAIN natLogs : natLogs[i] \in Row
      /\ \A i \in DOMAIN natBuf : natBuf[i] \in Nat
  <2>1. /\ natLogs \in Seq(Row) /\ natBuf \in Seq(Id) /\ next \in 0..Len(lines) /\ Len(lines) \in Nat
        /\ todo \in Seq(Tasks)
    BY DEF TypeInv, TypeOK
  <2>2. /\ \A i \in DOMAIN natLogs : natLogs[i] \in Row
        /\ \A i \in DOMAIN natBuf : natBuf[i] \in Id
    BY <2>1, Elements
  <2>3. \A i \in DOMAIN natBuf : natBuf[i] \in Nat
    BY <2>2, IdsAreNumbers, Zenon
  <2>4. next \in Nat /\ next <= Len(lines)
    BY <2>1
  <2> QED BY <2>1, <2>2, <2>3, <2>4, Zenon
<1>2. DOMAIN <<>> = {}
  OBVIOUS
<1>3. pc' = "down" => todo' = <<>>
  BY DEF ReleaseInv, Next, Router, Parser, Allocate, Release, Interim, OtherLine, Log, DbGoes, DbReturns,
         Start, ReadLine, EndOfInput, Exit, Ends, Flush, Raise, Doing, Commit, Clear, UpdateRelease, Signal,
         Kill, vars
<1>4. next' \in Nat /\ next <= next'
  <2>1. CASE Raise
    BY <2>1, RaiseEmpties
  <2>2. CASE next' \in next..Len(lines)
    BY <1>1, <2>2
  <2>3. CASE next' = next + 1
    BY <1>1, <2>3
  <2>4. CASE next' = next
    BY <1>1, <2>4
  <2> QED
    BY <2>1, <2>2, <2>3, <2>4
       DEF Next, Router, Parser, Allocate, Release, Interim, OtherLine, Log, DbGoes, DbReturns, Start,
           ReadLine, EndOfInput, Exit, Flush, Commit, Clear, UpdateRelease, Signal, Kill, vars
<1>5. \A i \in DOMAIN todo' : todo'[i] = "release" => lines'[next'].kind = "release"
  <2> SUFFICES ASSUME NEW i \in DOMAIN todo', todo'[i] = "release" PROVE lines'[next'].kind = "release"
    OBVIOUS
  <2>1. CASE next' = next /\ \E j \in DOMAIN todo : todo[j] = todo'[i]
    <3>1. next \in 1..Len(lines) /\ lines[next].kind = "release"
      BY <2>1 DEF ReleaseInv, TypeInv, ReleaseWasRead
    <3> QED BY <2>1, <3>1, LinesStay
  <2>2. CASE todo' = todo /\ next' = next
    BY <2>1, <2>2
  <2>3. CASE todo # <<>> /\ todo' = Tail(todo) /\ next' = next
    BY <1>1, <2>1, <2>3, TailType
  <2>4. CASE todo' = <<>>
    BY <1>2, <2>4
  <2>5. CASE EndOfInput
    <3>1. todo' = <<"nat", "flow", "exit">>
      BY <2>5 DEF EndOfInput
    <3> QED BY <3>1
  <2>6. CASE ReadLine
    <3>1. next' = next + 1 /\ lines' = lines
      BY <2>6 DEF ReadLine, env
    <3>2. PICK one \in {<<>>, <<"flow">>, <<"nat">>}, mark \in {<<>>, <<"release">>},
               periodic \in {<<>>, <<"nat", "flow">>} :
            /\ todo' = one \o mark \o periodic
            /\ mark # <<>> => lines[next + 1].kind = "release"
      <4> DEFINE full(buf, task) == IF Len(buf) >= BatchSize THEN <<task>> ELSE <<>>
                 kind == lines[next + 1].kind
                 flagged == IF kind = "release" THEN <<"release">> ELSE <<>>
      <4>1. PICK periodic \in {<<>>, <<"nat", "flow">>} :
              \/ todo' = full(flowBuf', "flow") \o periodic
              \/ todo' = full(natBuf', "nat") \o flagged \o periodic
        BY <2>6 DEF ReadLine
      <4>2. CASE todo' = full(flowBuf', "flow") \o periodic
        <5>1. full(flowBuf', "flow") \in {<<>>, <<"flow">>} /\ <<>> \o periodic = periodic
              /\ full(flowBuf', "flow") \o <<>> = full(flowBuf', "flow")
          OBVIOUS
        <5> HIDE DEF full
        <5> QED BY <4>2, <5>1
      <4>3. CASE todo' = full(natBuf', "nat") \o flagged \o periodic
        <5>1. full(natBuf', "nat") \in {<<>>, <<"nat">>}
          OBVIOUS
        <5>2. flagged \in {<<>>, <<"release">>} /\ (flagged # <<>> => kind = "release")
          OBVIOUS
        <5> HIDE DEF full, flagged
        <5> QED BY <4>3, <5>1, <5>2
      <4> QED BY <4>1, <4>2, <4>3
    <3>3. CASE mark = <<>>
      <4>1. todo' \in {<<>>, <<"flow">>, <<"nat">>, <<"nat", "flow">>, <<"flow", "nat", "flow">>,
                       <<"nat", "nat", "flow">>}
        BY <3>2, <3>3
      <4> QED BY <4>1
    <3> QED BY <3>1, <3>2, <3>3
  <2> QED
    BY <2>2, <2>3, <2>4, <2>5, <2>6
       DEF Next, Router, Parser, Allocate, Release, Interim, OtherLine, Log, DbGoes, DbReturns, Start,
           Exit, Ends, Flush, Raise, Doing, Commit, Clear, UpdateRelease, Signal, Kill, vars, ReleaseInv,
           TypeInv, FlushIsFirst
<1>6. \A i \in DOMAIN natBuf' : natBuf'[i] <= next'
  <2>1. CASE natBuf' = natBuf
    BY <1>1, <1>4, <2>1 DEF ReleaseInv
  <2>2. CASE natBuf' = <<>>
    BY <1>2, <2>2
  <2>3. CASE ReadLine /\ natBuf' = Append(natBuf, next + 1)
    <3>1. next' = next + 1 /\ next + 1 \in Id
      <4>1. next < Len(lines) /\ Len(lines) <= MaxLines /\ MaxLines \in Nat
        BY <2>3, NatAssumption DEF ReadLine, TypeInv, TypeOK
      <4> QED BY <1>1, <2>3, <4>1 DEF ReadLine, Id
    <3>2. /\ DOMAIN natBuf' = 1..(Len(natBuf) + 1) /\ natBuf'[Len(natBuf) + 1] = next + 1
          /\ \A i \in DOMAIN natBuf : natBuf'[i] = natBuf[i]
          /\ DOMAIN natBuf = 1..Len(natBuf) /\ Len(natBuf) \in Nat
      BY <1>1, <2>3, <3>1, AppendType, Elements
    <3>3. \A i \in DOMAIN natBuf' : i \in DOMAIN natBuf \/ i = Len(natBuf) + 1
      BY <3>2
    <3>4. \A i \in DOMAIN natBuf : natBuf[i] <= next + 1
      BY <1>1 DEF ReleaseInv
    <3> QED BY <1>1, <3>1, <3>2, <3>3, <3>4
  <2> QED
    BY <2>1, <2>2, <2>3
       DEF Next, Router, Parser, Allocate, Release, Interim, OtherLine, Log, DbGoes, DbReturns, Start,
           ReadLine, EndOfInput, Exit, Ends, Flush, Raise, Kept, Commit, Clear, UpdateRelease, Signal,
           Kill, vars, bufs
<1>7. \A i \in DOMAIN natLogs' : RowFits(natLogs'[i], lines', next')
  <2>1. \A row \in Row : RowFits(row, lines, next) => RowFits(row, lines', next')
    BY <1>4, FitsStill
  <2>2. CASE natLogs' = natLogs
    BY <1>1, <2>1, <2>2 DEF ReleaseInv
  <2>3. \A rows \in Seq(Row) :
          (\A k \in DOMAIN rows : RowFits(rows[k], lines, next)) /\ natLogs' = natLogs \o rows
          => \A i \in DOMAIN natLogs' : RowFits(natLogs'[i], lines', next')
    BY <1>4, RowsAddedFit
  <2>4. CASE UpdateRelease
    <3>1. CASE \E i \in Latest(Unreleased(next)) : natLogs' = [natLogs EXCEPT ![i].release = next]
      <4>1. PICK i \in Latest(Unreleased(next)) : natLogs' = [natLogs EXCEPT ![i].release = next]
        BY <3>1
      <4>2. i \in DOMAIN natLogs /\ lines[natLogs[i].line].block = lines[next].block
        BY DEF Latest, Unreleased
      <4>3. lines[next].kind = "release" /\ next \in 1..Len(lines)
        <5>1. todo # <<>> /\ todo[1] = "release"
          BY <1>1, <2>4, HeadTailProperties DEF UpdateRelease, Doing
        <5>2. 1 \in DOMAIN todo
          BY <1>1, <5>1, EmptySeq, Elements
        <5> QED BY <5>1, <5>2 DEF ReleaseInv, TypeInv, ReleaseWasRead
      <4>4. lines' = lines /\ natLogs[i].line \in Nat /\ natLogs[i].line <= next
        BY <1>1, <2>4, <4>2, IdsAreNumbers DEF UpdateRelease, env, Row, ReleaseInv, RowFits
      <4>5. next \in natLogs[i].line..next
        BY <1>1, <4>4
      <4>6. /\ DOMAIN natLogs' = DOMAIN natLogs
            /\ natLogs'[i].line = natLogs[i].line /\ natLogs'[i].release = next
            /\ \A j \in DOMAIN natLogs : j # i => natLogs'[j] = natLogs[j]
        BY <1>1, <4>1, <4>2 DEF Row
      <4>7. RowFits(natLogs'[i], lines, next)
        BY <4>2, <4>3, <4>4, <4>5, <4>6 DEF RowFits
      <4>8. natLogs'[i] \in Row
        BY TypeInvNext, Elements, <4>2, <4>6 DEF TypeInv, TypeOK
      <4> QED BY <1>1, <2>1, <4>6, <4>7, <4>8 DEF ReleaseInv
    <3> QED BY <2>2, <2>4, <3>1 DEF UpdateRelease
  <2>5. CASE Commit
    <3>1. natLogs' = natLogs \/ natLogs' = natLogs \o Rows(natBuf)
      BY <2>5 DEF Commit, Stored, logs
    <3> QED BY <2>2, <2>3, <3>1, FreshRowsFit
  <2>6. CASE Signal
    <3>1. Rows(natBuf) \in Seq(Row) /\ \A k \in DOMAIN Rows(natBuf) : RowFits(Rows(natBuf)[k], lines, next)
      BY FreshRowsFit
    <3>2. /\ Rows(natBuf) \o Rows(natBuf) \in Seq(Row)
          /\ \A k \in DOMAIN (Rows(natBuf) \o Rows(natBuf)) :
               RowFits((Rows(natBuf) \o Rows(natBuf))[k], lines, next)
      BY <3>1, ConcatType
    <3>3. <<>> \in Seq(Row) /\ \A k \in DOMAIN <<>> : RowFits(<<>>[k], lines, next)
      BY <1>2, EmptySeq
    <3>4. \/ natLogs' = natLogs
          \/ \E rows \in {<<>>, Rows(natBuf), Rows(natBuf) \o Rows(natBuf)} : natLogs' = natLogs \o rows
      BY <2>6 DEF Signal, logs
    <3>5. ASSUME NEW rows \in Seq(Row), \A k \in DOMAIN rows : RowFits(rows[k], lines, next),
                 natLogs' = natLogs \o rows
          PROVE  \A i \in DOMAIN natLogs' : RowFits(natLogs'[i], lines', next')
      BY <2>3, <3>5
    <3>6. CASE natLogs' = natLogs \o <<>>
      BY <3>3, <3>5, <3>6
    <3>7. CASE natLogs' = natLogs \o Rows(natBuf)
      BY <3>1, <3>5, <3>7
    <3>8. CASE natLogs' = natLogs \o (Rows(natBuf) \o Rows(natBuf))
      BY <3>2, <3>5, <3>8
    <3> QED BY <2>2, <3>4, <3>6, <3>7, <3>8
  <2> QED
    BY <2>2, <2>4, <2>5, <2>6
       DEF Next, Router, Parser, Allocate, Release, Interim, OtherLine, Log, DbGoes, DbReturns, Start,
           ReadLine, EndOfInput, Exit, Flush, Clear, Kill, vars, logs
<1> QED BY <1>3, <1>5, <1>6, <1>7 DEF ReleaseInv

LEMMA HolderInvInit == Init => HolderInv
<1> SUFFICES ASSUME Init PROVE HolderInv
  OBVIOUS
<1>1. TypeInv
  BY TypeInvInit
<1>2. Len(<<>>) = 0 /\ DOMAIN <<>> = {}
  OBVIOUS
<1>3. lines = <<>> /\ todo = <<>> /\ natBuf = <<>> /\ natLogs = <<>>
  BY DEF Init
<1>4. RouterInv
  <2>1. 1..Len(lines) = {}
    BY <1>2, <1>3
  <2> QED BY <2>1 DEF RouterInv
<1>5. ReleaseInv
  BY <1>2, <1>3 DEF ReleaseInv
<1> QED BY <1>1, <1>4, <1>5 DEF HolderInv

LEMMA HolderInvInvariant == Spec => []HolderInv
<1>1. Init => HolderInv
  BY HolderInvInit
<1>2. HolderInv /\ [Next]_vars => HolderInv'
  BY TypeInvNext, RouterInvNext, ReleaseInvNext DEF HolderInv
<1> QED BY <1>1, <1>2, PTL DEF Spec

(* A row about the block, of a line since an allocation that is not released before *)
(* t, answers for t: no release can have closed it earlier.                         *)
LEMMA RowsSinceMatch ==
  ASSUME HolderInv, NEW b \in Blocks, NEW t \in 1..Len(lines), NEW a \in 1..t,
         \A r \in a..(t - 1) : ~Releases(r, b),
         NEW i \in DOMAIN natLogs, natLogs[i].line \in a..t, lines[natLogs[i].line].block = b
  PROVE  i \in Matches(b, t)
<1>1. natLogs[i] \in Row /\ RowFits(natLogs[i], lines, next)
  BY Elements DEF HolderInv, TypeInv, TypeOK, ReleaseInv
<1>2. /\ natLogs[i].line \in Nat /\ natLogs[i].release \in Nat \cup {Null}
      /\ Len(lines) \in Nat /\ next \in Nat
  <2>1. natLogs[i].line \in Id /\ natLogs[i].release \in Id \cup {Null}
    BY <1>1 DEF Row
  <2>2. next \in 0..Len(lines) /\ Len(lines) \in Nat
    BY DEF HolderInv, TypeInv, TypeOK
  <2>3. next \in Nat
    BY <2>2
  <2> QED BY <2>1, <2>2, <2>3, IdsAreNumbers, Zenon
<1>3. ASSUME natLogs[i].release # Null PROVE natLogs[i].release >= t
  <2>1. natLogs[i].release \in natLogs[i].line..next /\ Releases(natLogs[i].release, b)
    BY <1>1, <1>3 DEF RowFits, Releases
  <2>2. natLogs[i].release >= a /\ natLogs[i].release \in Nat
    BY <1>2, <1>3, <2>1
  <2>3. natLogs[i].release \notin a..(t - 1)
    BY <2>1
  <2> QED BY <1>2, <2>2, <2>3
<1> QED BY <1>2, <1>3 DEF Matches

LEMMA HolderInvNames == HolderInv => HolderIsNamed
<1> SUFFICES ASSUME HolderInv, NEW b \in Blocks, NEW t \in 1..Len(lines), NEW s \in Subs, HeldAt(s, b, t)
             PROVE  /\ \A i \in DOMAIN natLogs :
                         /\ lines[natLogs[i].line] = Allocation(s, b) /\ natLogs[i].line <= t
                         /\ \A r \in (natLogs[i].line)..(t - 1) : ~Releases(r, b)
                         => i \in Matches(b, t)
                    /\ {id \in 1..t : lines[id].block = b} \subseteq NatIds => Named(b, t) = {s}
  BY DEF HolderIsNamed, Allocation, Releases
<1>1. /\ Len(lines) \in Nat /\ t \in Nat
      /\ \A i \in DOMAIN natLogs : natLogs[i].line \in Nat \ {0}
  <2>1. \A i \in DOMAIN natLogs : natLogs[i] \in Row
    BY Elements DEF HolderInv, TypeInv, TypeOK
  <2>2. Id \subseteq Nat \ {0}
    BY NatAssumption DEF Id
  <2>3. \A i \in DOMAIN natLogs : natLogs[i].line \in Nat \ {0}
    BY <2>1, <2>2 DEF Row
  <2> QED BY <2>3 DEF HolderInv, TypeInv, TypeOK
<1>2. ASSUME NEW i \in DOMAIN natLogs, lines[natLogs[i].line] = Allocation(s, b), natLogs[i].line <= t,
             \A r \in (natLogs[i].line)..(t - 1) : ~Releases(r, b)
      PROVE  i \in Matches(b, t)
  <2>1. natLogs[i].line \in 1..t /\ natLogs[i].line \in (natLogs[i].line)..t
    BY <1>1, <1>2
  <2>2. lines[natLogs[i].line].block = b
    BY <1>2 DEF Allocation
  <2> QED BY <1>2, <2>1, <2>2, RowsSinceMatch
<1>3. ASSUME {id \in 1..t : lines[id].block = b} \subseteq NatIds
      PROVE  Named(b, t) = {s}
  <2>1. PICK a \in 1..t : lines[a] = Allocation(s, b) /\ \A r \in a..(t - 1) : ~Releases(r, b)
    BY DEF HeldAt, Allocation, Releases
  <2>2. PICK i \in DOMAIN natLogs : natLogs[i].line = a
    <3>1. a \in NatIds
      BY <1>3, <2>1 DEF Allocation
    <3> QED BY <3>1 DEF NatIds
  <2>3. i \in Matches(b, t)
    <3>1. natLogs[i].line \in a..t /\ lines[natLogs[i].line].block = b
      BY <1>1, <2>1, <2>2 DEF Allocation
    <3> QED BY <2>1, <3>1, RowsSinceMatch
  <2>4. ASSUME NEW j \in Latest(Matches(b, t)) PROVE lines[natLogs[j].line].sub = s
    <3>1. j \in DOMAIN natLogs /\ lines[natLogs[j].line].block = b /\ natLogs[j].line \in a..t
      BY <1>1, <2>2, <2>3 DEF Latest, Matches
    <3>2. PICK x \in a..t : x = natLogs[j].line
      BY <3>1
    <3>3. x \in a..Len(lines) /\ a \in 1..Len(lines)
      BY <1>1
    <3>4. \A r \in a..(x - 1) : r \in a..(t - 1)
      BY <1>1
    <3>5. lines[x].sub = s
      BY <2>1, <3>1, <3>2, <3>3, <3>4 DEF HolderInv, RouterInv
    <3> QED BY <3>2, <3>5
  <2>5. \E j \in DOMAIN natLogs : j \in Latest(Matches(b, t))
    <3> DEFINE T == {natLogs[j].line : j \in Matches(b, t)}
    <3>1. T \subseteq 0..t
      BY <1>1 DEF Matches
    <3>2. natLogs[i].line \in T
      BY <2>3
    <3>3. PICK x \in T : \A y \in T : y <= x
      <4> HIDE DEF T
      <4> QED BY <1>1, <3>1, <3>2, HasGreatest
    <3>4. PICK m \in Matches(b, t) : natLogs[m].line = x
      BY <3>3
    <3>5. \A j \in Matches(b, t) : natLogs[j].line <= natLogs[m].line
      BY <3>3, <3>4
    <3> QED BY <3>4, <3>5 DEF Latest, Matches
  <2> QED BY <2>4, <2>5 DEF Named
<1> QED BY <1>2, <1>3

(* Whatever was lost, repeated or stored late, a stored allocation answers for all   *)
(* the time it lasted, and where all lines about a block are stored the latest row   *)
(* names who held it (update_release and the query of app.py).                       *)
THEOREM HolderIsFound == Spec => []HolderIsNamed
  BY HolderInvInvariant, HolderInvNames, PTL

-----------------------------------------------------------------------------
(* From a router's line to the parser: nothing twice, nothing out of order.    *)

Printed == [of : Dates, n : Nat, sent : Dates]
Read    == [of : Dates, n : Nat, sent : Dates, read : Dates, by : Int, time : Int \X Int]

TailTypeOK ==
  /\ now \in Dates /\ opened \subseteq Dates
  /\ file \in [Dates -> Seq(Dates)]
  /\ current \in Dates \cup {None} /\ waiting \in Dates \cup {None}
  /\ tail # None => tail \in [of : Dates, at : Nat]
  /\ pipe \in Seq(Printed) /\ parsed \in Seq(Read)
  /\ started # None => started \in Int
  /\ deaths \in Nat

(* The lines that tail has printed, those parsed and those in the pipe after them. *)
Emitted   == 1..(Len(parsed) + Len(pipe))
LineNo(k) == IF k <= Len(parsed) THEN [of |-> parsed[k].of, n |-> parsed[k].n]
             ELSE [of |-> pipe[k - Len(parsed)].of, n |-> pipe[k - Len(parsed)].n]

AtMost(s, t) == s = t \/ Before(s, t)

(* Each was written after the one printed before it, and right after it, if it is   *)
(* of the same day and nothing has died.                                            *)
LinesInOrder ==
  \A k \in Emitted \ {1} :
    /\ Earlier(LineNo(k - 1), LineNo(k))
    /\ deaths = 0 /\ LineNo(k).of = LineNo(k - 1).of => LineNo(k).n = LineNo(k - 1).n + 1

(* All are in the files already, behind where a new tail of the file would begin.   *)
Behind ==
  \A k \in Emitted : LineNo(k).n <= Len(file[LineNo(k).of]) /\ AtMost(LineNo(k).of, now)

(* What the tail prints next comes after them; without a death, right after.        *)
TailIsAhead ==
  tail # None =>
    /\ tail.of = current /\ tail.at <= Len(file[tail.of])
    /\ \A k \in Emitted : LineNo(k).of = tail.of \/ Before(LineNo(k).of, tail.of)
    /\ \A k \in Emitted : LineNo(k).of = tail.of => LineNo(k).n <= tail.at
    /\ deaths = 0 =>
         \A k \in Emitted : k = Len(parsed) + Len(pipe) /\ LineNo(k).of = tail.of => LineNo(k).n = tail.at

(* The file waited for is of a day no earlier than what was printed; without a      *)
(* death, of a later one, since none is followed twice.                             *)
WaitIsAhead ==
  /\ current # None => AtMost(current, now)
  /\ waiting # None =>
       /\ tail = None /\ AtMost(waiting, now)
       /\ \A k \in Emitted : AtMost(LineNo(k).of, waiting)
       /\ deaths = 0 => \A k \in Emitted : LineNo(k).of # waiting
  /\ deaths = 0 => \A k \in Emitted : current # None /\ AtMost(LineNo(k).of, current)

TailInv == TailTypeOK /\ LinesInOrder /\ Behind /\ TailIsAhead /\ WaitIsAhead

LEMMA DatesAreNumbers ==
  ASSUME NEW u \in Dates PROVE Year(u) \in Int /\ Day(u) \in Int /\ u = <<Year(u), Day(u)>>
<1>1. u \in Years \X (1..LastDay)
  BY DEF Dates
<1>2. u[1] \in Years /\ u[2] \in 1..LastDay /\ u = <<u[1], u[2]>>
  BY <1>1
<1>3. Years \subseteq Int /\ LastDay \in Nat
  BY NatTailAssumption
<1>4. u[1] \in Int
  BY <1>2, <1>3
<1>5. u[2] \in Int
  BY <1>2, <1>3
<1> QED BY <1>2, <1>4, <1>5 DEF Year, Day

LEMMA DatesAreOrdered ==
  ASSUME NEW r \in Dates, NEW s \in Dates, NEW t \in Dates
  PROVE  ~Before(s, s) /\ (Before(r, s) /\ Before(s, t) => Before(r, t))
<1>1. \A u \in Dates : Year(u) \in Int /\ Day(u) \in Int
  BY DatesAreNumbers
<1> QED BY <1>1 DEF Before

LEMMA LineNoType ==
  ASSUME TailTypeOK, NEW k \in Emitted
  PROVE  LineNo(k).of \in Dates /\ LineNo(k).n \in Nat /\ k \in Nat
<1>1. /\ parsed \in Seq(Read) /\ pipe \in Seq(Printed) /\ Len(parsed) \in Nat /\ Len(pipe) \in Nat
      /\ DOMAIN parsed = 1..Len(parsed) /\ DOMAIN pipe = 1..Len(pipe)
  BY LenProperties DEF TailTypeOK
<1>2. k \in 1..(Len(parsed) + Len(pipe))
  BY DEF Emitted
<1>3. CASE k <= Len(parsed)
  <2>1. k \in DOMAIN parsed
    BY <1>1, <1>2, <1>3
  <2>2. parsed[k] \in Read
    BY <1>1, <2>1, ElementOfSeq
  <2> QED BY <1>2, <1>3, <2>2 DEF LineNo, Read
<1>4. CASE ~(k <= Len(parsed))
  <2>1. k - Len(parsed) \in DOMAIN pipe
    BY <1>1, <1>2, <1>4
  <2>2. pipe[k - Len(parsed)] \in Printed
    BY <1>1, <2>1, ElementOfSeq
  <2> QED BY <1>1, <1>2, <1>4, <2>2 DEF LineNo, Printed
<1> QED BY <1>3, <1>4

(* What a step that prints nothing leaves of the lines printed.                      *)
PrintedKept == \A k \in Emitted' : k \in Emitted /\ LineNo(k)' = LineNo(k)

LEMMA UntouchedKeeps ==
  ASSUME parsed' = parsed, pipe' = pipe PROVE PrintedKept
BY DEF PrintedKept, Emitted, LineNo

LEMMA DeathKeeps ==
  ASSUME TailTypeOK, parsed' = parsed, pipe' = <<>> PROVE PrintedKept
<1>1. Len(parsed) \in Nat /\ Len(pipe) \in Nat /\ Len(pipe') = 0
  BY LenProperties DEF TailTypeOK
<1> QED BY <1>1 DEF PrintedKept, Emitted, LineNo

LEMMA ParseKeeps ==
  ASSUME TailTypeOK, Parse PROVE PrintedKept
<1>1. /\ parsed \in Seq(Read) /\ pipe \in Seq(Printed) /\ Len(parsed) \in Nat /\ Len(pipe) \in Nat /\ pipe # <<>>
  BY LenProperties DEF TailTypeOK, Parse
<1>2. PICK r : /\ parsed' = Append(parsed, r) /\ r.of = Head(pipe).of /\ r.n = Head(pipe).n
  BY DEF Parse
<1>3. /\ pipe' = Tail(pipe) /\ Len(pipe') = Len(pipe) - 1 /\ Len(pipe) # 0
      /\ \A i \in 1..(Len(pipe) - 1) : pipe'[i] = pipe[i + 1]
  BY <1>1, HeadTailProperties DEF Parse
<1>4. Len(parsed') = Len(parsed) + 1 /\ parsed'[Len(parsed) + 1] = r
      /\ \A i \in 1..Len(parsed) : parsed'[i] = parsed[i]
  BY <1>1, <1>2
<1>5. Head(pipe) = pipe[1]
  BY <1>1
<1>6. SUFFICES ASSUME NEW k \in Emitted' PROVE k \in Emitted /\ LineNo(k)' = LineNo(k)
  BY DEF PrintedKept
<1>7. k \in 1..(Len(parsed) + Len(pipe))
  BY <1>1, <1>3, <1>4 DEF Emitted
<1>8. CASE k <= Len(parsed)
  BY <1>1, <1>4, <1>7, <1>8 DEF Emitted, LineNo
<1>9. CASE k = Len(parsed) + 1
  <2>1. LineNo(k)' = [of |-> r.of, n |-> r.n]
    BY <1>1, <1>4, <1>9 DEF LineNo
  <2>2. LineNo(k) = [of |-> pipe[1].of, n |-> pipe[1].n]
    <3>1. k - Len(parsed) = 1 /\ ~(k <= Len(parsed))
      BY <1>1, <1>9
    <3> QED BY <3>1 DEF LineNo
  <2> QED BY <1>2, <1>5, <1>7, <2>1, <2>2 DEF Emitted
<1>10. CASE k > Len(parsed) + 1
  <2>1. k - Len(parsed') \in 1..(Len(pipe) - 1) /\ k - Len(parsed') + 1 = k - Len(parsed)
        /\ ~(k <= Len(parsed)) /\ ~(k <= Len(parsed'))
    BY <1>1, <1>4, <1>7, <1>10
  <2>2. pipe'[k - Len(parsed')] = pipe[k - Len(parsed)]
    BY <1>3, <2>1
  <2> QED BY <1>7, <2>1, <2>2 DEF Emitted, LineNo
<1> QED BY <1>1, <1>7, <1>8, <1>9, <1>10

LEMMA TailTypeInit == TailInit => TailTypeOK
<1> SUFFICES ASSUME TailInit PROVE TailTypeOK
  OBVIOUS
<1>1. now \in Dates /\ Begin \in Dates /\ started = Year(Begin)
  BY NatTailAssumption DEF TailInit
<1>2. file \in [Dates -> Seq(Dates)]
  BY DEF TailInit
<1>3. pipe \in Seq(Printed) /\ parsed \in Seq(Read)
  BY DEF TailInit
<1>4. started \in Int
  BY <1>1, DatesAreNumbers
<1> QED BY <1>1, <1>2, <1>3, <1>4 DEF TailInit, TailTypeOK

LEMMA TailTypeStep == TailTypeOK /\ [TailNext]_tailVars => TailTypeOK'
<1> SUFFICES ASSUME TailTypeOK, [TailNext]_tailVars PROVE TailTypeOK'
  OBVIOUS
<1>1. CASE Midnight
  BY <1>1 DEF Midnight, TailTypeOK, wrapper, rest
<1>2. CASE OpenFile
  BY <1>2 DEF OpenFile, TailTypeOK, wrapper, rest
<1>3. ASSUME NEW t \in Dates, Receive(t) PROVE TailTypeOK'
  <2>1. file' \in [Dates -> Seq(Dates)]
    <3>1. file[now] \in Seq(Dates)
      BY DEF TailTypeOK
    <3>2. Append(file[now], t) \in Seq(Dates)
      BY <3>1
    <3> QED BY <1>3, <3>2 DEF Receive, TailTypeOK
  <2> QED BY <1>3, <2>1 DEF Receive, TailTypeOK, wrapper
<1>4. CASE Look
  BY <1>4 DEF Look, TailTypeOK, rest
<1>5. CASE Follow
  <2>1. waiting \in Dates /\ file[waiting] \in Seq(Dates)
    BY <1>5 DEF Follow, TailTypeOK
  <2>2. Len(file[waiting]) \in Nat
    BY <2>1, LenProperties
  <2>3. tail' \in [of : Dates, at : Nat] /\ current' \in Dates /\ waiting' = None
    BY <1>5, <2>1, <2>2 DEF Follow
  <2> QED BY <1>5, <2>3 DEF Follow, TailTypeOK, rest
<1>6. CASE TailEmits
  <2>1. CASE started = None
    BY <1>6, <2>1 DEF TailEmits, TailTypeOK, wrapper, rest
  <2>2. CASE started # None
    <3>1. tail.of \in Dates /\ tail.at \in Nat /\ file[tail.of] \in Seq(Dates) /\ tail.at < Len(file[tail.of])
      BY <1>6 DEF TailEmits, TailTypeOK
    <3>2. tail.at + 1 \in DOMAIN file[tail.of]
      BY <3>1, LenProperties
    <3>3. file[tail.of][tail.at + 1] \in Dates
      BY <3>1, <3>2, ElementOfSeq
    <3>4. tail' = [of |-> tail.of, at |-> tail.at + 1]
      BY <1>6, <2>2 DEF TailEmits, TailTypeOK
    <3>5. pipe' = Append(pipe, [of |-> tail.of, n |-> tail.at + 1, sent |-> file[tail.of][tail.at + 1]])
      BY <1>6, <2>2, <3>4 DEF TailEmits
    <3>6. [of |-> tail.of, n |-> tail.at + 1, sent |-> file[tail.of][tail.at + 1]] \in Printed
      BY <3>1, <3>3 DEF Printed
    <3>7. pipe' \in Seq(Printed)
      BY <3>5, <3>6 DEF TailTypeOK
    <3>8. tail' \in [of : Dates, at : Nat]
      BY <3>1, <3>4
    <3> QED BY <1>6, <3>7, <3>8 DEF TailEmits, TailTypeOK, wrapper, rest
  <2> QED BY <2>1, <2>2
<1>7. CASE Parse
  <2>1. pipe # <<>> /\ pipe \in Seq(Printed) /\ parsed \in Seq(Read) /\ started \in Int /\ now \in Dates
    BY <1>7 DEF Parse, TailTypeOK
  <2>2. Head(pipe) \in Printed /\ pipe' \in Seq(Printed)
    BY <1>7, <2>1, HeadTailProperties DEF Parse
  <2> DEFINE l == Head(pipe)
             r == [of |-> l.of, n |-> l.n, sent |-> l.sent, read |-> now, by |-> started, time |-> TimeOf(l.sent)]
  <2>3. l.of \in Dates /\ l.n \in Nat /\ l.sent \in Dates
    BY <2>2 DEF Printed
  <2>4. TimeOf(l.sent) \in Int \X Int
    <3>1. Day(l.sent) \in Int /\ Year(now) \in Int /\ Day(now) \in Int /\ now = <<Year(now), Day(now)>>
      BY <2>1, <2>3, DatesAreNumbers
    <3>2. now \in Int \X Int
      BY <3>1
    <3>3. <<started - 1, Day(l.sent)>> \in Int \X Int /\ <<started, Day(l.sent)>> \in Int \X Int
      BY <2>1, <3>1
    <3> QED BY <3>2, <3>3 DEF TimeOf
  <2>5. r \in Read
    BY <2>1, <2>3, <2>4 DEF Read
  <2>6. parsed' \in Seq(Read)
    <3>1. parsed' = Append(parsed, r)
      BY <1>7 DEF Parse
    <3> HIDE DEF r
    <3> QED BY <2>1, <2>5, <3>1
  <2> QED BY <1>7, <2>2, <2>6 DEF Parse, TailTypeOK, wrapper, rest
<1>8. CASE ParserDies
  BY <1>8 DEF ParserDies, Die, TailTypeOK, wrapper
<1>9. CASE Restart
  <2>1. Year(now) \in Int
    BY DatesAreNumbers DEF TailTypeOK
  <2> QED BY <1>9, <2>1 DEF Restart, Die, TailTypeOK
<1>10. CASE UNCHANGED tailVars
  BY <1>10 DEF tailVars, TailTypeOK, wrapper, rest
<1> QED
  BY <1>1, <1>2, <1>3, <1>4, <1>5, <1>6, <1>7, <1>8, <1>9, <1>10 DEF TailNext, Program

(* Only a tail that a parser reads prints.                                            *)
Prints == TailEmits /\ started # None

LEMMA OthersKeep ==
  ASSUME TailTypeOK, [TailNext]_tailVars, ~Prints
  PROVE  PrintedKept /\ (deaths' = deaths \/ deaths' > 0)
<1>1. CASE Midnight
  BY <1>1, UntouchedKeeps DEF Midnight, rest
<1>2. CASE OpenFile
  BY <1>2, UntouchedKeeps DEF OpenFile, rest
<1>3. ASSUME NEW t \in Dates, Receive(t) PROVE PrintedKept /\ deaths' = deaths
  BY <1>3, UntouchedKeeps DEF Receive
<1>4. CASE Look
  BY <1>4, UntouchedKeeps DEF Look, rest
<1>5. CASE Follow
  BY <1>5, UntouchedKeeps DEF Follow, rest
<1>6. CASE TailEmits
  BY <1>6, UntouchedKeeps DEF TailEmits, Prints, rest
<1>7. CASE Parse
  BY <1>7, ParseKeeps DEF Parse, rest
<1>8. CASE ParserDies
  BY <1>8, DeathKeeps DEF ParserDies, Die, TailTypeOK
<1>9. CASE Restart
  BY <1>9, DeathKeeps DEF Restart, Die, TailTypeOK
<1>10. CASE UNCHANGED tailVars
  BY <1>10, UntouchedKeeps DEF tailVars, rest
<1> QED
  BY <1>1, <1>2, <1>3, <1>4, <1>5, <1>6, <1>7, <1>8, <1>9, <1>10 DEF TailNext, Program

(* The line a tail prints is added after all others.                                 *)
LEMMA PrintsNext ==
  ASSUME TailTypeOK, Prints, NEW last, last = Len(parsed) + Len(pipe)
  PROVE  /\ last \in Nat /\ Emitted' = Emitted \cup {last + 1} /\ Len(parsed') + Len(pipe') = last + 1
         /\ \A k \in Emitted : LineNo(k)' = LineNo(k)
         /\ LineNo(last + 1)' = [of |-> tail.of, n |-> tail.at + 1]
         /\ tail.of \in Dates /\ tail.at \in Nat /\ tail.at < Len(file[tail.of])
         /\ tail' = [of |-> tail.of, at |-> tail.at + 1] /\ tail # None
<1>1. /\ parsed \in Seq(Read) /\ pipe \in Seq(Printed) /\ Len(parsed) \in Nat /\ Len(pipe) \in Nat /\ parsed' = parsed
  BY LenProperties DEF TailTypeOK, Prints, TailEmits
<1>2. /\ tail.of \in Dates /\ tail.at \in Nat /\ tail.at < Len(file[tail.of])
      /\ tail' = [of |-> tail.of, at |-> tail.at + 1] /\ tail # None
  BY DEF Prints, TailEmits, TailTypeOK
<1>3. PICK r : pipe' = Append(pipe, r) /\ r.of = tail.of /\ r.n = tail.at + 1
  BY <1>2 DEF Prints, TailEmits
<1>4. /\ Len(pipe') = Len(pipe) + 1 /\ pipe'[Len(pipe) + 1] = r
      /\ \A i \in 1..Len(pipe) : pipe'[i] = pipe[i]
  BY <1>1, <1>3
<1>5. last \in Nat /\ Len(parsed') + Len(pipe') = last + 1 /\ Emitted' = Emitted \cup {last + 1}
  BY <1>1, <1>4 DEF Emitted
<1>6. ASSUME NEW k \in Emitted PROVE LineNo(k)' = LineNo(k)
  <2>1. k \in Nat /\ k <= Len(parsed) + Len(pipe) /\ 1 <= k
    BY <1>1 DEF Emitted
  <2>2. CASE k <= Len(parsed)
    BY <1>1, <2>2 DEF LineNo
  <2>3. CASE ~(k <= Len(parsed))
    <3>1. k - Len(parsed) \in 1..Len(pipe)
      BY <1>1, <2>1, <2>3
    <3>2. pipe'[k - Len(parsed)] = pipe[k - Len(parsed)]
      BY <1>4, <3>1
    <3> QED BY <1>1, <2>3, <3>2 DEF LineNo
  <2> QED BY <2>2, <2>3
<1>7. LineNo(last + 1)' = [of |-> tail.of, n |-> tail.at + 1]
  <2>1. ~(last + 1 <= Len(parsed)) /\ last + 1 - Len(parsed) = Len(pipe) + 1
    BY <1>1
  <2>2. LineNo(last + 1)' = [of |-> pipe'[Len(pipe) + 1].of, n |-> pipe'[Len(pipe) + 1].n]
    BY <1>1, <2>1 DEF LineNo
  <2> QED BY <1>3, <1>4, <2>2
<1> QED BY <1>2, <1>5, <1>6, <1>7

LEMMA InOrderStep ==
  ASSUME TailInv, [TailNext]_tailVars PROVE LinesInOrder'
<1>1. CASE ~Prints
  <2>1. PrintedKept /\ (deaths' = deaths \/ deaths' > 0)
    BY <1>1, OthersKeep DEF TailInv
  <2>2. ASSUME NEW k \in Emitted' \ {1}
        PROVE  k \in Emitted \ {1} /\ k - 1 \in Emitted' /\ LineNo(k)' = LineNo(k) /\ LineNo(k - 1)' = LineNo(k - 1)
    <3>1. k - 1 \in Emitted'
      BY DEF Emitted
    <3>2. ASSUME NEW j \in Emitted', j = k - 1 PROVE LineNo(k - 1)' = LineNo(k - 1)
      BY <2>1, <3>2 DEF PrintedKept
    <3> QED BY <2>1, <3>1, <3>2 DEF PrintedKept
  <2> QED BY <2>1, <2>2 DEF LinesInOrder, Earlier, TailInv
<1>2. CASE Prints
  <2>0. PICK last : last = Len(parsed) + Len(pipe)
    OBVIOUS
  <2>1. /\ last \in Nat /\ Emitted' = Emitted \cup {last + 1}
        /\ \A k \in Emitted : LineNo(k)' = LineNo(k)
        /\ LineNo(last + 1)' = [of |-> tail.of, n |-> tail.at + 1]
        /\ tail.at \in Nat /\ tail # None /\ deaths' = deaths
    <3>1. deaths' = deaths
      BY <1>2 DEF Prints, TailEmits, rest
    <3> QED BY <1>2, <2>0, <3>1, PrintsNext DEF TailInv
  <2>2. Emitted = 1..last
    BY <2>0 DEF Emitted
  <2>3. ASSUME NEW k \in Emitted \ {1}
        PROVE  /\ Earlier(LineNo(k - 1)', LineNo(k)')
               /\ deaths' = 0 /\ LineNo(k)'.of = LineNo(k - 1)'.of => LineNo(k)'.n = LineNo(k - 1)'.n + 1
    <3>1. k - 1 \in Emitted
      BY <2>1, <2>2
    <3>2. LineNo(k - 1)' = LineNo(k - 1) /\ LineNo(k)' = LineNo(k)
      BY <2>1, <3>1
    <3> QED BY <2>1, <3>2 DEF LinesInOrder, TailInv
  <2>4. ASSUME last \in Emitted
        PROVE  /\ Earlier(LineNo(last)', LineNo(last + 1)')
               /\ deaths' = 0 /\ LineNo(last + 1)'.of = LineNo(last)'.of => LineNo(last + 1)'.n = LineNo(last)'.n + 1
    <3>1. /\ LineNo(last).of = tail.of \/ Before(LineNo(last).of, tail.of)
          /\ LineNo(last).of = tail.of => LineNo(last).n <= tail.at
          /\ deaths = 0 /\ LineNo(last).of = tail.of => LineNo(last).n = tail.at
      BY <2>0, <2>1, <2>4 DEF TailInv, TailIsAhead
    <3>2. LineNo(last).n \in Nat /\ LineNo(last)' = LineNo(last)
      BY <2>1, <2>4, LineNoType DEF TailInv
    <3> QED BY <2>1, <3>1, <3>2 DEF Earlier
  <2>5. ASSUME NEW k \in Emitted' \ {1}
        PROVE  /\ Earlier(LineNo(k - 1)', LineNo(k)')
               /\ deaths' = 0 /\ LineNo(k)'.of = LineNo(k - 1)'.of => LineNo(k)'.n = LineNo(k - 1)'.n + 1
    <3>1. k \in Emitted \ {1} \/ (k = last + 1 /\ k - 1 = last /\ last \in Emitted)
      BY <2>1, <2>2
    <3> QED BY <2>3, <2>4, <3>1
  <2> QED BY <2>5 DEF LinesInOrder
<1> QED BY <1>1, <1>2

(* Files grow, and time goes on.                                                      *)
LEMMA FilesAndTimeGrow ==
  ASSUME TailTypeOK, [TailNext]_tailVars
  PROVE  /\ \A t \in Dates : Len(file[t]) \in Nat /\ Len(file[t])' \in Nat /\ Len(file[t]) <= Len(file[t])'
         /\ AtMost(now, now')
<1>1. \A t \in Dates : file[t] \in Seq(Dates) /\ Len(file[t]) \in Nat
  BY LenProperties DEF TailTypeOK
<1>2. ASSUME NEW s \in Dates, Receive(s), NEW t \in Dates
      PROVE  Len(file'[t]) \in Nat /\ Len(file[t]) <= Len(file'[t])
  <2>1. now \in Dates /\ file' = [file EXCEPT ![now] = Append(@, s)] /\ file \in [Dates -> Seq(Dates)]
    BY <1>2 DEF Receive, TailTypeOK
  <2>2. Len(Append(file[now], s)) = Len(file[now]) + 1
    BY <1>1, <2>1
  <2> QED BY <1>1, <2>1, <2>2
<1>3. \/ file' = file
      \/ \E s \in Dates : Receive(s)
  BY DEF TailNext, Program, Midnight, OpenFile, Look, Follow, TailEmits, Parse, ParserDies, Restart, Die, tailVars
<1>4. now' = now \/ IsNext(now, now')
  BY DEF TailNext, Program, Midnight, OpenFile, Receive, Look, Follow, TailEmits, Parse, ParserDies, Restart, Die, tailVars
<1>5. AtMost(now, now')
  BY <1>4 DEF AtMost, IsNext
<1> QED BY <1>1, <1>2, <1>3, <1>5

LEMMA AtMostIsTransitive ==
  ASSUME NEW r \in Dates, NEW s \in Dates, NEW t \in Dates, AtMost(r, s), AtMost(s, t)
  PROVE  AtMost(r, t)
BY DatesAreOrdered DEF AtMost

LEMMA BehindStep ==
  ASSUME TailInv, TailTypeOK', [TailNext]_tailVars PROVE Behind'
<1>1. now \in Dates /\ now' \in Dates
  BY DEF TailInv, TailTypeOK
<1>2. ASSUME NEW k \in Emitted, LineNo(k)' = LineNo(k)
      PROVE  LineNo(k)'.n <= Len(file'[LineNo(k)'.of]) /\ AtMost(LineNo(k)'.of, now')
  <2>1. LineNo(k).of \in Dates /\ LineNo(k).n \in Nat
    BY LineNoType DEF TailInv
  <2>2. LineNo(k).n <= Len(file[LineNo(k).of]) /\ AtMost(LineNo(k).of, now)
    BY DEF TailInv, Behind
  <2>3. PICK t : t = LineNo(k).of
    OBVIOUS
  <2>4. Len(file[t]) \in Nat /\ Len(file'[t]) \in Nat /\ Len(file[t]) <= Len(file'[t]) /\ AtMost(now, now')
    BY <2>1, <2>3, FilesAndTimeGrow DEF TailInv
  <2>5. AtMost(t, now')
    BY <1>1, <2>1, <2>2, <2>3, <2>4, AtMostIsTransitive
  <2>6. LineNo(k).n <= Len(file'[t])
    BY <2>1, <2>2, <2>3, <2>4
  <2> QED BY <1>2, <2>3, <2>5, <2>6
<1>3. CASE ~Prints
  BY <1>2, <1>3, OthersKeep DEF TailInv, PrintedKept, Behind
<1>4. CASE Prints
  <2>0. PICK last : last = Len(parsed) + Len(pipe)
    OBVIOUS
  <2>1. /\ Emitted' = Emitted \cup {last + 1}
        /\ \A k \in Emitted : LineNo(k)' = LineNo(k)
        /\ LineNo(last + 1)' = [of |-> tail.of, n |-> tail.at + 1]
        /\ tail.of \in Dates /\ tail.at \in Nat /\ tail.at < Len(file[tail.of]) /\ tail # None
    BY <1>4, <2>0, PrintsNext DEF TailInv
  <2>2. file' = file /\ now' = now /\ Len(file[tail.of]) \in Nat
    BY <1>4, <2>1, FilesAndTimeGrow DEF Prints, TailEmits, TailInv
  <2>3. AtMost(tail.of, now)
    <3>1. tail.of = current
      BY <2>1 DEF TailInv, TailIsAhead
    <3>2. current # None
      BY <2>1, <3>1, NatTailAssumption
    <3> QED BY <3>1, <3>2 DEF TailInv, WaitIsAhead
  <2>4. ASSUME NEW k, k = last + 1
        PROVE  LineNo(k)'.n <= Len(file'[LineNo(k)'.of]) /\ AtMost(LineNo(k)'.of, now')
    BY <2>1, <2>2, <2>3, <2>4
  <2> QED BY <1>2, <2>1, <2>4 DEF Behind
<1> QED BY <1>3, <1>4

(* As long as nothing dies, no printed line is lost on the way.                        *)
LEMMA LivingKeepsCount ==
  ASSUME TailTypeOK, [TailNext]_tailVars, ~Prints, deaths' = 0
  PROVE  Len(parsed') + Len(pipe') = Len(parsed) + Len(pipe)
<1>1. deaths \in Nat
  BY DEF TailTypeOK
<1>2. ~ParserDies /\ ~Restart
  BY <1>1 DEF ParserDies, Restart, Die
<1>3. CASE Parse
  <2>1. /\ parsed \in Seq(Read) /\ pipe \in Seq(Printed) /\ Len(parsed) \in Nat /\ Len(pipe) \in Nat /\ pipe # <<>>
    BY <1>3, LenProperties DEF TailTypeOK, Parse
  <2>2. PICK r : parsed' = Append(parsed, r)
    BY <1>3 DEF Parse
  <2>3. Len(pipe') = Len(pipe) - 1
    BY <1>3, <2>1, HeadTailProperties DEF Parse
  <2>4. Len(parsed') = Len(parsed) + 1
    BY <2>1, <2>2
  <2> QED BY <2>1, <2>3, <2>4
<1>4. CASE ~Parse
  BY <1>2, <1>4 DEF TailNext, Program, Midnight, OpenFile, Receive, Look, Follow, TailEmits, Prints, tailVars
<1> QED BY <1>3, <1>4

(* A tail that goes on is the one there was, or has just been set to follow the file  *)
(* waited for from its end.                                                           *)
LEMMA TailOnOrNew ==
  ASSUME TailTypeOK, [TailNext]_tailVars, ~Prints, tail' # None
  PROVE  \/ tail' = tail /\ current' = current
         \/ /\ Follow /\ tail' = [of |-> waiting, at |-> Len(file[waiting])] /\ current' = waiting
            /\ waiting \in Dates /\ file' = file
<1>1. CASE Follow
  BY <1>1 DEF Follow, TailTypeOK
<1>2. CASE ~Follow
  BY <1>2 DEF TailNext, Program, Midnight, OpenFile, Receive, Look, TailEmits, Prints, Parse, ParserDies, Restart,
              Die, tailVars, wrapper
<1> QED BY <1>1, <1>2

LEMMA TailIsAheadStep ==
  ASSUME TailInv, TailTypeOK', [TailNext]_tailVars PROVE TailIsAhead'
<1>0. PICK last : last = Len(parsed) + Len(pipe)
  OBVIOUS
<1>1. CASE Prints
  <2>1. /\ last \in Nat /\ Emitted' = Emitted \cup {last + 1} /\ Len(parsed') + Len(pipe') = last + 1
        /\ \A k \in Emitted : LineNo(k)' = LineNo(k)
        /\ LineNo(last + 1)' = [of |-> tail.of, n |-> tail.at + 1]
        /\ tail.at \in Nat /\ tail.at < Len(file[tail.of])
        /\ tail' = [of |-> tail.of, at |-> tail.at + 1] /\ tail # None
        /\ tail.of \in Dates
    BY <1>0, <1>1, PrintsNext DEF TailInv
  <2>2. /\ file' = file /\ current' = current /\ Emitted = 1..last /\ Len(file[tail.of]) \in Nat
        /\ tail.of = current
    BY <1>0, <1>1, <2>1, FilesAndTimeGrow DEF Prints, TailEmits, wrapper, Emitted, TailInv, TailIsAhead
  <2>3. PICK t : t = tail'
    OBVIOUS
  <2>4. t.of = tail.of /\ t.at = tail.at + 1
    BY <2>1, <2>3
  <2>5. t.of = current' /\ t.at <= Len(file'[t.of])
    BY <2>1, <2>2, <2>4
  <2>6. ASSUME NEW k \in Emitted'
        PROVE  /\ LineNo(k)'.of = t.of \/ Before(LineNo(k)'.of, t.of)
               /\ LineNo(k)'.of = t.of => LineNo(k)'.n <= t.at
               /\ k = last + 1 /\ LineNo(k)'.of = t.of => LineNo(k)'.n = t.at
    <3>1. CASE k \in Emitted
      <4>1. LineNo(k)' = LineNo(k) /\ LineNo(k).n \in Nat /\ k # last + 1
        BY <2>1, <2>2, <3>1, LineNoType DEF TailInv
      <4>2. /\ LineNo(k).of = tail.of \/ Before(LineNo(k).of, tail.of)
            /\ LineNo(k).of = tail.of => LineNo(k).n <= tail.at
        BY <2>1, <3>1 DEF TailInv, TailIsAhead
      <4> QED BY <2>1, <2>4, <4>1, <4>2
    <3>2. CASE k = last + 1
      BY <2>1, <2>4, <3>2
    <3> QED BY <2>1, <3>1, <3>2
  <2> QED BY <2>1, <2>3, <2>5, <2>6 DEF TailIsAhead
<1>2. CASE ~Prints /\ tail' = None
  BY <1>2 DEF TailIsAhead
<1>3. CASE ~Prints /\ tail' # None
  <2>1. PrintedKept /\ (deaths' = deaths \/ deaths' > 0) /\ deaths \in Nat
    BY <1>3, OthersKeep DEF TailInv, TailTypeOK
  <2>2. PICK t : t = tail'
    OBVIOUS
  <2>3. CASE tail' = tail /\ current' = current
    <3>1. tail # None /\ t = tail /\ tail \in [of : Dates, at : Nat] /\ tail.of = current
      BY <1>3, <2>2, <2>3 DEF TailInv, TailIsAhead, TailTypeOK
    <3>2. t.at <= Len(file'[t.of])
      <4>1. tail.at <= Len(file[tail.of])
        BY <3>1 DEF TailInv, TailIsAhead
      <4>2. t.of \in Dates
        BY <3>1
      <4>3. Len(file[t.of]) \in Nat /\ Len(file'[t.of]) \in Nat /\ Len(file[t.of]) <= Len(file'[t.of])
        BY <4>2, FilesAndTimeGrow DEF TailInv
      <4> QED BY <3>1, <4>1, <4>3
    <3>3. ASSUME NEW k \in Emitted'
          PROVE  /\ LineNo(k)'.of = t.of \/ Before(LineNo(k)'.of, t.of)
                 /\ LineNo(k)'.of = t.of => LineNo(k)'.n <= t.at
      BY <2>1, <3>1 DEF PrintedKept, TailInv, TailIsAhead
    <3>4. ASSUME deaths' = 0, NEW k \in Emitted', k = Len(parsed') + Len(pipe'), LineNo(k)'.of = t.of
          PROVE  LineNo(k)'.n = t.at
      <4>1. k = last
        <5>1. k \in Emitted /\ Len(parsed') + Len(pipe') = last
          BY <1>0, <1>3, <2>1, <3>4, LivingKeepsCount DEF TailInv, PrintedKept
        <5> QED BY <3>4, <5>1
      <4> QED BY <1>0, <2>1, <3>1, <3>4, <4>1 DEF PrintedKept, TailInv, TailIsAhead
    <3> QED BY <2>2, <2>3, <3>1, <3>2, <3>3, <3>4 DEF TailIsAhead
  <2>4. CASE /\ Follow /\ tail' = [of |-> waiting, at |-> Len(file[waiting])] /\ current' = waiting
             /\ waiting \in Dates /\ file' = file
    <3>1. t.of = waiting /\ t.at = Len(file[waiting]) /\ waiting # None /\ t.of = current'
      BY <2>2, <2>4, NatTailAssumption
    <3>2. t.at <= Len(file'[t.of])
      <4>1. Len(file[waiting]) \in Nat
        BY <2>4, FilesAndTimeGrow DEF TailInv
      <4> QED BY <2>4, <3>1, <4>1
    <3>3. ASSUME NEW k \in Emitted'
          PROVE  /\ LineNo(k)'.of = t.of \/ Before(LineNo(k)'.of, t.of)
                 /\ LineNo(k)'.of = t.of => LineNo(k)'.n <= t.at
                 /\ deaths' = 0 => LineNo(k)'.of # t.of
      <4>1. k \in Emitted /\ LineNo(k)' = LineNo(k)
        BY <2>1 DEF PrintedKept
      <4>2. AtMost(LineNo(k).of, waiting) /\ (deaths = 0 => LineNo(k).of # waiting)
        BY <3>1, <4>1 DEF TailInv, WaitIsAhead
      <4>3. LineNo(k).of = waiting => LineNo(k).n <= Len(file[waiting])
        BY <4>1 DEF TailInv, Behind
      <4> QED BY <2>1, <3>1, <4>1, <4>2, <4>3 DEF AtMost
    <3> QED BY <2>2, <2>4, <3>1, <3>2, <3>3 DEF TailIsAhead
  <2> QED BY <1>3, <2>3, <2>4, TailOnOrNew DEF TailInv
<1> QED BY <1>1, <1>2, <1>3

LEMMA WaitIsAheadStep ==
  ASSUME TailInv, TailTypeOK', [TailNext]_tailVars PROVE WaitIsAhead'
<1>1. /\ now \in Dates /\ now' \in Dates /\ AtMost(now, now') /\ TailTypeOK /\ WaitIsAhead
      /\ current \in Dates \cup {None} /\ waiting \in Dates \cup {None} /\ None \notin Dates
  BY FilesAndTimeGrow, NatTailAssumption DEF TailInv, TailTypeOK
<1>2. ASSUME NEW k \in Emitted PROVE LineNo(k).of \in Dates /\ AtMost(LineNo(k).of, now)
  BY <1>1, LineNoType DEF TailInv, Behind
<1>3. current' # None => AtMost(current', now')
  <2>1. \/ current' = current \/ current' = None
        \/ current' = waiting /\ waiting \in opened
    BY DEF TailNext, Program, Midnight, OpenFile, Receive, Look, Follow, TailEmits, Parse, ParserDies,
           Restart, Die, tailVars, wrapper
  <2>2. CASE current' = current /\ current # None
    <3>1. AtMost(current, now)
      BY <1>1, <2>2 DEF WaitIsAhead
    <3> QED BY <1>1, <2>2, <3>1, AtMostIsTransitive
  <2>3. CASE current' = waiting /\ waiting \in opened
    <3>1. waiting \in Dates /\ waiting # None
      BY <1>1, <2>3 DEF TailTypeOK
    <3>2. AtMost(waiting, now)
      BY <1>1, <3>1 DEF WaitIsAhead
    <3> QED BY <1>1, <2>3, <3>1, <3>2, AtMostIsTransitive
  <2> QED BY <2>1, <2>2, <2>3
<1>4. ASSUME waiting' # None
      PROVE  /\ tail' = None /\ AtMost(waiting', now')
             /\ \A k \in Emitted' : AtMost(LineNo(k)'.of, waiting')
             /\ deaths' = 0 => \A k \in Emitted' : LineNo(k)'.of # waiting'
  <2>1. CASE Look
    <3>1. /\ tail' = None /\ waiting' = now /\ current # now /\ now' = now /\ deaths' = deaths
          /\ parsed' = parsed /\ pipe' = pipe
      BY <2>1 DEF Look, rest
    <3>2. PrintedKept
      BY <3>1, UntouchedKeeps
    <3>3. ASSUME NEW k \in Emitted', deaths' = 0 PROVE LineNo(k)'.of # now
      <4>1. k \in Emitted /\ LineNo(k)' = LineNo(k)
        BY <3>2 DEF PrintedKept
      <4>2. current # None /\ AtMost(LineNo(k).of, current) /\ AtMost(current, now)
        BY <1>1, <3>1, <3>3, <4>1 DEF WaitIsAhead
      <4>3. LineNo(k).of \in Dates /\ current \in Dates
        BY <1>1, <1>2, <4>1, <4>2
      <4>4. Before(current, now)
        BY <3>1, <4>2 DEF AtMost
      <4> QED BY <1>1, <4>1, <4>2, <4>3, <4>4, DatesAreOrdered DEF AtMost
    <3> QED BY <1>2, <3>1, <3>2, <3>3 DEF PrintedKept, AtMost
  <2>2. CASE ~Look
    <3>1. waiting' = waiting
      BY <1>4, <2>2 DEF TailNext, Program, Midnight, OpenFile, Receive, Follow, TailEmits, Parse, ParserDies,
           Restart, Die, tailVars, wrapper
    <3>2. /\ tail = None /\ AtMost(waiting, now) /\ waiting \in Dates
          /\ \A k \in Emitted : AtMost(LineNo(k).of, waiting)
          /\ deaths = 0 => \A k \in Emitted : LineNo(k).of # waiting
      BY <1>1, <1>4, <3>1 DEF WaitIsAhead
    <3>3. ~Prints /\ ~Follow /\ ~TailEmits
      BY <1>4, <3>1, <3>2 DEF Prints, TailEmits, Follow
    <3>4. tail' = None
      BY <2>2, <3>2, <3>3 DEF TailNext, Program, Midnight, OpenFile, Receive, Parse, ParserDies,
           Restart, Die, tailVars, wrapper
    <3>5. PrintedKept /\ (deaths' = deaths \/ deaths' > 0)
      BY <1>1, <3>3, OthersKeep
    <3>6. AtMost(waiting, now')
      BY <1>1, <3>2, AtMostIsTransitive
    <3> QED BY <3>1, <3>2, <3>4, <3>5, <3>6 DEF PrintedKept
  <2> QED BY <2>1, <2>2
<1>5. ASSUME deaths' = 0, NEW k \in Emitted'
      PROVE  current' # None /\ AtMost(LineNo(k)'.of, current')
  <2>1. deaths = 0 /\ ~ParserDies /\ ~Restart
    <3>1. deaths \in Nat
      BY <1>1 DEF TailTypeOK
    <3>2. ~ParserDies /\ ~Restart
      BY <1>5, <3>1 DEF ParserDies, Restart, Die
    <3> QED BY <1>5, <3>2 DEF TailNext, Program, Midnight, OpenFile, Receive, Look, Follow, TailEmits, Parse, rest, tailVars
  <2>2. CASE Prints
    <3>0. PICK last : last = Len(parsed) + Len(pipe)
      OBVIOUS
    <3>1. /\ Emitted' = Emitted \cup {last + 1}
          /\ \A j \in Emitted : LineNo(j)' = LineNo(j)
          /\ LineNo(last + 1)' = [of |-> tail.of, n |-> tail.at + 1]
          /\ tail.of \in Dates /\ tail # None
      BY <1>1, <2>2, <3>0, PrintsNext
    <3>2. current' = current /\ tail.of = current
      BY <2>2, <3>1 DEF Prints, TailEmits, wrapper, TailInv, TailIsAhead
    <3>3. CASE k \in Emitted
      BY <1>1, <2>1, <3>1, <3>2, <3>3 DEF WaitIsAhead
    <3>4. CASE k = last + 1
      BY <1>1, <3>1, <3>2, <3>4 DEF AtMost
    <3> QED BY <3>1, <3>3, <3>4
  <2>3. CASE ~Prints
    <3>1. k \in Emitted /\ LineNo(k)' = LineNo(k)
      BY <1>1, <2>3, OthersKeep DEF PrintedKept
    <3>2. CASE Follow
      <4>1. current' = waiting /\ waiting \in Dates /\ waiting # None
        BY <1>1, <3>2 DEF Follow, TailTypeOK
      <4> QED BY <1>1, <3>1, <4>1 DEF WaitIsAhead
    <3>3. CASE ~Follow
      <4>1. current' = current
        BY <2>1, <3>3 DEF TailNext, Program, Midnight, OpenFile, Receive, Look, TailEmits, Parse, tailVars, wrapper
      <4> QED BY <1>1, <2>1, <3>1, <4>1 DEF WaitIsAhead
    <3> QED BY <3>2, <3>3
  <2> QED BY <2>2, <2>3
<1> QED BY <1>3, <1>4, <1>5 DEF WaitIsAhead

LEMMA TailInvAlways == TailSpec => []TailInv
<1>1. TailInit => TailInv
  <2>1. ASSUME TailInit PROVE Emitted = {} /\ tail = None /\ current = None /\ waiting = None
    BY <2>1 DEF TailInit, Emitted
  <2> QED BY <2>1, TailTypeInit DEF TailInv, LinesInOrder, Behind, TailIsAhead, WaitIsAhead
<1>2. TailInv /\ [TailNext]_tailVars => TailInv'
  <2>1. ASSUME TailInv, [TailNext]_tailVars PROVE TailTypeOK'
    BY <2>1, TailTypeStep DEF TailInv
  <2> QED BY <2>1, InOrderStep, BehindStep, TailIsAheadStep, WaitIsAheadStep DEF TailInv
<1> QED BY <1>1, <1>2, PTL DEF TailSpec

LEMMA InOrderMeansUnbroken == TailInv => ParsedOnceUnbroken
<1> SUFFICES ASSUME TailInv, NEW j \in 2..Len(parsed)
             PROVE  /\ Earlier(parsed[j - 1], parsed[j])
                    /\ deaths = 0 /\ parsed[j - 1].of = parsed[j].of => parsed[j].n = parsed[j - 1].n + 1
  BY DEF ParsedOnceUnbroken
<1>1. Len(parsed) \in Nat /\ Len(pipe) \in Nat
  BY LenProperties DEF TailInv, TailTypeOK
<1>2. j \in Emitted \ {1} /\ j <= Len(parsed) /\ j - 1 <= Len(parsed)
  BY <1>1 DEF Emitted
<1>3. /\ LineNo(j).of = parsed[j].of /\ LineNo(j).n = parsed[j].n
      /\ LineNo(j - 1).of = parsed[j - 1].of /\ LineNo(j - 1).n = parsed[j - 1].n
  BY <1>2 DEF LineNo
<1>4. /\ Earlier(LineNo(j - 1), LineNo(j))
      /\ deaths = 0 /\ LineNo(j).of = LineNo(j - 1).of => LineNo(j).n = LineNo(j - 1).n + 1
  BY <1>2 DEF TailInv, LinesInOrder
<1> QED BY <1>3, <1>4 DEF Earlier

(* Over midnights, deaths and restarts no line is parsed twice or out of the order of *)
(* the files, and without a death none is left out between two of a day: nat_tail.sh  *)
(* follows each file once, from its end, and waits for none before what it followed.   *)
THEOREM LinesComeOnceUnbroken == TailSpec => []ParsedOnceUnbroken
BY TailInvAlways, InOrderMeansUnbroken, PTL

(* A line parsed in the year the parser was started in has the time its router         *)
(* stamped it with, the last December's in January included: parse_syslog_timestamp.   *)
THEOREM YearIsRightUnlessPassed == TailSpec => []TimeRightInYear
<1>1. TailInit => TimeRightInYear
  BY DEF TailInit, TimeRightInYear
<1>2. TailTypeOK /\ TimeRightInYear /\ [TailNext]_tailVars => TimeRightInYear'
  <2> SUFFICES ASSUME TailTypeOK, TimeRightInYear, [TailNext]_tailVars PROVE TimeRightInYear'
    OBVIOUS
  <2>1. CASE Parse
    <3>1. parsed \in Seq(Read) /\ pipe \in Seq(Printed) /\ pipe # <<>> /\ now \in Dates /\ started \in Int
      BY <2>1 DEF Parse, TailTypeOK
    <3>2. Head(pipe) \in Printed
      BY <3>1, HeadTailProperties
    <3>3. PICK r : /\ parsed' = Append(parsed, r)
                   /\ r.sent = Head(pipe).sent /\ r.read = now /\ r.by = started /\ r.time = TimeOf(r.sent)
      BY <2>1 DEF Parse
    <3>4. r.sent \in Dates
      BY <3>2, <3>3 DEF Printed
    <3>5. ASSUME /\ r.by = Year(r.read)
                 /\ \/ Year(r.sent) = Year(r.read) /\ ~(December(r.sent) /\ January(r.read))
                    \/ Year(r.sent) = Year(r.read) - 1 /\ December(r.sent) /\ January(r.read)
          PROVE  r.time = r.sent
      <4>1. /\ Year(r.sent) \in Int /\ Day(r.sent) \in Int /\ r.sent = <<Year(r.sent), Day(r.sent)>>
            /\ Exists(Year(r.sent), Day(r.sent)) /\ started = Year(now)
        BY <3>3, <3>4, <3>5, DatesAreNumbers DEF Dates, Year, Day
      <4>2. CASE Year(r.sent) = Year(now) /\ ~(December(r.sent) /\ January(now))
        BY <3>3, <4>1, <4>2 DEF TimeOf
      <4>3. CASE Year(r.sent) = Year(now) - 1 /\ December(r.sent) /\ January(now)
        <5>1. Exists(started, Day(r.sent))
          BY <4>3, NatTailAssumption DEF Exists, December
        <5>2. started - 1 = Year(r.sent)
          BY <4>1, <4>3
        <5> QED BY <3>3, <4>1, <4>3, <5>1, <5>2 DEF TimeOf
      <4> QED BY <3>3, <3>5, <4>2, <4>3
    <3>6. /\ Len(parsed) \in Nat /\ Len(parsed') = Len(parsed) + 1 /\ parsed'[Len(parsed) + 1] = r
          /\ \A j \in 1..Len(parsed) : parsed'[j] = parsed[j]
      BY <3>1, <3>3, LenProperties
    <3>7. ASSUME NEW j \in 1..Len(parsed') PROVE j \in 1..Len(parsed) \/ parsed'[j] = r
      BY <3>6
    <3> QED BY <3>5, <3>6, <3>7 DEF TimeRightInYear
  <2>2. CASE ~Parse
    <3>1. parsed' = parsed
      BY <2>2 DEF TailNext, Program, Midnight, OpenFile, Receive, Look, Follow, TailEmits, ParserDies, Restart, Die, tailVars
    <3> QED BY <3>1 DEF TimeRightInYear
  <2> QED BY <2>1, <2>2
<1>3. TailSpec => []TailTypeOK
  BY TailTypeInit, TailTypeStep, PTL DEF TailSpec
<1> QED BY <1>1, <1>2, <1>3, PTL DEF TailSpec
=============================================================================
