---------------------------- MODULE RadiusWatch ----------------------------
(***************************************************************************)
(* The RADIUS detail watcher (scripts/radius_parser.py, watch mode): it    *)
(* reads what FreeRADIUS appends to the detail files, turns each record    *)
(* into a change of radius_accounting, commits, and saves how far it has   *)
(* read.  The commit and the saved position are two stores: a failure      *)
(* between them makes it apply the same records again, and the table has   *)
(* no unique key to notice.  Rows equal in every column are one element of *)
(* the set `table`: no statement of the program tells them apart.          *)
(***************************************************************************)
EXTENDS Naturals, Sequences

CONSTANTS
  Users,        (* subscribers                                              *)
  IPs,          (* framed addresses                                         *)
  NFiles,       (* detail files, numbered as sorted(glob) lists them        *)
  CommitEvery,  (* commit within a file every so many rows (100 in the code) *)
  Null,         (* SQL NULL, the end of a session that is on                *)
  NoSid,        (* the empty Acct-Session-Id of a record that shows none    *)
  MaxClock,     (* bound: network events                                    *)
  MaxFaults     (* bound: packets lost, late, repeated or garbled, records
                   cut, errors, dead connections and crashes                *)

ASSUME RadiusAssumption ==
  /\ NFiles \in Nat \ {0} /\ CommitEvery \in Nat \ {0}
  /\ MaxClock \in Nat /\ MaxFaults \in Nat
  /\ Null \notin Nat \cup IPs /\ NoSid \notin Nat

VARIABLES
  sessions, (* external: who was given which address, from when until when  *)
  file,     (* external: the records of each detail file                    *)
  day,      (* external: the file FreeRADIUS writes to                      *)
  clock,    (* time; a session's id is the time it began                    *)
  spoiled,  (* external: sessions whose Start or Stop did not come when due,
               or with a record garbled or read in two                      *)
  table,    (* radius_accounting, committed                                 *)
  tx,       (* radius_accounting as the open transaction sees it            *)
  conn,     (* "up", or "dead": every statement and every commit raises     *)
  pos,      (* `positions` in memory, per file                              *)
  saved,    (* POSITION_FILE                                                *)
  pc,       (* where watch_directory is                                     *)
  listed,   (* the files the round's glob found                             *)
  cur,      (* the file of the round it has come to                         *)
  read,     (* what it has read of that file and not yet applied            *)
  count,    (* rows applied from that file                                  *)
  faults    (* faults so far                                                *)

net  == <<sessions, file, day, clock>>
db   == <<table, tx, conn>>
at   == <<pc, listed, cur, read, count>>
vars == <<net, spoiled, db, pos, saved, at, faults>>

Files == 1..NFiles

(* What record_to_db_row needs of a record, in whatever order the NAS sends   *)
(* it: who and what (User-Name, Acct-Status-Type), the session, the address.  *)
(* A record's kind is Start, Interim, Stop or Garbled.                        *)
Attrs == {"who", "sid", "ip"}

(* A position: n whole records, and the attributes already read of the next.  *)
Origin      == [n |-> 0, had |-> {}]
NothingRead == [from |-> 1, upto |-> 0, had |-> {}, head |-> Attrs]

Init ==
  /\ sessions = {} /\ file = [f \in Files |-> <<>>] /\ day = 1
  /\ clock = 0 /\ spoiled = {} /\ faults = 0
  /\ table = {} /\ tx = {} /\ conn = "up"
  /\ pos = [f \in Files |-> Origin] /\ saved = pos
  /\ pc = "list" /\ listed = {} /\ cur = 1 /\ read = NothingRead /\ count = 0

-----------------------------------------------------------------------------
(* The network and FreeRADIUS, which the program only reads.               *)

(* An accounting packet as FreeRADIUS dates it: by the time it is written.    *)
Packet(kind, s, t) == [kind |-> kind, user |-> s.user, sid |-> s.sid, ip |-> s.ip, at |-> t]

Writes(r) == file' = [file EXCEPT ![day] = Append(@, r)]

(* The packet of an event is written when it is due; or with a counter int()  *)
(* refuses; or not, or not yet.  Only a Start or a Stop is missed: the parser *)
(* needs no Interim of a session it has the Start of.                         *)
Account(kind, s) ==
  LET r == Packet(kind, s, clock + 1)
  IN  \/ Writes(r) /\ UNCHANGED <<spoiled, faults>>
      \/ /\ faults < MaxFaults /\ faults' = faults + 1
         /\ \/ Writes([r EXCEPT !.kind = "Garbled"]) /\ spoiled' = spoiled \cup {s.sid}
            \/ /\ UNCHANGED file
               /\ spoiled' = IF kind = "Interim" THEN spoiled ELSE spoiled \cup {s.sid}

Event ==
  /\ clock < MaxClock /\ clock' = clock + 1
  /\ UNCHANGED <<day, db, pos, saved, at>>

Connect(u, ip) ==
  /\ \A s \in sessions : s.end = Null => s.user # u /\ s.ip # ip
  /\ LET s == [user |-> u, sid |-> clock + 1, ip |-> ip, end |-> Null]
     IN  sessions' = sessions \cup {s} /\ Account("Start", s)
  /\ Event

Report(s) ==
  /\ s.end = Null /\ Account("Interim", s)
  /\ Event /\ UNCHANGED sessions

Disconnect(s) ==
  /\ s.end = Null /\ Account("Stop", s)
  /\ sessions' = (sessions \ {s}) \cup {[s EXCEPT !.end = clock + 1]}
  /\ Event

(* A packet of any session is written once more, or only now, perhaps long     *)
(* after the session ended and its address was given again; it is dated now.   *)
Resend(s, kind) ==
  /\ faults < MaxFaults /\ faults' = faults + 1
  /\ kind = "Stop" => s.end # Null
  /\ Writes(Packet(kind, s, clock))
  /\ UNCHANGED <<sessions, day, clock, spoiled, db, pos, saved, at>>

(* Time passes and nothing is accounted.                                   *)
Quiet == Event /\ UNCHANGED <<sessions, file, spoiled, faults>>

(* Midnight: FreeRADIUS goes on in the next detail file.                   *)
NextDay ==
  /\ day < NFiles /\ day' = day + 1
  /\ UNCHANGED <<sessions, file, clock, spoiled, db, pos, saved, at, faults>>

-----------------------------------------------------------------------------
(* From a record to the table.                                             *)

(* The row record_to_db_row makes of the attributes `has` of r, or none.  The *)
(* timestamp line leads the record: its rest, read later, is dated now().     *)
ToRow(r, has, rest) ==
  IF "who" \notin has THEN {}
  ELSE {[kind |-> r.kind, user |-> r.user,
         sid  |-> IF "sid" \in has THEN r.sid ELSE NoSid,
         ip   |-> IF "ip" \in has THEN r.ip ELSE Null,
         at   |-> IF rest THEN clock ELSE r.at]}

Session(r, start, stop) ==
  [user |-> r.user, sid |-> r.sid, ip |-> r.ip, start |-> start, stop |-> stop]

OpenOf(T, r) == {x \in T : x.sid = r.sid /\ x.user = r.user /\ x.stop = Null}

(* INSERT ... ON CONFLICT DO NOTHING, on a table without a unique key.       *)
AfterStart(T, r) == T \cup {Session(r, r.at, Null)}

(* Mutant: a session ends when its Stop is processed, not when it was sent.   *)
AfterStopNow(T, r) ==
  IF OpenOf(T, r) = {} THEN T \cup {Session(r, r.at, r.at)}
  ELSE (T \ OpenOf(T, r)) \cup {[x EXCEPT !.stop = clock] : x \in OpenOf(T, r)}

(* Every open row of the session is closed; without one, a standalone Stop.  *)
AfterStop(T, r) ==
  IF OpenOf(T, r) = {} THEN T \cup {Session(r, r.at, r.at)}
  ELSE (T \ OpenOf(T, r)) \cup {[x EXCEPT !.stop = r.at] : x \in OpenOf(T, r)}

(* An interim refreshes the session's open rows, or else the user's open row at *)
(* its address, or else it opens a session that starts now.                     *)
AfterInterim(T, r) ==
  IF OpenOf(T, r) # {}
  THEN (T \ OpenOf(T, r)) \cup
       {[x EXCEPT !.ip = IF r.ip = Null THEN @ ELSE r.ip] : x \in OpenOf(T, r)}
  ELSE IF \E x \in T : x.ip = r.ip /\ r.ip # Null /\ x.user = r.user /\ x.stop = Null THEN T
  ELSE T \cup {Session(r, clock, Null)}

(* insert_radius_record.                                                      *)
Inserted(T, r) ==
  CASE r.kind = "Start"   -> AfterStart(T, r)
    [] r.kind = "Stop"    -> AfterStop(T, r)
    [] r.kind = "Interim" -> AfterInterim(T, r)

-----------------------------------------------------------------------------
(* One round of watch_directory.                                            *)

(* Mutant: the list is not fixed when the round begins.                       *)
ListAsYouGo ==
  /\ pc = "list"
  /\ listed' = Files
  /\ pc' = "scan" /\ cur' = 1
  /\ UNCHANGED <<net, spoiled, db, pos, saved, read, count, faults>>

(* Mutant: only the newest file is watched.                                   *)
ListNewest ==
  /\ pc = "list"
  /\ listed' = {f \in Files : file[f] # <<>> /\ \A g \in Files : f < g => file[g] = <<>>}
  /\ pc' = "scan" /\ cur' = 1
  /\ UNCHANGED <<net, spoiled, db, pos, saved, read, count, faults>>

(* sorted(glob(...)): a file is there once FreeRADIUS has written to it.     *)
ListFiles ==
  /\ pc = "list"
  /\ listed' = {f \in Files : file[f] # <<>>}
  /\ pc' = "scan" /\ cur' = 1
  /\ UNCHANGED <<net, spoiled, db, pos, saved, read, count, faults>>

Unread(f) == pos[f].n < Len(file[f])

(* The next file of the list that has grown past its position.               *)
Reached(f) ==
  /\ pc = "scan" /\ f \in listed /\ cur <= f /\ Unread(f)
  /\ \A g \in listed : cur <= g /\ g < f => ~Unread(g)

(* The file is read from the position to its end.                           *)
Read(f) ==
  /\ Reached(f)
  /\ read' = [from |-> pos[f].n + 1, upto |-> Len(file[f]), had |-> pos[f].had, head |-> Attrs]
  /\ pc' = "apply" /\ cur' = f
  /\ UNCHANGED <<net, spoiled, db, pos, saved, listed, count, faults>>

(* The file is read while FreeRADIUS writes its last record: the parser takes *)
(* what is there for a whole one, and the next read begins with the rest.     *)
ReadHalf(f) ==
  /\ Reached(f) /\ faults < MaxFaults
  /\ LET last == file[f][Len(file[f])]
     IN  /\ last.kind # "Garbled"
         /\ Len(file[f]) > pos[f].n + 1 \/ pos[f].had = {}
         /\ spoiled' = spoiled \cup {last.sid}
  /\ \E h \in SUBSET Attrs \ {{}, Attrs} :
       read' = [from |-> pos[f].n + 1, upto |-> Len(file[f]), had |-> pos[f].had, head |-> h]
  /\ pc' = "apply" /\ cur' = f /\ faults' = faults + 1
  /\ UNCHANGED <<net, db, pos, saved, listed, count>>

Current == file[cur][read.from]

Ahead == pc = "apply" /\ read.from <= read.upto  (* a record is still to be applied *)

(* The row of the record that comes next: none of an attribute read before.   *)
CurrentRow ==
  ToRow(Current, (IF read.from = read.upto THEN read.head ELSE Attrs) \ read.had, read.had # {})

NextRecord == read' = [read EXCEPT !.from = @ + 1, !.had = {}]

(* One record: apply its row, and commit at every CommitEvery'th.             *)
ApplyRecord ==
  /\ Ahead /\ Current.kind # "Garbled" /\ conn = "up"
  /\ \E r \in CurrentRow :
       /\ tx' = Inserted(tx, r)
       /\ count' = count + 1
       /\ table' = IF count' % CommitEvery = 0 THEN tx' ELSE table
  /\ NextRecord
  /\ UNCHANGED <<net, spoiled, conn, pos, saved, pc, listed, cur, faults>>

(* A record that makes no row asks nothing of the database.                   *)
SkipRecord ==
  /\ Ahead /\ Current.kind # "Garbled" /\ CurrentRow = {}
  /\ NextRecord
  /\ UNCHANGED <<net, spoiled, db, pos, saved, pc, listed, cur, count, faults>>

(* Where the read ended.                                                      *)
ReadTo == IF read.head = Attrs THEN [n |-> read.upto, had |-> {}]
          ELSE [n |-> read.upto - 1, had |-> read.head]

FileApplied == pc = "apply" /\ read.from > read.upto

(* Mutant: the position moves on, the commit is left to the next file.         *)
FinishFileUncommitted ==
  /\ FileApplied
  /\ pos' = [pos EXCEPT ![cur] = ReadTo]
  /\ pc' = "scan" /\ cur' = cur + 1 /\ read' = NothingRead /\ count' = 0
  /\ UNCHANGED <<net, spoiled, db, saved, listed, faults>>

(* The end of the file's records: commit, and only then move the position.    *)
FinishFile ==
  /\ FileApplied /\ conn = "up"
  /\ table' = tx
  /\ pos' = [pos EXCEPT ![cur] = ReadTo]
  /\ pc' = "scan" /\ cur' = cur + 1 /\ read' = NothingRead /\ count' = 0
  /\ UNCHANGED <<net, spoiled, tx, conn, saved, listed, faults>>

(* The round is over: open(POSITION_FILE, "w") empties the file ...           *)
EmptyPositions ==
  /\ pc = "scan" /\ \A f \in listed : cur <= f => ~Unread(f)
  /\ saved' = [f \in Files |-> Origin]
  /\ pc' = "saving"
  /\ UNCHANGED <<net, spoiled, db, pos, listed, cur, read, count, faults>>

(* ... and the positions are written to it; sleep, and the next round.        *)
WritePositions ==
  /\ pc = "saving"
  /\ saved' = pos
  /\ pc' = "list" /\ cur' = 1 /\ listed' = {}
  /\ UNCHANGED <<net, spoiled, db, pos, read, count, faults>>

-----------------------------------------------------------------------------
(* What goes wrong.                                                           *)

Again == pc' = "list" /\ listed' = {} /\ cur' = 1 /\ read' = NothingRead /\ count' = 0

(* int() refuses a counter: the round ends, with no rollback, and begins again. *)
RecordRefused ==
  /\ Ahead /\ Current.kind = "Garbled"
  /\ Again
  /\ UNCHANGED <<net, spoiled, db, pos, saved, faults>>

(* The program is at a statement or a commit.                                   *)
AtDatabase == FileApplied \/ (Ahead /\ Current.kind # "Garbled" /\ CurrentRow # {})

(* psycopg2.Error on a connection that lives: rollback, a new connection, and a *)
(* new round.                                                                   *)
DbError ==
  /\ AtDatabase /\ conn = "up" /\ faults < MaxFaults /\ faults' = faults + 1
  /\ tx' = table
  /\ Again
  /\ UNCHANGED <<net, spoiled, table, conn, pos, saved>>

(* The connection breaks, and the server rolls back what it had not committed.  *)
ConnectionDies ==
  /\ conn = "up" /\ faults < MaxFaults /\ faults' = faults + 1
  /\ conn' = "dead" /\ tx' = table
  /\ UNCHANGED <<net, spoiled, table, pos, saved, at>>

(* On a dead connection the statement raises, and so does the rollback before   *)
(* the new connection: the bare except swallows it, and the round begins again  *)
(* on the connection that is dead, now and ever after.                          *)
StillDead ==
  /\ AtDatabase /\ conn = "dead"
  /\ Again
  /\ UNCHANGED <<net, spoiled, db, pos, saved, faults>>

(* The server commits and the connection breaks before it answers.              *)
CommitAnswerLost ==
  /\ FileApplied /\ conn = "up" /\ faults < MaxFaults /\ faults' = faults + 1
  /\ table' = tx /\ conn' = "dead"
  /\ Again
  /\ UNCHANGED <<net, spoiled, tx, pos, saved>>

(* The process ends and is started again: what is left is the committed table   *)
(* and the position file, which may have just been emptied.                     *)
Restart ==
  /\ faults < MaxFaults /\ faults' = faults + 1
  /\ tx' = table /\ conn' = "up" /\ pos' = saved
  /\ Again
  /\ UNCHANGED <<net, spoiled, table, saved>>

Watcher ==
  \/ ListFiles \/ (\E f \in Files : Read(f))
  \/ ApplyRecord \/ SkipRecord \/ RecordRefused \/ StillDead \/ FinishFile
  \/ EmptyPositions \/ WritePositions

Next ==
  \/ \E u \in Users, ip \in IPs : Connect(u, ip)
  \/ \E s \in sessions :
       Report(s) \/ Disconnect(s) \/ \E kind \in {"Start", "Interim", "Stop"} : Resend(s, kind)
  \/ Quiet \/ NextDay
  \/ Watcher
  \/ \E f \in Files : ReadHalf(f)
  \/ DbError \/ ConnectionDies \/ CommitAnswerLost \/ Restart

(* The watcher is one loop without an end; a Restart, which a person or a crash  *)
(* brings about, is never owed.                                                  *)
Spec == Init /\ [][Next]_vars /\ WF_vars(Watcher)

-----------------------------------------------------------------------------
(* What a reader of radius_accounting may rely on.                               *)

Whole(r) == r.kind # "Garbled" /\ r.sid \notin spoiled

(* No record is skipped, whatever fails: each one before the position has left   *)
(* its mark in the committed table, a Start the beginning of a session and a     *)
(* Stop its end.                                                                 *)
NothingSkipped ==
  \A f \in Files : \A i \in 1..pos[f].n :
    LET r == file[f][i]
        mine == {x \in table : x.user = r.user /\ x.sid = r.sid}
    IN  Whole(r) => /\ r.kind = "Start" => \E x \in mine : x.start = r.at /\ x.ip = r.ip
                    /\ r.kind = "Stop"  => \E x \in mine : x.stop = r.at

AllRead == pc = "list" /\ \A f \in Files : ~Unread(f)

(* Record i of file f is read before record j of file g.                         *)
Before(f, i, g, j) == f < g \/ (f = g /\ i < j)

(* Record i of f is a Stop of the session, and no record of it comes after.      *)
StoppedLast(s, f, i) ==
  /\ file[f][i].sid = s.sid /\ file[f][i].kind = "Stop"
  /\ \A g \in Files : \A j \in DOMAIN file[g] :
       Before(f, i, g, j) => file[g][j].sid # s.sid

(* Once everything is read, the open rows are right however often the records    *)
(* were applied again on the way: a session that is on is open in the table, and *)
(* one that ended is not, unless a record of it was written after its last Stop. *)
SettledWhenAllRead ==
  AllRead => \A s \in sessions : s.sid \notin spoiled =>
    /\ s.end = Null => OpenOf(table, s) # {}
    /\ (\E f \in Files : \E i \in DOMAIN file[f] : StoppedLast(s, f, i)) => OpenOf(table, s) = {}

(* The row lea_query picks for an address and a time (app.py): the latest started *)
(* of those that cover the time.                                                  *)
Covering(ip, t) == {x \in table : x.ip = ip /\ x.start <= t /\ (x.stop = Null \/ x.stop >= t)}
Picked(ip, t)   == {x \in Covering(ip, t) : \A y \in Covering(ip, t) : y.start <= x.start}

Held(s, t) == s.sid <= t /\ (s.end = Null \/ t <= s.end)

(* A record of the address came after the end of its session and not after t.     *)
Belated(ip, t) ==
  \E f \in Files : \E i \in DOMAIN file[f] :
    LET r == file[f][i]
    IN  /\ r.ip = ip /\ r.at <= t
        /\ \E g \in Files : \E j \in DOMAIN file[g] :
             Before(g, j, f, i) /\ file[g][j].sid = r.sid /\ file[g][j].kind = "Stop"

(* Once everything is read, and if every Start and Stop came when due and no       *)
(* record was garbled or cut, the row picked for an address and a time is of the   *)
(* subscriber who held it then, and there is none if nobody did: neither repeated  *)
(* packets nor the rows that replays leave behind name somebody else.  The one     *)
(* exception is a packet of a session that comes after its Stop: from its date on, *)
(* its row may come before that of whoever has the address now.                    *)
HolderPicked ==
  AllRead /\ spoiled = {} =>
    \A ip \in IPs, t \in 1..clock : ~Belated(ip, t) =>
      /\ \A s \in sessions : s.ip = ip /\ Held(s, t) =>
           Picked(ip, t) # {} /\ \A x \in Picked(ip, t) : x.user = s.user
      /\ Picked(ip, t) # {} => \E s \in sessions : s.ip = ip /\ Held(s, t)

Blocked(f) == \E g \in 1..f : \E i \in DOMAIN file[g] : file[g][i].kind = "Garbled"

(* What is written is read, unless a garbled record is in that file or in one       *)
(* sorted before it, which stops the watcher for every file after it, or the        *)
(* connection is dead, which stops it for all.                                      *)
ReadUnlessBlocked ==
  \A f \in Files : [](Unread(f) => <>(~Unread(f) \/ Blocked(f) \/ conn = "dead"))

(* watch_directory's docstring: "Continuously watch for new detail files and tail   *)
(* them", where every record is well formed.                                        *)
TailedContinuously == \A f \in Files : [](Unread(f) => <>(~Unread(f) \/ Blocked(f)))
=============================================================================
