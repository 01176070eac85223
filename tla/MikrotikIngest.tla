--------------------------- MODULE MikrotikIngest ---------------------------
(***************************************************************************)
(* The MikroTik ingest daemon (scripts/mikrotik_ingest.py): it tails the   *)
(* capture file rsyslog writes, attributes each line to a NAS by its       *)
(* source address, and inserts the translations in batches.                *)
(*                                                                         *)
(* A line is known by its number among all lines ever written.  The        *)
(* capture file holds the lines written since the last truncation, so two  *)
(* numbers describe it: the line it begins after and the line it ends      *)
(* with.  The daemon's position f.tell() is counted in lines.  readline()  *)
(* takes a chunk of the file at a time and hands out its lines one by one, *)
(* so lines may be read that the file holds no longer.                     *)
(*                                                                         *)
(* The daemon is one thread: a step is one turn of run()'s loop, cut where *)
(* the file can change under it.                                           *)
(***************************************************************************)
EXTENDS Naturals, Sequences, FiniteSets

CONSTANTS
  Sources,    (* source addresses of syslog senders                          *)
  Nases,      (* ids of nas_devices                                          *)
  NoNas,      (* no enabled NAS has this source address                      *)
  BatchSize,  (* MT_BATCH_SIZE, 500 by default                               *)
  MaxLines,   (* bound on the lines ever written                             *)
  MaxEvents   (* bound on registry changes, outages, signals and crashes     *)

ASSUME IngestAssumption ==
  /\ NoNas \notin Nases
  /\ BatchSize \in Nat \ {0} /\ MaxLines \in Nat /\ MaxEvents \in Nat

VARIABLES
  lines,     (* external: source and body of every line rsyslog ever wrote   *)
  base,      (* external: lines written before the last truncation           *)
  registry,  (* nas_devices: the enabled MikroTik NAS of each source address *)
  dbUp,      (* PostgreSQL answers                                           *)
  pc,        (* where run() is                                               *)
  running,   (* self.running                                                 *)
  pos,       (* f.tell()                                                     *)
  chunk,     (* the lines of f's read buffer not handed out yet              *)
  conn,      (* self.conn: "none", "up", or "stale": the server it was made  *)
             (* to has gone, which only its next use will show               *)
  nasMap,    (* self.nas_by_ip                                               *)
  buf,       (* self.buf                                                     *)
  table,     (* mikrotik_translations, in the order of insertion             *)
  events,    (* how many of the MaxEvents have happened                      *)
  floor,     (* history: lines written before the process started            *)
  read,      (* history: the lines read                                      *)
  unknown,   (* history: lines dropped, counted in stats["unknown_source"]   *)
  lost,      (* history: lines given up after reading, and why               *)
  registered (* history: every <<source, NAS>> that was ever registered      *)

env     == <<lines, base, registry, dbUp, events, registered>>
history == <<floor, read, unknown>>
daemon  == <<pc, running, pos, chunk, conn, nasMap, buf, table, lost, history>>
vars    == <<env, daemon>>

(* "nat": a translation; "other": no NAT clause, or a private public side;   *)
(* "bad": a NAT clause behind a header that gives no log_time, or with a     *)
(* value the columns refuse, so that the INSERT of its row fails.            *)
Bodies == {"nat", "other", "bad"}
Line   == [src : Sources, body : Bodies]
Row    == [id : 1..MaxLines, nas : Nases]
Loss   == [id : 1..MaxLines, why : {"outage", "row", "crash"}]

FileSize == Len(lines) - base

TypeOK ==
  /\ lines \in Seq(Line) /\ Len(lines) <= MaxLines
  /\ base \in 0..Len(lines)
  /\ registry \in [Sources -> Nases \cup {NoNas}]
  /\ nasMap \in [Sources -> Nases \cup {NoNas}]
  /\ dbUp \in BOOLEAN /\ running \in BOOLEAN
  /\ pc \in {"down", "open", "read", "stat"}
  /\ chunk \in Seq(1..MaxLines) /\ conn \in {"none", "up", "stale"}
  /\ pos \in 0..MaxLines
  /\ buf \in Seq(Row) /\ Len(buf) < BatchSize
  /\ table \in Seq(Row)
  /\ events \in 0..MaxEvents
  /\ floor \in 0..Len(lines)
  /\ read \subseteq 1..MaxLines /\ unknown \subseteq 1..MaxLines
  /\ lost \subseteq Loss
  /\ registered \subseteq Sources \X (Nases \cup {NoNas})

Registered(r) == {<<s, r[s]>> : s \in Sources}

Init ==
  /\ lines = <<>> /\ base = 0
  /\ registry \in [Sources -> Nases \cup {NoNas}] /\ registered = Registered(registry)
  /\ dbUp = TRUE /\ events = 0
  /\ pc = "down" /\ running = FALSE /\ pos = 0
  /\ chunk = <<>> /\ conn = "none"
  /\ nasMap = [s \in Sources |-> NoNas]
  /\ buf = <<>> /\ table = <<>>
  /\ floor = 0 /\ read = {} /\ unknown = {} /\ lost = {}

-----------------------------------------------------------------------------
(* rsyslog, logrotate, the web application and PostgreSQL.                    *)

WriteLine(src, body) ==
  /\ Len(lines) < MaxLines
  /\ lines' = Append(lines, [src |-> src, body |-> body])
  /\ UNCHANGED <<base, registry, dbUp, events, registered, daemon>>

(* copytruncate: the file is copied away and cut to nothing in place.         *)
CopyTruncate ==
  /\ base < Len(lines)
  /\ base' = Len(lines)
  /\ UNCHANGED <<lines, registry, dbUp, events, registered, daemon>>

Event == events < MaxEvents /\ events' = events + 1

(* A NAS is added, enabled, disabled, deleted or given another source address. *)
ChangeRegistry(s, n) ==
  /\ Event /\ registry[s] # n
  /\ registry' = [registry EXCEPT ![s] = n]
  /\ registered' = registered \cup Registered(registry')
  /\ UNCHANGED <<lines, base, dbUp, daemon>>

(* PostgreSQL stops: a connection to it is dead from now on.                   *)
Severed(c) == IF c = "up" THEN "stale" ELSE c

DbGoes ==
  /\ dbUp /\ Event /\ dbUp' = FALSE
  /\ conn' = Severed(conn)
  /\ UNCHANGED <<lines, base, registry, registered, pc, running, pos, chunk, nasMap, buf, table,
                 lost, history>>

DbReturns ==
  /\ ~dbUp /\ dbUp' = TRUE
  /\ UNCHANGED <<lines, base, registry, events, registered, daemon>>

-----------------------------------------------------------------------------
(* The daemon.                                                                 *)

(* db() connects if there is no connection; a statement works on one that is  *)
(* not stale.  After a failure rollback() goes through db() again, which       *)
(* replaces the dead connection if it can.                                     *)
DbWorks(c) == dbUp /\ c # "stale"

Reconnected == IF dbUp THEN "up" ELSE "none"

(* refresh_nasmap: the map and the connection after it; a refresh that fails   *)
(* keeps the old map.                                                          *)
Refreshed(map, c) == [map |-> IF DbWorks(c) THEN registry ELSE map, conn |-> Reconnected]

Clean(rows) == \A i \in DOMAIN rows : lines[rows[i].id].body # "bad"

GiveUp(rows, why) == lost' = lost \cup {[id |-> rows[i].id, why |-> why] : i \in DOMAIN rows}

(* Mutant: a batch that fails stays in the buffer for the next flush.          *)
FlushKeep(rows, c) ==
  \/ /\ DbWorks(c) /\ Clean(rows)
     /\ table' = table \o rows /\ buf' = <<>> /\ conn' = "up"
     /\ UNCHANGED <<lost, dbUp, events>>
  \/ /\ ~(DbWorks(c) /\ Clean(rows))
     /\ buf' = rows /\ conn' = Reconnected
     /\ UNCHANGED <<table, lost, dbUp, events>>
  \/ /\ DbWorks(c) /\ Clean(rows) /\ Event
     /\ table' = table \o rows /\ buf' = rows
     /\ dbUp' = FALSE /\ conn' = "none"
     /\ UNCHANGED lost

(* Mutant: the rows of a batch that fails are forgotten without a word.        *)
FlushSilent(rows, c) ==
  /\ buf' = <<>> /\ conn' = Reconnected
  /\ table' = IF DbWorks(c) /\ Clean(rows) THEN table \o rows ELSE table
  /\ UNCHANGED <<lost, dbUp, events>>

(* flush() of a non-empty buffer over connection c.  The buffer is swapped out  *)
(* first, so the rows are gone from it whatever happens: committed, or dropped *)
(* because there is no database, or its connection died since it was last used, *)
(* or a row of the batch is refused, or committed by a server that was lost    *)
(* before it could say so.                                                     *)
FlushRows(rows, c) ==
  /\ buf' = <<>>
  /\ \/ /\ DbWorks(c) /\ Clean(rows)
        /\ table' = table \o rows
        /\ conn' = "up"
        /\ UNCHANGED <<lost, dbUp, events>>
     \/ /\ ~(DbWorks(c) /\ Clean(rows))
        /\ GiveUp(rows, IF DbWorks(c) THEN "row" ELSE "outage")
        /\ conn' = Reconnected
        /\ UNCHANGED <<table, dbUp, events>>
     \/ /\ DbWorks(c) /\ Clean(rows) /\ Event
        /\ table' = table \o rows
        /\ dbUp' = FALSE /\ conn' = "none"
        /\ UNCHANGED lost

(* systemd starts the process (Restart=always): an empty map, then a forced    *)
(* refresh.                                                                    *)
Start ==
  /\ pc = "down"
  /\ pc' = "open" /\ running' = TRUE
  /\ nasMap' = Refreshed([s \in Sources |-> NoNas], "none").map
  /\ conn' = Reconnected
  /\ buf' = <<>> /\ chunk' = <<>> /\ pos' = 0
  /\ floor' = Len(lines)
  /\ UNCHANGED <<env, table, lost, read, unknown>>

(* Mutant: the file is read from its beginning.                                *)
OpenCaptureAtStart ==
  /\ pc = "open" /\ running
  /\ pos' = 0
  /\ pc' = "read"
  /\ UNCHANGED <<env, running, chunk, conn, nasMap, buf, table, lost, floor, read, unknown>>

(* _open_capture: open and seek to the end.                                    *)
OpenCapture ==
  /\ pc = "open" /\ running
  /\ pos' = FileSize
  /\ pc' = "read"
  /\ UNCHANGED <<env, running, chunk, conn, nasMap, buf, table, lost, floor, read, unknown>>

(* Mutant: a source the map does not know goes to some NAS all the same.       *)
AttributedAnyway(id) == {[id |-> id, nas |-> n] : n \in Nases}

(* handle_line: the row of a line, if its source is known and it holds a NAT   *)
(* translation.                                                                *)
Attributed(id) ==
  IF nasMap[lines[id].src] = NoNas \/ lines[id].body = "other" THEN {}
  ELSE {[id |-> id, nas |-> nasMap[lines[id].src]]}

(* What readline() has to hand out: the rest of the chunk, or a new one.       *)
Chunks ==
  IF chunk # <<>> THEN {chunk}
  ELSE {[i \in 1..k |-> base + pos + i] : k \in 1..(FileSize - pos)}

(* One line read and handled; a full buffer is flushed at once.                *)
ReadLine ==
  /\ pc = "read" /\ running
  /\ \E c \in Chunks :
       LET id == Head(c)
       IN  /\ pos' = pos + 1 /\ chunk' = Tail(c)
           /\ read' = read \cup {id}
           /\ unknown' = IF nasMap[lines[id].src] = NoNas THEN unknown \cup {id} ELSE unknown
           /\ \/ /\ Attributed(id) = {}
                 /\ UNCHANGED <<buf, table, lost, conn, dbUp, events>>
              \/ \E row \in Attributed(id) :
                   LET filled == Append(buf, row)
                   IN  IF Len(filled) < BatchSize
                       THEN buf' = filled /\ UNCHANGED <<table, lost, conn, dbUp, events>>
                       ELSE FlushRows(filled, conn)
  /\ UNCHANGED <<lines, base, registry, registered, pc, running, nasMap, floor>>

(* readline() finds nothing.                                                   *)
Quiet == pc = "read" /\ running /\ chunk = <<>> /\ pos >= FileSize

(* refresh_nasmap(): if NASMAP_REFRESH has passed.                             *)
RefreshIfDue == {[map |-> nasMap, conn |-> conn], Refreshed(nasMap, conn)}

(* Mutant: no flush by time. *)
QuietFlushNever ==
  /\ Quiet /\ buf # <<>>
  /\ \E r \in RefreshIfDue : nasMap' = r.map /\ conn' = r.conn
  /\ pc' = "stat"
  /\ UNCHANGED <<env, running, pos, chunk, buf, table, lost, history>>

(* The file has nothing new and FLUSH_SECONDS have passed.                     *)
QuietFlush ==
  /\ Quiet /\ buf # <<>>
  /\ \E r \in RefreshIfDue : nasMap' = r.map /\ FlushRows(buf, r.conn)
  /\ pc' = "stat"
  /\ UNCHANGED <<lines, base, registry, registered, running, pos, chunk, history>>

QuietNoFlush ==
  /\ Quiet
  /\ \E r \in RefreshIfDue : nasMap' = r.map /\ conn' = r.conn
  /\ pc' = "stat"
  /\ UNCHANGED <<env, running, pos, chunk, buf, table, lost, history>>

(* os.stat: the file shrank below the position, so it was truncated; reopen.   *)
CheckRotation ==
  /\ pc = "stat"
  /\ pc' = IF pos > FileSize THEN "open" ELSE "read"
  /\ UNCHANGED <<env, running, pos, chunk, conn, nasMap, buf, table, lost, history>>

(* SIGTERM or SIGINT.                                                          *)
StopSignal ==
  /\ pc # "down" /\ running /\ Event
  /\ running' = FALSE
  /\ UNCHANGED <<lines, base, registry, dbUp, registered, pc, pos, chunk, conn, nasMap, buf, table,
                 lost, history>>

(* The loop ends; the final flush.  What is left of the chunk is not handled.  *)
Shutdown ==
  /\ pc \in {"read", "open"} /\ ~running
  /\ pc' = "down"
  /\ IF buf = <<>> THEN UNCHANGED <<buf, table, lost, conn, dbUp, events>> ELSE FlushRows(buf, conn)
  /\ UNCHANGED <<lines, base, registry, registered, running, pos, chunk, nasMap, history>>

(* The process dies: SIGKILL, or an exception nobody catches, such as the      *)
(* UnicodeDecodeError of a line that is not UTF-8.  What it buffered is gone.  *)
Crash ==
  /\ pc # "down" /\ Event
  /\ pc' = "down" /\ running' = FALSE
  /\ GiveUp(buf, "crash") /\ buf' = <<>>
  /\ UNCHANGED <<lines, base, registry, dbUp, registered, pos, chunk, conn, nasMap, table, history>>

Environment ==
  \/ \E s \in Sources, b \in Bodies : WriteLine(s, b)
  \/ CopyTruncate
  \/ \E s \in Sources, n \in Nases \cup {NoNas} : ChangeRegistry(s, n)
  \/ DbGoes \/ DbReturns \/ StopSignal \/ Crash

Daemon ==
  \/ Start \/ OpenCapture \/ ReadLine \/ QuietFlush \/ QuietNoFlush \/ CheckRotation \/ Shutdown

Next == Environment \/ Daemon

Spec == Init /\ [][Next]_vars

(* The process is scheduled, and systemd restarts it.  Two seconds pass: a     *)
(* daemon that keeps coming to a quiet moment with rows in its buffer cannot   *)
(* forever find that the flush is not due.                                     *)
FairSpec == Spec /\ WF_vars(Daemon) /\ SF_vars(QuietFlush)

-----------------------------------------------------------------------------
(* Properties.                                                                 *)

TableIds == {table[i].id : i \in DOMAIN table}
BufIds   == {buf[i].id : i \in DOMAIN buf}
LostIds  == {l.id : l \in lost}

(* A line is inserted at most once, and rows go in in the order the lines were *)
(* written, through batches, outages, lost commit answers, rotation and        *)
(* restarts.                                                                   *)
InsertedOnceInOrder ==
  LET all == table \o buf
  IN  \A i, j \in DOMAIN all : i < j => all[i].id < all[j].id

(* No translation vanishes silently: each line read has exactly one fate, in   *)
(* the table, in the buffer, in a loss that is logged or happened in a crash,  *)
(* counted as of unknown source, or not a translation.                         *)
EveryLineAccounted ==
  LET fate == [stored |-> TableIds, buffered |-> BufIds, lost |-> LostIds, unknown |-> unknown]
  IN  /\ \A id \in read :
           Cardinality({f \in DOMAIN fate : id \in fate[f]})
             = IF id \in unknown \/ lines[id].body # "other" THEN 1 ELSE 0
      /\ \A f \in DOMAIN fate : fate[f] \subseteq read

(* A row's NAS was at some time the NAS registered for the line's source: the  *)
(* cached map may be stale, but never attributes a line to a NAS its source    *)
(* did not belong to.                                                          *)
AttributionWasRegistered ==
  LET all == table \o buf
  IN  \A i \in DOMAIN all : <<lines[all[i].id].src, all[i].nas>> \in registered

(* "Follows log rotation done with copytruncate": while the daemon reads, each *)
(* line of the file that is behind its position, and was written after it      *)
(* started, has been read.                                                     *)
NothingUnreadBehind ==
  pc \in {"read", "stat"} =>
    \A k \in 1..FileSize : k <= pos /\ base + k > floor => base + k \in read

(* The daemon will come to this line, as long as nothing is truncated.         *)
Unread(id) == id \in {chunk[i] : i \in DOMAIN chunk} \/ id > base + pos + Len(chunk)

(* What has become of a line, as LineTransfer sees it: pending as long as it   *)
(* may still be inserted.                                                      *)
Fate ==
  [id \in 1..MaxLines |->
    IF id > Len(lines) THEN "unwritten"
    ELSE IF id \in TableIds THEN "stored"
    ELSE IF id \in BufIds \/ (pc \in {"read", "stat"} /\ Unread(id)) THEN "pending"
    ELSE "gone"]

Transfer == INSTANCE LineTransfer WITH Ids <- 1..MaxLines, fate <- Fate

(* The daemon implements LineTransfer: no line is taken up again once it is    *)
(* given up, by truncation, restart or a failed batch, and none is unstored.   *)
ImplementsTransfer == Transfer!Spec

(* No translation waits for ever, unread or in a batch that does not fill: again *)
(* and again none is pending.  (A line is pending once, so this is as much as    *)
(* saying so of each line.)                                                      *)
PendingSettles == []<>(\A id \in 1..MaxLines : Fate[id] # "pending")
=============================================================================
