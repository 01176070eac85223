------------------------------ MODULE NatPba --------------------------------
(***************************************************************************)
(* The Juniper NAT log parser (scripts/nat_parser.py): port block          *)
(* allocations and releases, and flows, go from a stream of log lines      *)
(* through two buffers into nat_logs and nat_flow_logs, from which a legal *)
(* request about a public address, port and time is answered (app.py).     *)
(*                                                                         *)
(* A line is known by its number in the stream, which also stands for its  *)
(* time.  A block is a public address with its port range.  The parser is  *)
(* one thread, but SIGTERM and SIGINT run a handler between any two of its *)
(* steps, which flushes the same buffers over the same connection; so a    *)
(* flush is cut where the handler can find it.                             *)
(***************************************************************************)
EXTENDS Naturals, Sequences, FiniteSetsExt

CONSTANTS
  Subs,       (* subscribers                                                *)
  Blocks,     (* port blocks                                                *)
  Null,       (* a block nobody holds; SQL NULL                             *)
  BatchSize,  (* BATCH_SIZE, 100 in the code                                *)
  MaxLines,   (* bound on the lines ever logged                             *)
  MaxEvents   (* bound on outages, signals and kills                        *)

ASSUME NatAssumption ==
  /\ BatchSize \in Nat \ {0} /\ MaxLines \in Nat /\ MaxEvents \in Nat
  /\ Null \notin Subs \cup Blocks \cup Nat

VARIABLES
  lines,      (* external: what the router has logged                       *)
  holder,     (* external: who holds each block                             *)
  dbUp,       (* PostgreSQL answers                                         *)
  events,     (* how many of the MaxEvents have happened                    *)
  mode,       (* --mode                                                     *)
  pc,         (* "down", "read", or inside a flush: "inserted", "committed" *)
  next,       (* lines taken from the stream, by this process or before it  *)
  todo,       (* what is left to do for the line last read                  *)
  conn,       (* self.conn: "none", "up", or "dead" (not noticed yet)       *)
  natBuf,     (* self.nat_buffer                                            *)
  flowBuf,    (* self.flow_buffer                                           *)
  natLogs,    (* nat_logs                                                   *)
  flowLogs,   (* nat_flow_logs                                              *)
  taken,      (* history: the lines read                                    *)
  lost,       (* history: the lines in the buffers of a process that ended  *)
  interrupted (* history: a signal came inside a flush                      *)

env    == <<lines, holder, dbUp, events>>
bufs   == <<natBuf, flowBuf>>
logs   == <<natLogs, flowLogs>>
past   == <<taken, lost, interrupted>>
vars   == <<env, mode, pc, next, todo, conn, bufs, logs, past>>

(* "garbled": matched by an RT_SRC_NAT_PBA pattern, refused by a column.    *)
Kinds  == {"alloc", "release", "interim", "garbled", "flow"}
Line   == [kind : Kinds, sub : Subs \cup {Null}, block : Blocks \cup {Null}]
Id     == 1..MaxLines
Row    == [line : Id, release : Id \cup {Null}]
Tasks  == {"nat", "flow", "release", "exit"}

TypeOK ==
  /\ lines \in Seq(Line) /\ Len(lines) <= MaxLines
  /\ holder \in [Blocks -> Subs \cup {Null}]
  /\ dbUp \in BOOLEAN /\ events \in 0..MaxEvents
  /\ mode \in {"pipe", "stdin"}
  /\ pc \in {"down", "read", "inserted", "committed"}
  /\ next \in 0..Len(lines)
  /\ todo \in Seq(Tasks)
  /\ conn \in {"none", "up", "dead"} /\ (conn = "up" => dbUp)
  /\ natBuf \in Seq(Id) /\ flowBuf \in Seq(Id)
  /\ natLogs \in Seq(Row) /\ flowLogs \in Seq(Id)
  /\ taken \subseteq Id /\ lost \subseteq Id /\ interrupted \in BOOLEAN

Init ==
  /\ lines = <<>> /\ holder = [b \in Blocks |-> Null]
  /\ dbUp = TRUE /\ events = 0
  /\ mode \in {"pipe", "stdin"}
  /\ pc = "down" /\ next = 0 /\ todo = <<>> /\ conn = "none"
  /\ natBuf = <<>> /\ flowBuf = <<>> /\ natLogs = <<>> /\ flowLogs = <<>>
  /\ taken = {} /\ lost = {} /\ interrupted = FALSE

-----------------------------------------------------------------------------
(* The router, and PostgreSQL.                                               *)

Log(line) ==
  /\ Len(lines) < MaxLines
  /\ lines' = Append(lines, line)
  /\ UNCHANGED <<dbUp, events, mode, pc, next, todo, conn, bufs, logs, past>>

Allocate(s, b) ==
  /\ holder[b] = Null
  /\ Log([kind |-> "alloc", sub |-> s, block |-> b])
  /\ holder' = [holder EXCEPT ![b] = s]

Release(b) ==
  /\ holder[b] # Null
  /\ Log([kind |-> "release", sub |-> holder[b], block |-> b])
  /\ holder' = [holder EXCEPT ![b] = Null]

Interim(b) ==
  /\ holder[b] # Null
  /\ Log([kind |-> "interim", sub |-> holder[b], block |-> b])
  /\ UNCHANGED holder

OtherLine(kind) ==
  /\ Log([kind |-> kind, sub |-> Null, block |-> Null])
  /\ UNCHANGED holder

Event == events < MaxEvents /\ events' = events + 1

(* PostgreSQL stops or restarts: the connection to it is dead from now on.    *)
DbGoes ==
  /\ dbUp /\ Event /\ dbUp' = FALSE
  /\ conn' = IF conn = "up" THEN "dead" ELSE conn
  /\ UNCHANGED <<lines, holder, mode, pc, next, todo, bufs, logs, past>>

DbReturns ==
  /\ ~dbUp /\ dbUp' = TRUE
  /\ UNCHANGED <<lines, holder, events, mode, pc, next, todo, conn, bufs, logs, past>>

-----------------------------------------------------------------------------
(* The parser.                                                                *)

(* Mutant: connect() is taken to succeed.                                     *)
FreshAlways == "up"

(* connect(): the connection it leaves behind.                                *)
Fresh == IF dbUp THEN "up" ELSE "none"

InBufs == {natBuf[i] : i \in DOMAIN natBuf} \cup {flowBuf[i] : i \in DOMAIN flowBuf}

(* The process ends with what it has in its buffers.                          *)
Ends ==
  /\ pc' = "down" /\ todo' = <<>>
  /\ lost' = lost \cup InBufs
  /\ natBuf' = <<>> /\ flowBuf' = <<>>

(* Mutant: a failure is answered by a new connection and another try.         *)
RaiseRetry ==
  /\ pc' = "read" /\ todo' = Tail(todo) /\ conn' = "none"
  /\ UNCHANGED <<next, bufs, lost>>

(* The connection is dead, so the rollback() of an except clause raises in its *)
(* turn and the exception leaves parse_line.  Reading stdin, it ends the       *)
(* process.  Reading the pipe, main() answers with flush_all(), which raises   *)
(* again if there is anything to flush; otherwise the pipe is opened anew, and *)
(* what was read ahead from it is gone.                                        *)
Raise ==
  /\ \/ /\ mode = "stdin" \/ InBufs # {}
        /\ Ends
        /\ UNCHANGED next
     \/ /\ mode = "pipe" /\ InBufs = {}
        /\ pc' = "read" /\ todo' = <<>>
        /\ next' \in next..Len(lines)
        /\ UNCHANGED <<bufs, lost>>
  /\ conn' = "dead"

(* A process begins where the pipe, or tail -n0, lets it begin.                *)
Start ==
  /\ pc = "down"
  /\ pc' = "read" /\ conn' = Fresh
  /\ next' \in next..Len(lines)
  /\ UNCHANGED <<env, mode, todo, bufs, logs, past>>

(* parse_line and, every so many lines of any kind, main()'s flush_all: the    *)
(* record goes to its buffer; what follows is left to do.                      *)
ReadLine ==
  /\ pc = "read" /\ todo = <<>> /\ next < Len(lines)
  /\ LET id   == next + 1
         kind == lines[id].kind
         full(buf, task) == IF Len(buf) >= BatchSize THEN <<task>> ELSE <<>>
     IN  /\ next' = id /\ taken' = taken \cup {id}
         /\ \E periodic \in {<<>>, <<"nat", "flow">>} :
              \/ /\ kind = "flow"
                 /\ flowBuf' = Append(flowBuf, id)
                 /\ todo' = full(flowBuf', "flow") \o periodic
                 /\ UNCHANGED natBuf
              \/ /\ kind # "flow"
                 /\ natBuf' = Append(natBuf, id)
                 /\ todo' = full(natBuf', "nat")
                            \o (IF kind = "release" THEN <<"release">> ELSE <<>>)
                            \o periodic
                 /\ UNCHANGED flowBuf
  /\ UNCHANGED <<env, mode, pc, conn, logs, lost, interrupted>>

(* The end of stdin.                                                           *)
EndOfInput ==
  /\ pc = "read" /\ todo = <<>> /\ mode = "stdin" /\ next = Len(lines)
  /\ todo' = <<"nat", "flow", "exit">>
  /\ UNCHANGED <<env, mode, pc, next, conn, bufs, logs, past>>

Doing(task) == pc = "read" /\ todo # <<>> /\ Head(todo) = task

Exit ==
  /\ Doing("exit") /\ Ends
  /\ UNCHANGED <<env, mode, next, conn, logs, taken, interrupted>>

Clean(buf) == \A i \in DOMAIN buf : lines[buf[i]].kind # "garbled"

(* Mutant: a batch that cannot be inserted is dropped.                          *)
KeptNot == natBuf' = <<>> /\ UNCHANGED flowBuf

(* A flush that fails clears nothing.                                           *)
Kept == UNCHANGED bufs

(* flush_nat or flush_flow, to its INSERT.  Without a connection it tries for   *)
(* one; a refused INSERT is rolled back; either way the buffer is kept.         *)
Flush(task, buf) ==
  LET c == IF conn = "none" THEN Fresh ELSE conn
  IN  /\ Doing(task)
      /\ \/ /\ buf = <<>>
            /\ todo' = Tail(todo)
            /\ UNCHANGED <<pc, next, conn, bufs, lost>>
         \/ /\ buf # <<>> /\ c = "up" /\ Clean(buf)
            /\ pc' = "inserted" /\ conn' = c
            /\ UNCHANGED <<next, todo, bufs, lost>>
         \/ /\ buf # <<>> /\ (c = "none" \/ (c = "up" /\ ~Clean(buf)))
            /\ todo' = Tail(todo) /\ conn' = c /\ Kept
            /\ UNCHANGED <<pc, next, lost>>
         \/ buf # <<>> /\ c = "dead" /\ Raise
      /\ UNCHANGED <<env, mode, logs, taken, interrupted>>

Rows(buf) == [i \in DOMAIN buf |-> [line |-> buf[i], release |-> Null]]

Stored ==
  IF Head(todo) = "nat" THEN natLogs' = natLogs \o Rows(natBuf) /\ UNCHANGED flowLogs
  ELSE flowLogs' = flowLogs \o flowBuf /\ UNCHANGED natLogs

(* The commit: done; or the connection has died; or it is done but the server   *)
(* is lost before it says so.                                                   *)
Commit ==
  /\ pc = "inserted"
  /\ \/ /\ conn = "up" /\ Stored
        /\ pc' = "committed"
        /\ UNCHANGED <<env, next, todo, conn, bufs, lost>>
     \/ /\ conn = "dead" /\ Raise
        /\ UNCHANGED <<env, logs>>
     \/ /\ conn = "up" /\ Event /\ Stored /\ dbUp' = FALSE
        /\ Raise
        /\ UNCHANGED <<lines, holder>>
  /\ UNCHANGED <<mode, taken, interrupted>>

(* buffer.clear()                                                               *)
Clear ==
  /\ pc = "committed"
  /\ pc' = "read" /\ todo' = Tail(todo)
  /\ IF Head(todo) = "nat" THEN natBuf' = <<>> /\ UNCHANGED flowBuf
     ELSE flowBuf' = <<>> /\ UNCHANGED natBuf
  /\ UNCHANGED <<env, mode, next, conn, logs, past>>

(* Mutant: any block of the subscriber will do.                                 *)
UnreleasedAnyBlock(id) ==
  {i \in DOMAIN natLogs :
     LET line == lines[natLogs[i].line]
     IN  /\ line.kind = "alloc" /\ natLogs[i].release = Null
         /\ line.sub = lines[id].sub}

(* Mutant: rows that have a release time are released again.                    *)
UnreleasedOrNot(id) ==
  {i \in DOMAIN natLogs :
     LET line == lines[natLogs[i].line]
     IN  /\ line.kind = "alloc"
         /\ line.sub = lines[id].sub /\ line.block = lines[id].block}

(* The rows of the subscriber's allocations of this block that have no release  *)
(* time.                                                                        *)
Unreleased(id) ==
  {i \in DOMAIN natLogs :
     LET line == lines[natLogs[i].line]
     IN  /\ line.kind = "alloc" /\ natLogs[i].release = Null
         /\ line.sub = lines[id].sub /\ line.block = lines[id].block}

Latest(rows) == {i \in rows : \A j \in rows : natLogs[j].line <= natLogs[i].line}

(* update_release: the latest of them gets this release's time.                 *)
UpdateRelease ==
  /\ Doing("release")
  /\ \/ /\ conn = "none" \/ (conn = "up" /\ Unreleased(next) = {})
        /\ todo' = Tail(todo)
        /\ UNCHANGED <<pc, next, conn, bufs, natLogs, lost>>
     \/ /\ conn = "up"
        /\ \E i \in Latest(Unreleased(next)) : natLogs' = [natLogs EXCEPT ![i].release = next]
        /\ todo' = Tail(todo)
        /\ UNCHANGED <<pc, next, conn, bufs, lost>>
     \/ /\ conn = "dead" /\ Raise
        /\ UNCHANGED natLogs
  /\ UNCHANGED <<env, mode, flowLogs, taken, interrupted>>

(* SIGTERM or SIGINT: flush_all() in the handler, then sys.exit.  Rows that the *)
(* interrupted flush has inserted or committed are still in the buffer and go   *)
(* in again, unless the handler's own failure rolls the first ones back.        *)
Signal ==
  LET c       == IF conn = "none" THEN Fresh ELSE conn
      pending == IF pc = "inserted" THEN Head(todo) ELSE "none"
      rows    == Rows(natBuf)
  IN  /\ pc # "down" /\ Event
      /\ IF c # "up" THEN UNCHANGED logs
         ELSE /\ natLogs' = natLogs \o (IF ~Clean(natBuf) THEN <<>>
                                        ELSE IF pending = "nat" THEN rows \o rows ELSE rows)
              /\ flowLogs' = flowLogs \o (IF pending = "flow" /\ Clean(natBuf)
                                          THEN flowBuf \o flowBuf ELSE flowBuf)
      /\ lost' = lost \cup InBufs
      /\ interrupted' = (interrupted \/ pc \in {"inserted", "committed"})
      /\ pc' = "down" /\ todo' = <<>> /\ natBuf' = <<>> /\ flowBuf' = <<>>
      /\ UNCHANGED <<lines, holder, dbUp, mode, next, conn, taken>>

Kill ==
  /\ pc # "down" /\ Event /\ Ends
  /\ UNCHANGED <<lines, holder, dbUp, mode, next, conn, logs, taken, interrupted>>

Router ==
  \/ \E b \in Blocks : (\E s \in Subs : Allocate(s, b)) \/ Release(b) \/ Interim(b)
  \/ \E kind \in {"garbled", "flow"} : OtherLine(kind)

Parser ==
  \/ Start \/ ReadLine \/ EndOfInput \/ Exit
  \/ Flush("nat", natBuf) \/ Flush("flow", flowBuf) \/ Commit \/ Clear
  \/ UpdateRelease

Next == Router \/ DbGoes \/ DbReturns \/ Parser \/ Signal \/ Kill

Spec == Init /\ [][Next]_vars
-----------------------------------------------------------------------------
(* Properties.                                                                  *)

NatIds == {natLogs[i].line : i \in DOMAIN natLogs}
FlowIds == {flowLogs[i] : i \in DOMAIN flowLogs}

(* As long as no signal comes inside a flush, no line is stored twice: not       *)
(* after a commit whose answer was lost, nor across restarts.                    *)
StoredOnce ==
  ~interrupted => /\ Cardinality(NatIds) = Len(natLogs)
                  /\ Cardinality(FlowIds) = Len(flowLogs)

(* A line that was read is stored or waits in a buffer, unless the process that  *)
(* had it in its buffers has ended.                                              *)
NothingDropped == taken \subseteq NatIds \cup FlowIds \cup InBufs \cup lost

(* s held b at time t, release included.                                         *)
HeldAt(s, b, t) ==
  \E a \in 1..t : /\ lines[a] = [kind |-> "alloc", sub |-> s, block |-> b]
                  /\ \A r \in a..(t - 1) : ~(lines[r].kind = "release" /\ lines[r].block = b)

(* What a query for the block at time t finds, and whom its latest row names.    *)
Matches(b, t) ==
  {i \in DOMAIN natLogs :
     /\ lines[natLogs[i].line].block = b /\ natLogs[i].line <= t
     /\ natLogs[i].release = Null \/ natLogs[i].release >= t}

Named(b, t) == {lines[natLogs[i].line].sub : i \in Latest(Matches(b, t))}

(* Who held a block is found: a stored allocation answers for all the time it    *)
(* lasted, whatever was released, lost, repeated or stored late meanwhile; and   *)
(* if all lines about the block so far are stored, the latest row names him.     *)
HolderIsNamed ==
  \A b \in Blocks, t \in 1..Len(lines), s \in Subs : HeldAt(s, b, t) =>
    /\ \A i \in DOMAIN natLogs :
         LET a == natLogs[i].line
         IN  lines[a] = [kind |-> "alloc", sub |-> s, block |-> b] /\ a <= t
             /\ (\A r \in a..(t - 1) : ~(lines[r].kind = "release" /\ lines[r].block = b))
             => i \in Matches(b, t)
    /\ {id \in 1..t : lines[id].block = b} \subseteq NatIds => Named(b, t) = {s}

(* "When a PBA_RELEASE comes, mark the corresponding ALLOC with release_time."   *)
(* Once a release has been dealt with, the allocation it ended, if stored, has   *)
(* a release time.                                                               *)
ReleasedIsMarked ==
  \A i, j \in DOMAIN natLogs :
    LET a == natLogs[i].line
        r == natLogs[j].line
    IN  /\ lines[a].kind = "alloc" /\ lines[r].kind = "release" /\ a < r
        /\ lines[a].block = lines[r].block
        /\ pc = "read" /\ todo = <<>>
        => natLogs[i].release # Null

(* Stored rows are evidence: they stay, and a release time once set is not       *)
(* changed.                                                                      *)
EvidenceKept ==
  [][/\ \A i \in DOMAIN natLogs :
          /\ i \in DOMAIN natLogs' /\ natLogs'[i].line = natLogs[i].line
          /\ natLogs[i].release # Null => natLogs'[i].release = natLogs[i].release
     /\ \A i \in DOMAIN flowLogs : i \in DOMAIN flowLogs' /\ flowLogs'[i] = flowLogs[i]]_vars
=============================================================================
