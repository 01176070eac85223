------------------------------ MODULE NatTail ------------------------------
(***************************************************************************)
(* How lines of Juniper routers come to the NAT parser, and when they are  *)
(* taken to have been sent.  rsyslog writes a file for each day; a wrapper *)
(* (scripts/nat_tail.sh) lets tail follow the file of the day and changes  *)
(* it at midnight; all that tail prints goes through one pipe into one     *)
(* parser (scripts/nat_parser.py), which adds the year that is missing in  *)
(* the routers' stamps ("Jun 30 22:44:25").  What becomes of a parsed line *)
(* is in NatPba.                                                           *)
(*                                                                         *)
(* A date is a year and a day of it.  Of a year's days only those are kept *)
(* that the program treats differently: the first is all of January, the   *)
(* last all of December, and LeapDay is the 29th of February.              *)
(***************************************************************************)
EXTENDS Integers, Sequences

CONSTANTS
  Years,      (* the years of the calendar                                  *)
  Leap,       (* the leap years among them                                  *)
  LastDay,    (* December                                                   *)
  LeapDay,    (* a day that only leap years have                            *)
  Begin,      (* the date on which everything begins                        *)
  None,       (* no date, no tail                                           *)
  MaxReceived, (* bound: lines received                                     *)
  MaxDeaths   (* bound: parsers that die, and restarts                      *)

Exists(y, d) == d = LeapDay => y \in Leap
Dates == {t \in Years \X (1..LastDay) : Exists(t[1], t[2])}

ASSUME NatTailAssumption ==
  /\ Years \subseteq Int /\ Leap \subseteq Years
  /\ LastDay \in Nat /\ LeapDay \in 2..LastDay - 1
  /\ Begin \in Dates /\ None \notin Dates
  /\ MaxReceived \in Nat /\ MaxDeaths \in Nat

VARIABLES
  now,      (* the date                                                     *)
  opened,   (* the dates that have a file                                   *)
  file,     (* what rsyslog wrote on each date: the routers' dates          *)
  current,  (* CURRENT: the file the wrapper last let tail follow           *)
  waiting,  (* the file it waits for                                        *)
  tail,     (* the tail: its file, and how many lines of it are behind it   *)
  pipe,     (* lines on their way to the parser                             *)
  started,  (* CURRENT_YEAR of the parser; None when it has died            *)
  parsed,   (* lines it has parsed                                          *)
  received, (* lines received so far                                        *)
  deaths    (* parsers that died, and restarts, so far                      *)

wrapper  == <<current, waiting>>
rest     == <<received, deaths>>
tailVars == <<now, opened, file, wrapper, tail, pipe, started, parsed, rest>>

Year(t)     == t[1]
Day(t)      == t[2]
January(t)  == Day(t) = 1
December(t) == Day(t) = LastDay

Before(s, t) == Year(s) < Year(t) \/ (Year(s) = Year(t) /\ Day(s) < Day(t))
IsNext(s, t) == Before(s, t) /\ \A u \in Dates : ~(Before(s, u) /\ Before(u, t))

TailInit ==
  /\ now = Begin /\ opened = {} /\ file = [t \in Dates |-> <<>>]
  /\ current = None /\ waiting = None /\ tail = None
  /\ pipe = <<>> /\ started = Year(Begin) /\ parsed = <<>>
  /\ received = 0 /\ deaths = 0

-----------------------------------------------------------------------------
(* External: time, and rsyslog.                                               *)

Midnight ==
  /\ \E t \in Dates : IsNext(now, t) /\ now' = t
  /\ UNCHANGED <<opened, file, wrapper, tail, pipe, started, parsed, rest>>

OpenFile ==
  /\ now \notin opened /\ opened' = opened \cup {now}
  /\ UNCHANGED <<now, file, wrapper, tail, pipe, started, parsed, rest>>

(* A router's clock may be a little behind or ahead: across a midnight, a date. *)
Receive(sent) ==
  /\ received < MaxReceived /\ received' = received + 1
  /\ now \in opened
  /\ sent = now \/ IsNext(sent, now) \/ IsNext(now, sent)
  /\ file' = [file EXCEPT ![now] = Append(@, sent)]
  /\ UNCHANGED <<now, opened, wrapper, tail, pipe, started, parsed, deaths>>

-----------------------------------------------------------------------------
(* nat_tail.sh.                                                                *)

(* Looking every 30 seconds, the loop finds that the date has changed, or that it  *)
(* is the first time: the tail is killed, with what it has still to read.          *)
Look ==
  /\ waiting = None /\ current # now
  /\ tail' = None /\ waiting' = now
  /\ UNCHANGED <<now, opened, file, current, pipe, started, parsed, rest>>

(* Mutant: tail prints the file from its beginning.                                 *)
FollowFromStart ==
  /\ waiting \in opened
  /\ tail' = [of |-> waiting, at |-> 0]
  /\ current' = waiting /\ waiting' = None
  /\ UNCHANGED <<now, opened, file, pipe, started, parsed, rest>>

(* The file is there: a new tail follows it from its end (-n0).  For as long as it  *)
(* is not, the loop waits for it, even when a later day's file is.                  *)
Follow ==
  /\ waiting \in opened
  /\ tail' = [of |-> waiting, at |-> Len(file[waiting])]
  /\ current' = waiting /\ waiting' = None
  /\ UNCHANGED <<now, opened, file, pipe, started, parsed, rest>>

(* tail prints the next line.  Without a parser at the other end it dies of that.    *)
TailEmits ==
  /\ tail # None /\ tail.at < Len(file[tail.of])
  /\ IF started # None
     THEN /\ tail' = [tail EXCEPT !.at = @ + 1]
          /\ pipe' = Append(pipe, [of |-> tail.of, n |-> tail'.at, sent |-> file[tail.of][tail'.at]])
     ELSE tail' = None /\ UNCHANGED pipe
  /\ UNCHANGED <<now, opened, file, wrapper, started, parsed, rest>>

-----------------------------------------------------------------------------
(* nat_parser.py.                                                               *)

(* Mutant: every line is of the year.                                            *)
ThisYear(t) == IF Exists(started, Day(t)) THEN <<started, Day(t)>> ELSE now

(* parse_syslog_timestamp: the stamp in the year the parser was started, in the   *)
(* year before if it is of December and it is January; now, if there is no such   *)
(* day.                                                                           *)
TimeOf(t) ==
  IF ~Exists(started, Day(t)) THEN now
  ELSE IF December(t) /\ January(now) THEN <<started - 1, Day(t)>>
  ELSE <<started, Day(t)>>

Parse ==
  /\ started # None /\ pipe # <<>>
  /\ LET l == Head(pipe)
     IN  parsed' = Append(parsed, [of |-> l.of, n |-> l.n, sent |-> l.sent,
                                   read |-> now, by |-> started, time |-> TimeOf(l.sent)])
  /\ pipe' = Tail(pipe)
  /\ UNCHANGED <<now, opened, file, wrapper, tail, started, rest>>

Die == deaths < MaxDeaths /\ deaths' = deaths + 1 /\ UNCHANGED <<now, opened, file, received, parsed>>

(* The parser ends by an exception; the loop before the pipe goes on without it.  *)
ParserDies ==
  /\ started # None
  /\ started' = None /\ pipe' = <<>>
  /\ Die /\ UNCHANGED <<wrapper, tail>>

(* The whole script is started again.                                             *)
Restart ==
  /\ current' = None /\ waiting' = None /\ tail' = None
  /\ pipe' = <<>> /\ started' = Year(now)
  /\ Die

Program == Look \/ Follow \/ TailEmits \/ Parse

TailNext ==
  \/ Midnight \/ OpenFile \/ (\E t \in Dates : Receive(t))
  \/ Program
  \/ ParserDies \/ Restart

TailSpec == TailInit /\ [][TailNext]_tailVars
FairSpec == TailSpec /\ WF_tailVars(Look) /\ WF_tailVars(Follow) /\ WF_tailVars(TailEmits) /\ WF_tailVars(Parse)

-----------------------------------------------------------------------------
Earlier(a, b) == Before(a.of, b.of) \/ (a.of = b.of /\ a.n < b.n)

(* Over midnights, deaths and restarts, no line is parsed twice or before one that  *)
(* was written before it; and as long as nothing dies, the lines parsed of a day    *)
(* have no gap: only its beginning and its end can be missing.                      *)
ParsedOnceUnbroken ==
  \A j \in 2..Len(parsed) :
    LET a == parsed[j - 1]
        b == parsed[j]
    IN  Earlier(a, b) /\ (deaths = 0 /\ a.of = b.of => b.n = a.n + 1)

(* "assumes current year", "Dec logs replayed in Jan": a line has the time its      *)
(* router stamped it with if the parser was started in the year it reads the line   *)
(* in, and the stamp is of that year, or of December and read in January.           *)
TimeRightInYear ==
  \A j \in 1..Len(parsed) :
    LET r == parsed[j]
    IN  /\ r.by = Year(r.read)
        /\ \/ Year(r.sent) = Year(r.read) /\ ~(December(r.sent) /\ January(r.read))
           \/ Year(r.sent) = Year(r.read) - 1 /\ December(r.sent) /\ January(r.read)
        => r.time = r.sent

(* "Handle year rollover (Dec logs replayed in Jan)": a December line read in the    *)
(* following January is dated in the year that has ended.                            *)
RolloverHandled ==
  \A j \in 1..Len(parsed) :
    LET r == parsed[j]
    IN  December(r.sent) /\ January(r.read) /\ Year(r.sent) = Year(r.read) - 1 => r.time = r.sent

(* "ingestion continues seamlessly across midnight": as long as nothing dies, the    *)
(* file of the day is followed in the end, whatever came before.                     *)
DayIsFollowed == [](deaths = 0 /\ now \in opened => <>(deaths > 0 \/ now \notin opened \/ current = now))
=============================================================================
