---------------------------- MODULE PppSessions -----------------------------
(***************************************************************************)
(* The PPP session poller (scripts/mikrotik_ppp_poll.py): it turns         *)
(* successive /ppp/active listings of a router into a history of sessions, *)
(* mikrotik_ppp_sessions.  One NAS: every statement is keyed by nas_id and *)
(* the NASes of a run are polled one after the other.  One poller: the     *)
(* systemd timer starts a oneshot unit, which never overlaps itself.       *)
(*                                                                         *)
(* The diff of a listing against the open rows is one transaction of one   *)
(* process, so ApplyActive is one step; the listing is fetched before it,  *)
(* and the router goes on in between.  The columns that only describe a    *)
(* session (framed_ip, caller_id, ppp_service) are left out.               *)
(***************************************************************************)
EXTENDS Integers

CONSTANTS
  Users,         (* PPP user names                                          *)
  Null,          (* SQL NULL: an open row's session_stop; an unread uptime  *)
  Absent,        (* the listing does not name this user                     *)
  Slack,         (* an uptime must drop by more than this to be a reconnect; 5 s in the code *)
  Shared,        (* users whose profile allows several sessions at once     *)
  MaxClock       (* bound on time                                           *)

ASSUME PppAssumption ==
  /\ Slack \in Nat /\ MaxClock \in Nat /\ Shared \subseteq Users
  /\ Null \notin Nat
  /\ Absent \notin [rid : Nat, up : Nat \cup {Null}]
  /\ Absent \notin [user : Users, login : Nat]

VARIABLES
  router,   (* external: the sessions now up on the router                  *)
  clock,    (* time; a router session is identified by its login time       *)
  rows,     (* mikrotik_ppp_sessions                                        *)
  lastPoll, (* mikrotik_ppp_poll_state.last_poll                            *)
  report,   (* cur_active: the listing being applied, one entry per name    *)
  polling,  (* a listing has been fetched and not yet applied               *)
  confirmed (* history: the users named by the last listing applied         *)

vars == <<router, clock, rows, lastPoll, report, polling, confirmed>>

Time    == Nat
Session == [user : Users, login : Time]
Entry   == [rid : Time, up : Nat \cup {Null}]
Row     == [user : Users, rid : Time, start : Time, stop : Time \cup {Null}, seen : Time, up : Nat \cup {Null}]

TypeOK ==
  /\ router \subseteq Session
  /\ clock \in Time
  /\ rows \subseteq Row
  /\ lastPoll \in Time \cup {Null}
  /\ report \in [Users -> Entry \cup {Absent}]
  /\ polling \in BOOLEAN
  /\ confirmed \subseteq Users

NoReport == [u \in Users |-> Absent]

Init ==
  /\ router = {} /\ clock = 0
  /\ rows = {} /\ lastPoll = Null
  /\ report = NoReport /\ polling = FALSE /\ confirmed = {}

-----------------------------------------------------------------------------
(* The router and the passing of time.                                      *)

SessionsOf(u) == {s \in router : s.user = u}

Login(u) ==
  /\ clock < MaxClock
  /\ u \in Shared \/ SessionsOf(u) = {}
  /\ router' = router \cup {[user |-> u, login |-> clock + 1]}
  /\ clock' = clock + 1
  /\ UNCHANGED <<rows, lastPoll, report, polling, confirmed>>

Logout(s) ==
  /\ clock < MaxClock
  /\ router' = router \ {s}
  /\ clock' = clock + 1
  /\ UNCHANGED <<rows, lastPoll, report, polling, confirmed>>

TimePasses ==
  /\ clock < MaxClock
  /\ clock' = clock + 1
  /\ UNCHANGED <<router, rows, lastPoll, report, polling, confirmed>>

-----------------------------------------------------------------------------
(* One poll.                                                                 *)

(* Mutant: the difference is taken the wrong way round.                      *)
UptimeSwapped(s, readable) == IF readable THEN s.login - clock ELSE Null

(* What parse_uptime makes of an entry: seconds up, or None if it cannot.    *)
Uptime(s, readable) == IF readable THEN clock - s.login ELSE Null

(* active = list(api.path("ppp", "active")), and cur_active: of the entries  *)
(* with one name the last of the list stays.  A fetch that fails changes     *)
(* nothing.                                                                  *)
FetchActive ==
  /\ ~polling
  /\ \E entry \in [Users -> router \cup {Absent}], readable \in SUBSET Users :
       /\ \A u \in Users : IF SessionsOf(u) = {} THEN entry[u] = Absent ELSE entry[u] \in SessionsOf(u)
       /\ report' = [u \in Users |->
                      IF entry[u] = Absent THEN Absent
                      ELSE [rid |-> entry[u].login, up |-> Uptime(entry[u], u \in readable)]]
  /\ polling' = TRUE
  /\ UNCHANGED <<router, clock, rows, lastPoll, confirmed>>

IsOpen(r) == r.stop = Null

(* up + 5 < prev_up, both known: the login dropped and came back.            *)
Reconnected(r) ==
  LET e == report[r.user]
  IN  /\ e # Absent
      /\ r.up # Null /\ e.up # Null
      /\ e.up + Slack < r.up

Vanished(r) == report[r.user] = Absent

(* Mutant: a row that is closed is closed at the time of the poll.           *)
CloseRowNow(r) == [r EXCEPT !.stop = clock + 1]

(* session_stop = last_seen                                                  *)
CloseRow(r) == [r EXCEPT !.stop = r.seen]

(* last_seen and uptime follow the listing.                                  *)
RefreshRow(r, t) ==
  [r EXCEPT !.seen = t, !.up = report[r.user].up]

OpenRow(u, t) ==
  [user |-> u, rid |-> report[u].rid, start |-> t, stop |-> Null, seen |-> t, up |-> report[u].up]

(* Mutant: only users without any row get a new one.                         *)
NeedsRowOnce(u) == report[u] # Absent /\ \A r \in rows : r.user # u

(* Mutant: a row is opened for every user listed.                            *)
NeedsRowAlways(u) == report[u] # Absent

(* Users listed with no open row, or with one the reconnect closes.          *)
NeedsRow(u) ==
  /\ report[u] # Absent
  /\ \A r \in rows : r.user = u /\ IsOpen(r) => Reconnected(r)

(* Mutant: a returning user's closed row is taken up again.                  *)
SettleRowReopen(r, t) ==
  IF Vanished(r) THEN (IF IsOpen(r) THEN CloseRow(r) ELSE r)
  ELSE IF IsOpen(r) /\ Reconnected(r) THEN CloseRow(r)
  ELSE [RefreshRow(r, t) EXCEPT !.stop = Null]

(* Mutant: an uptime that cannot be read counts as a reconnect.               *)
SettleRowUnread(r, t) ==
  CASE ~IsOpen(r)                     -> r
    [] IsOpen(r) /\ (Vanished(r) \/ report[r.user].up = Null \/ Reconnected(r)) -> CloseRow(r)
    [] OTHER                          -> RefreshRow(r, t)

(* What a poll at time t makes of a row: closed rows are not touched.         *)
SettleRow(r, t) ==
  CASE ~IsOpen(r)                                   -> r
    [] IsOpen(r) /\ (Vanished(r) \/ Reconnected(r)) -> CloseRow(r)
    [] OTHER                                        -> RefreshRow(r, t)

(* apply_active: the transaction that settles the open rows, opens the new    *)
(* ones (ON CONFLICT (nas_id, username, session_start) DO NOTHING) and        *)
(* records the poll.  `now` is taken as the call is made.                     *)
ApplyActive ==
  LET t == clock + 1
      fresh == {u \in Users : NeedsRow(u) /\ \A r \in rows : r.user = u => r.start # t}
  IN  /\ polling /\ clock < MaxClock
      /\ rows' = {SettleRow(r, t) : r \in rows} \cup {OpenRow(u, t) : u \in fresh}
      /\ lastPoll' = t /\ clock' = t
      /\ confirmed' = {u \in Users : report[u] # Absent}
      /\ polling' = FALSE /\ report' = NoReport
      /\ UNCHANGED router

(* The process ends before the commit: nothing of the poll stays.             *)
AbortPoll ==
  /\ polling
  /\ polling' = FALSE /\ report' = NoReport
  /\ UNCHANGED <<router, clock, rows, lastPoll, confirmed>>

Next ==
  \/ \E u \in Users : Login(u)
  \/ \E s \in router : Logout(s)
  \/ TimePasses
  \/ FetchActive \/ ApplyActive \/ AbortPoll

Spec == Init /\ [][Next]_vars

-----------------------------------------------------------------------------
(* What a reader of the history may rely on.                                  *)

(* At most one open session per user: `open_rows` keeps one row per username, *)
(* so a second one would never be closed.                                     *)
OneOpenPerUser ==
  \A r, s \in rows : r.user = s.user /\ IsOpen(r) /\ IsOpen(s) => r = s

(* "Who is online now" is what the last successful poll saw, no less and no   *)
(* more, and every row so shown was confirmed by that poll.                   *)
OnlineIsLastListing ==
  /\ {r.user : r \in {x \in rows : IsOpen(x)}} = confirmed
  /\ \A r \in rows : IsOpen(r) => r.seen = lastPoll

(* Two recorded sessions of a user never overlap, even at their end points:   *)
(* an address and a time resolve to one session of the user at most.          *)
SessionsDisjoint ==
  \A r, s \in rows : r.user = s.user /\ r # s => r.seen < s.start \/ s.seen < r.start

(* session_stop is the last poll that CONFIRMED the user online, and no row   *)
(* claims time the polls did not see.                                         *)
StopIsLastConfirmed ==
  \A r \in rows : r.start <= r.seen /\ (~IsOpen(r) => r.stop = r.seen)

Exclusive(u) == u \notin Shared

(* The session a closed row was opened for is over on the router, if the user  *)
(* may have only one.                                                          *)
EndedSessionsAreOver ==
  \A r \in rows : Exclusive(r.user) /\ ~IsOpen(r) =>
    \A s \in router : s.user = r.user => s.login # r.rid

(* One router session of such a user is never recorded as two.                 *)
NoSplitSession ==
  \A r, s \in rows : Exclusive(r.user) /\ r.user = s.user /\ r.rid = s.rid => r = s

(* "session_stop = last_seen at the poll it disappeared": a session that is up *)
(* is never closed.                                                            *)
NoLiveSessionClosed ==
  \A r \in rows : ~IsOpen(r) => \A s \in router : s.user = r.user => s.login # r.rid

(* A closed session never changes again and is never removed.                 *)
ClosedRowsStay == [][\A r \in rows : ~IsOpen(r) => r \in rows']_vars
=============================================================================
