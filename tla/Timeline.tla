------------------------------ MODULE Timeline ------------------------------
(***************************************************************************)
(* What the pages make of a subscriber's past: the activity windows of     *)
(* scripts/mikrotik_sessions.py, the username query and the subscriber     *)
(* timeline of app.py.  It composes the PPP session poller (PppSessions)   *)
(* with the translations its users leave in mikrotik_translations.  The    *)
(* pages only read, so they are operators over the state; a page and the   *)
(* poll it meets are each one step, since no property is about a page      *)
(* whose statements see different commits.                                 *)
(***************************************************************************)
EXTENDS PppSessions, SequencesExt

CONSTANTS
  Alike,        (* pairs <<p, u>>: ILIKE takes the name p for a pattern that
                   u matches: `_` in a name stands for any character         *)
  Gap,          (* an idle time longer than this splits a window; GAP_SECONDS *)
  WindowLimit,  (* MAX_WINDOWS                                               *)
  ConnsShown,   (* MAX_CONNS_PER_WINDOW, and the LIMIT 500 of a session      *)
  RowLimit,     (* LIMIT 20000 of the rows made into windows                 *)
  SessionLimit, (* LIMIT 200 of the sessions listed                          *)
  MaxConns      (* bound on translations                                     *)

ASSUME TimelineAssumption ==
  /\ Alike \subseteq Users \X Users
  /\ Gap \in Nat
  /\ {WindowLimit, ConnsShown, RowLimit, SessionLimit} \subseteq Nat \ {0}
  /\ ConnsShown <= RowLimit
  /\ MaxConns \in Nat

VARIABLES
  conns,  (* mikrotik_translations: who, in which router session, when, and
             the how-manyth of that second                                    *)
  since,  (* mikrotik_ppp_poll_state.polling_since                          *)
  polls   (* history: what each applied listing said, and when              *)

tvars == <<vars, conns, since, polls>>

TimelineInit == Init /\ conns = {} /\ since = Null /\ polls = {}

(* polling_since is what DEFAULT now() gives the row of the first poll; the   *)
(* later ones leave it.                                                       *)
FirstPoll == IF since = Null THEN lastPoll' ELSE since

Heard ==
  IF lastPoll' = lastPoll THEN {}
  ELSE {[user |-> u, rid |-> report[u].rid, at |-> lastPoll'] : u \in {x \in Users : report[x] # Absent}}

(* The poller and the router, as before.                                      *)
PppStep == Next /\ since' = FirstPoll /\ polls' = polls \cup Heard /\ UNCHANGED conns

(* A user whose session is up opens a connection; the router logs it.         *)
Connect(s) ==
  /\ Cardinality(conns) < MaxConns
  /\ LET same == {c \in conns : c.user = s.user /\ c.login = s.login /\ c.at = clock}
         c    == [user |-> s.user, login |-> s.login, at |-> clock, nth |-> Cardinality(same) + 1]
     IN  conns' = conns \cup {c}
  /\ UNCHANGED <<vars, since, polls>>

TimelineNext == PppStep \/ \E s \in router : Connect(s)

TimelineSpec == TimelineInit /\ [][TimelineNext]_tvars

-----------------------------------------------------------------------------
(* mikrotik_sessions.build_windows                                           *)

(* ORDER BY log_time; rows of one second in some order.                       *)
Sooner(c, d) ==
  \/ c.at < d.at
  \/ c.at = d.at /\ (c.login < d.login \/ (c.login = d.login /\ c.nth < d.nth))

ByTime(S) ==
  CHOOSE q \in [1..Cardinality(S) -> S] : \A i, j \in 1..Cardinality(S) : i < j => Sooner(q[i], q[j])

Oldest(S, n) == LET q == ByTime(S) IN SubSeq(q, 1, IF n < Len(q) THEN n ELSE Len(q))

(* Mutant: a gap of exactly GAP_SECONDS splits the window too.                *)
StrictlyContinues(w, c) == c.at - w.last < Gap

Continues(w, c) == c.at - w.last <= Gap

(* _new_window, _extend_window: the count goes on when the drill-down is full. *)
NewWindow(c) == [start |-> c.at, last |-> c.at, count |-> 1, conns |-> <<c>>]

ExtendWindow(w, c) ==
  [w EXCEPT !.last = c.at, !.count = @ + 1,
            !.conns = IF Len(@) < ConnsShown THEN Append(@, c) ELSE @]

TakeRow(ws, c) ==
  IF ws # <<>> /\ Continues(Last(ws), c)
  THEN Append(Front(ws), ExtendWindow(Last(ws), c))
  ELSE Append(ws, NewWindow(c))

(* A window has no stop if its last connection is within the gap of `now`.    *)
Shape(w, now) ==
  [source |-> "reconstructed", start |-> w.start, count |-> w.count, conns |-> w.conns,
   stop |-> IF now - w.last <= Gap THEN Null ELSE w.last]

(* Newest first, and only the newest of them.                                 *)
BuildWindows(q, now) ==
  LET ws   == FoldLeft(TakeRow, <<>>, q)
      kept == SubSeq(ws, IF Len(ws) > WindowLimit THEN Len(ws) - WindowLimit + 1 ELSE 1, Len(ws))
  IN  [i \in DOMAIN kept |-> Shape(Reverse(kept)[i], now)]

-----------------------------------------------------------------------------
(* The pages.                                                                 *)

(* WHERE username ILIKE the name given                                        *)
Matching(p) == {u \in Users : u = p \/ <<p, u>> \in Alike}

ConnsOf(p, lo, hi) == {c \in conns : c.user \in Matching(p) /\ lo <= c.at /\ c.at <= hi}

(* /username-query: the oldest rows of the range, as windows.                 *)
UsernameQuery(p, lo, hi) == BuildWindows(Oldest(ConnsOf(p, lo, hi), RowLimit), clock)

(* The newest sessions recorded under the name.                               *)
SessionsListed(p) ==
  LET own == {r \in rows : r.user \in Matching(p)}
  IN  {r \in own : Cardinality({s \in own : s.start > r.start}) < SessionLimit}

(* A session with the connections of the name while it lasted: to now, if it  *)
(* is open.                                                                   *)
SessionEntry(p, r) ==
  LET shown == Oldest(ConnsOf(p, r.start, IF IsOpen(r) THEN clock ELSE r.stop), ConnsShown)
  IN  [source |-> "ppp-session", start |-> r.start, stop |-> r.stop,
       count |-> Len(shown), conns |-> shown]

(* Mutant: log_time <= polling_since.                                         *)
UntilPolling(p) == ConnsOf(p, 0, since)

(* log_time < polling_since                                                   *)
BeforePolling(p) == ConnsOf(p, 0, since - 1)

(* Windows for the time before polling began, as of that time; none where no  *)
(* poll was ever made.                                                        *)
Reconstructed(p) ==
  IF since = Null THEN <<>> ELSE BuildWindows(Oldest(BeforePolling(p), RowLimit), since)

(* /subscriber-timeline: its entries, whatever their order.                   *)
SubscriberTimeline(p) ==
  {SessionEntry(p, r) : r \in SessionsListed(p)} \cup Range(Reconstructed(p))

-----------------------------------------------------------------------------
(* Properties.                                                                *)

(* Two connections belong together if no idle time longer than the gap lies   *)
(* between them.                                                              *)
Together(S, c, d) ==
  \A x \in S : (c.at <= x.at /\ x.at < d.at) \/ (d.at <= x.at /\ x.at < c.at) =>
    \E y \in S : x.at < y.at /\ y.at <= x.at + Gap

Periods(S) == {{d \in S : Together(S, c, d)} : c \in S}

LatestIn(k)   == Max({c.at : c \in k})
EarliestIn(k) == Min({c.at : c \in k})

(* What a window of the page ought to say of a period of activity.            *)
AsWindow(k) ==
  [start |-> EarliestIn(k), count |-> Cardinality(k),
   stop  |-> IF clock - LatestIn(k) <= Gap THEN Null ELSE LatestIn(k)]

(* The windows of a username query are the periods of activity of the rows it  *)
(* read, newest first, each from its first to its last connection, none split  *)
(* or run together, and only older ones left out.                              *)
WindowsAreActivity ==
  \A p \in Users, hi \in {clock - 1, clock} :
    LET S    == Range(Oldest(ConnsOf(p, 0, hi), RowLimit))
        ws   == UsernameQuery(p, 0, hi)
        told == {[start |-> w.start, count |-> w.count, stop |-> w.stop] : w \in Range(ws)}
        due  == {AsWindow(k) : k \in Periods(S)}
    IN  /\ told \subseteq due
        /\ \A i, j \in DOMAIN ws : i < j => ws[j].start < ws[i].start
        /\ \A k \in due \ told : Len(ws) = WindowLimit /\ \A w \in told : k.start < w.start

(* A name that, taken for a pattern, matches itself alone.                    *)
Plain(u) == Matching(u) = {u}

EntriesShowing(c) == {e \in SubscriberTimeline(c.user) : c \in Range(e.conns)}

(* Polls heard of the connection's session no later and no earlier than it.    *)
Confirmed(c) ==
  \E e, f \in polls : e.user = c.user /\ e.rid = c.login /\ e.at <= c.at
                   /\ f.user = c.user /\ f.rid = c.login /\ f.at >= c.at

(* A connection of a user with a plain name and one session at a time is shown *)
(* at most once on the timeline, and it is shown if it was made before polling *)
(* began or between two polls that heard of its session, as long as no limit   *)
(* of the page is reached: the two sources neither overlap nor leave a hole    *)
(* where they meet, and a reconnect or an unread uptime hides nothing.         *)
EvidenceShownOnce ==
  \A c \in conns : Plain(c.user) /\ Exclusive(c.user) =>
    LET shown == Cardinality(EntriesShowing(c))
        cut   == \/ Cardinality(ConnsOf(c.user, 0, clock)) > ConnsShown
                 \/ Cardinality({r \in rows : r.user = c.user}) > SessionLimit
                 \/ Len(Reconstructed(c.user)) >= WindowLimit
    IN  /\ shown <= 1
        /\ since # Null /\ (c.at < since \/ Confirmed(c)) /\ ~cut => shown = 1

(* "None if window is still open, i.e. its last connection is within           *)
(* GAP_SECONDS of now": an entry made from connections alone is shown as still *)
(* going on only while that is so.                                             *)
OpenWindowIsRecent ==
  \A p \in Users : \A w \in Range(Reconstructed(p)) :
    w.stop = Null => \E c \in conns : c.user \in Matching(p) /\ w.start <= c.at /\ clock - c.at <= Gap
=============================================================================
