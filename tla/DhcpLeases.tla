----------------------------- MODULE DhcpLeases -----------------------------
(***************************************************************************)
(* The DHCP lease poller (scripts/mikrotik_dhcp_poll.py) against the two   *)
(* tables it keeps: the current leases, one row per MAC, and the history   *)
(* of the addresses each MAC held.  One NAS: every statement of the poller *)
(* is keyed by nas_id, and the NASes of one run are polled one after the   *)
(* other.                                                                  *)
(*                                                                         *)
(* Several poller processes may run at once: the timer's, and those the    *)
(* "refresh" button starts (app.py, refresh_dhcp).  The first statement of *)
(* a poll's transaction upserts the NAS's poll_state row, so from there to *)
(* the commit the transactions of one NAS exclude each other; the fetch    *)
(* and the timestamp come before it and do not.                            *)
(***************************************************************************)
EXTENDS Naturals

CONSTANTS
  Pollers,   (* poller processes                                            *)
  Servers,   (* DHCP servers on the router, each with its own leases        *)
  MACs,      (* client hardware addresses                                   *)
  IPs,       (* addresses the servers hand out                              *)
  NoIp,      (* a lease entry that shows no address; NULL in the table      *)
  NoLease,   (* the router holds no lease for this client                   *)
  NoRow,     (* the lease table has no row for this MAC                     *)
  Null,      (* SQL NULL: seen_to of an open interval; the lock nobody holds *)
  MaxClock   (* bound on the number of timed events                         *)

ASSUME DhcpAssumption ==
  /\ MaxClock \in Nat
  /\ NoIp \notin IPs
  /\ NoLease \notin IPs \cup {NoIp}
  /\ Null \notin Nat \cup Pollers
  /\ NoRow \notin [ip : IPs \cup {NoIp}, seen : Nat, active : BOOLEAN]

VARIABLES
  router,    (* external: what each server has leased to each client        *)
  clock,     (* the collector's clock; every stamp and router event is later *)
  leases,    (* mikrotik_dhcp_leases, committed                             *)
  hist,      (* mikrotik_dhcp_ip_history, committed                         *)
  lastPoll,  (* mikrotik_dhcp_poll_state.last_poll, committed               *)
  pc,        (* where each poller is in poll_nas                            *)
  todo,      (* lease entries each poller has fetched and not yet applied   *)
  now,       (* each poller's `now`                                         *)
  lock,      (* the poller whose transaction holds the poll_state row       *)
  txLeases,  (* the lease table as that transaction sees it                 *)
  txHist,    (* the history as that transaction sees it                     *)
  stored,    (* its `stored` dictionary: the lease rows as it first read them *)
  seen       (* its `seen_macs`                                             *)

tables == <<leases, hist, lastPoll>>
tx     == <<lock, txLeases, txHist, stored, seen>>
vars   == <<router, clock, tables, pc, todo, now, tx>>

Time     == Nat
Row      == [ip : IPs \cup {NoIp}, seen : Time, active : BOOLEAN]
Leases   == [MACs -> Row \cup {NoRow}]
Interval == [mac : MACs, ip : IPs, from : Time, to : Time \cup {Null}]
Entry    == [server : Servers, mac : MACs, ip : IPs \cup {NoIp}]

TypeOK ==
  /\ router \in [Servers -> [MACs -> IPs \cup {NoIp, NoLease}]]
  /\ clock \in Time
  /\ leases \in Leases /\ txLeases \in Leases /\ stored \in Leases
  /\ hist \subseteq Interval /\ txHist \subseteq Interval
  /\ lastPoll \in Time \cup {Null}
  /\ pc \in [Pollers -> {"idle", "fetched", "stamped", "applying"}]
  /\ todo \in [Pollers -> SUBSET Entry]
  /\ now \in [Pollers -> Time]
  /\ lock \in Pollers \cup {Null}
  /\ seen \subseteq MACs

Init ==
  /\ router = [s \in Servers |-> [m \in MACs |-> NoLease]]
  /\ clock = 0
  /\ leases = [m \in MACs |-> NoRow] /\ hist = {} /\ lastPoll = Null
  /\ pc = [p \in Pollers |-> "idle"]
  /\ todo = [p \in Pollers |-> {}]
  /\ now = [p \in Pollers |-> 0]
  /\ lock = Null
  /\ txLeases = leases /\ txHist = hist /\ stored = leases /\ seen = {}

-----------------------------------------------------------------------------
(* The router, which the program only reads.                               *)

(* A server leases an address no client holds, or shows a lease without one. *)
RouterLeases(s, m, ip) ==
  /\ clock < MaxClock
  /\ ip = NoIp \/ \A t \in Servers, n \in MACs : router[t][n] # ip
  /\ router' = [router EXCEPT ![s] = [@ EXCEPT ![m] = ip]]
  /\ clock' = clock + 1
  /\ UNCHANGED <<tables, pc, todo, now, tx>>

(* The lease runs out, or the client gives the address back.               *)
RouterReleases(s, m) ==
  /\ clock < MaxClock
  /\ router[s][m] # NoLease
  /\ router' = [router EXCEPT ![s] = [@ EXCEPT ![m] = NoLease]]
  /\ clock' = clock + 1
  /\ UNCHANGED <<tables, pc, todo, now, tx>>

-----------------------------------------------------------------------------
(* One poll: fetch the list, stamp it, apply it in one transaction.         *)

(* leases = list(api.path("ip", "dhcp-server", "lease")).  A fetch that     *)
(* fails changes nothing and the poller goes on to its next NAS.            *)
FetchLeases(p) ==
  /\ pc[p] = "idle"
  /\ pc' = [pc EXCEPT ![p] = "fetched"]
  /\ todo' = [todo EXCEPT ![p] = {e \in Entry : router[e.server][e.mac] = e.ip}]
  /\ UNCHANGED <<router, clock, tables, now, tx>>

(* now = datetime.now(), a step of its own after the fetch.                 *)
StampNow(p) ==
  /\ pc[p] = "fetched" /\ clock < MaxClock
  /\ clock' = clock + 1
  /\ now' = [now EXCEPT ![p] = clock + 1]
  /\ pc' = [pc EXCEPT ![p] = "stamped"]
  /\ UNCHANGED <<router, tables, todo, tx>>

(* The poll_state upsert takes the row lock; `stored` is read under it.     *)
BeginTx(p) ==
  /\ pc[p] = "stamped" /\ lock = Null
  /\ lock' = p
  /\ txLeases' = leases /\ txHist' = hist /\ stored' = leases /\ seen' = {}
  /\ pc' = [pc EXCEPT ![p] = "applying"]
  /\ UNCHANGED <<router, clock, tables, todo, now>>

(* The row and the intervals the loop body writes for one entry.            *)
Open(m, ip, t) == [mac |-> m, ip |-> ip, from |-> t, to |-> Null]

CloseOpen(h, m, t) == {IF i.mac = m /\ i.to = Null THEN [i EXCEPT !.to = t] ELSE i : i \in h}

(* Mutant: an interval is opened even for an entry that shows no address.    *)
InsertLeaseNullIp(p, e) ==
  /\ stored[e.mac] = NoRow
  /\ txLeases' = IF txLeases[e.mac] # NoRow THEN txLeases
                 ELSE [txLeases EXCEPT ![e.mac] = [ip |-> e.ip, seen |-> now[p], active |-> TRUE]]
  /\ txHist' = txHist \cup {Open(e.mac, e.ip, now[p])}

(* A MAC `stored` does not know: insert its lease, unless the transaction    *)
(* already did (ON CONFLICT DO NOTHING), and open an interval if it shows an *)
(* address.                                                                  *)
InsertLease(p, e) ==
  /\ stored[e.mac] = NoRow
  /\ txLeases' = IF txLeases[e.mac] # NoRow THEN txLeases
                 ELSE [txLeases EXCEPT ![e.mac] = [ip |-> e.ip, seen |-> now[p], active |-> TRUE]]
  /\ txHist' = txHist \cup (IF e.ip = NoIp THEN {} ELSE {Open(e.mac, e.ip, now[p])})

(* Mutant: a changed address overwrites the open interval in place.          *)
ChangeAddressInPlace(h, m, ip, t) ==
  {i \in h : i.mac # m \/ i.to # Null} \cup {Open(m, ip, t)}

(* Mutant: the interval is closed at the time the lease was last seen.       *)
ChangeAddressEarly(h, m, ip, t) == CloseOpen(h, m, stored[m].seen) \cup {Open(m, ip, t)}

(* The open interval of the MAC is closed and the next one opened.           *)
ChangeAddress(h, m, ip, t) == CloseOpen(h, m, t) \cup {Open(m, ip, t)}

(* A known MAC: if the entry shows an address other than the stored one, the *)
(* history moves on; the row is refreshed, COALESCE(new, old).               *)
UpdateLease(p, e) ==
  /\ stored[e.mac] # NoRow
  /\ txHist' = IF e.ip # NoIp /\ stored[e.mac].ip # e.ip
               THEN ChangeAddress(txHist, e.mac, e.ip, now[p])
               ELSE txHist
  /\ txLeases' = [txLeases EXCEPT ![e.mac] = [ip     |-> IF e.ip = NoIp THEN @.ip ELSE e.ip,
                                              seen   |-> now[p],
                                              active |-> TRUE]]

(* One turn of the loop over the list, whose order is the router's.           *)
ApplyEntry(p) ==
  /\ lock = p
  /\ \E e \in todo[p] :
       /\ InsertLease(p, e) \/ UpdateLease(p, e)
       /\ todo' = [todo EXCEPT ![p] = @ \ {e}]
       /\ seen' = seen \cup {e.mac}
  /\ UNCHANGED <<router, clock, tables, pc, now, lock, stored>>

(* Mutant: an empty list leaves the rows as they are.                          *)
MarkUnseenIfAny ==
  [m \in MACs |-> IF seen = {} \/ m \in seen \/ txLeases[m] = NoRow THEN txLeases[m]
                  ELSE [txLeases[m] EXCEPT !.active = FALSE]]

(* active=false for every row the list did not name, for all rows when it named none. *)
MarkUnseen ==
  [m \in MACs |-> IF m \in seen \/ txLeases[m] = NoRow THEN txLeases[m]
                  ELSE [txLeases[m] EXCEPT !.active = FALSE]]

(* The list is exhausted: mark what it did not name, and commit.               *)
CommitTx(p) ==
  /\ lock = p /\ todo[p] = {}
  /\ leases' = MarkUnseen /\ txLeases' = MarkUnseen
  /\ hist' = txHist
  /\ lastPoll' = now[p]
  /\ lock' = Null
  /\ stored' = leases' /\ seen' = {}
  /\ pc' = [pc EXCEPT ![p] = "idle"]
  /\ UNCHANGED <<router, clock, todo, now, txHist>>

(* Mutant: the lease rows are committed as they are written, the history is not. *)
AbortHalfCommitted(p) ==
  /\ pc[p] # "idle"
  /\ pc' = [pc EXCEPT ![p] = "idle"]
  /\ todo' = [todo EXCEPT ![p] = {}]
  /\ IF lock = p
     THEN /\ leases' = txLeases /\ lock' = Null
          /\ txLeases' = leases' /\ txHist' = hist /\ stored' = leases' /\ seen' = {}
     ELSE UNCHANGED <<leases, tx>>
  /\ UNCHANGED <<router, clock, hist, lastPoll, now>>

(* An exception, which main() answers with rollback(), or the end of the process *)
(* (the refresh button's poller is killed after 45 seconds).                      *)
Abort(p) ==
  /\ pc[p] # "idle"
  /\ pc' = [pc EXCEPT ![p] = "idle"]
  /\ todo' = [todo EXCEPT ![p] = {}]
  /\ IF lock = p
     THEN /\ lock' = Null
          /\ txLeases' = leases /\ txHist' = hist /\ stored' = leases /\ seen' = {}
     ELSE UNCHANGED tx
  /\ UNCHANGED <<router, clock, tables, now>>

Poll(p) == FetchLeases(p) \/ StampNow(p) \/ BeginTx(p) \/ ApplyEntry(p) \/ CommitTx(p) \/ Abort(p)

Next ==
  \/ \E s \in Servers, m \in MACs :
       (\E ip \in IPs \cup {NoIp} : RouterLeases(s, m, ip)) \/ RouterReleases(s, m)
  \/ \E p \in Pollers : Poll(p)

Spec == Init /\ [][Next]_vars

-----------------------------------------------------------------------------
(* What a reader of the tables may rely on.                                    *)

OpenOf(h, m) == {i \in h : i.mac = m /\ i.to = Null}

Agrees(l, h) ==
  \A m \in MACs :
    /\ \A i, j \in OpenOf(h, m) : i = j
    /\ \A i \in OpenOf(h, m) : l[m] # NoRow /\ l[m].ip = i.ip
    /\ l[m] # NoRow /\ l[m].ip # NoIp => OpenOf(h, m) # {}

(* The two tables tell the same story: a MAC whose lease row shows an address  *)
(* has exactly one open interval, for that address, and no other MAC has one.  *)
(* apply_leases keeps them in step with separate statements in one transaction.*)
HistoryAgreesWithLease == Agrees(leases, hist)

(* A MAC never has two open intervals ("the current history interval").        *)
OneOpenPerMac == \A m \in MACs : \A i, j \in OpenOf(hist, m) : i = j

(* The history of a MAC has no gap: each closed interval ends at the very moment *)
(* another one begins.                                                          *)
HistoryHasNoGap ==
  \A i \in hist : i.to # Null => \E j \in hist : j.mac = i.mac /\ j.from = i.to

(* A MAC's lease row is active exactly when the poll recorded in poll_state    *)
(* saw it.                                                                     *)
ActiveIffInLastPoll ==
  \A m \in MACs : leases[m] # NoRow => (leases[m].active <=> leases[m].seen = lastPoll)

(* "a past DHCP IP resolves to the MAC that held it at that time": no two MACs *)
(* hold one address at the same time.                                          *)
OneHolderPerIp ==
  \A i, j \in hist : i.ip = j.ip /\ i.to = Null /\ j.to = Null => i.mac = j.mac

(* Evidence is append-only: whatever a poll commits, a closed interval stays   *)
(* as it is and an open one stays or is closed, its owner, address and start   *)
(* unchanged.                                                                  *)
Keeps(h, g) ==
  \A i \in h : \/ i \in g
               \/ i.to = Null /\ \E j \in g : j = [i EXCEPT !.to = j.to]

HistoryAppendOnly == [][Keeps(hist, hist')]_vars
=============================================================================
