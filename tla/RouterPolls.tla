---------------------------- MODULE RouterPolls ----------------------------
(***************************************************************************)
(* The oneshot programs that ask every enabled MikroTik for its static ARP *)
(* entries, PPP secrets and connection tracking, and the pages that show   *)
(* what they stored.  A run goes from NAS to NAS on one database           *)
(* connection, and none of them rolls back: once a statement has failed    *)
(* the transaction refuses every other, and an error that is only logged   *)
(* goes on failing in the NASes that come after.                           *)
(***************************************************************************)
EXTENDS FiniteSets

LOCAL INSTANCE Naturals

CONSTANTS
  Nases,      (* rows of nas_devices                                         *)
  Users,      (* PPP usernames; NASes may have namesakes                     *)
  Persons,    (* what the comment of a secret says                           *)
  Ips, Macs,  (* of ARP entries                                              *)
  Ifaces,     (* interfaces of a router                                      *)
  Wan,        (* the one whose name contains WAN                             *)
  PublicIps,  (* addresses of the NAT pool                                   *)
  Null,       (* SQL NULL; no secret of that name                            *)
  ArpLimit,   (* LIMIT of the ARP page: 2000                                 *)
  MaxRuns,    (* bound: runs of the programs                                 *)
  MaxFaults   (* bound: statements that fail of themselves, kills            *)

ASSUME PollsAssumption ==
  /\ Null \notin Persons \cup Macs \cup Nases
  /\ Wan \in Ifaces
  /\ {ArpLimit, MaxRuns, MaxFaults} \subseteq Nat

VARIABLES
  cache,    (* mikrotik_secrets: the person of a NAS and username            *)
  arp,      (* mikrotik_arp                                                  *)
  stats,    (* mikrotik_conntrack_stats: NAS and run                         *)
  pool,     (* mikrotik_conntrack_pool: NAS, run and public address          *)
  bogon,    (* nas_devices.bogon_*: what the cached status rests on          *)
  version,  (* NASes whose RouterOS version is known                         *)
  program,  (* the one that runs, or ran last                                *)
  pc,       (* where it is in its loop                                       *)
  cur,      (* the NAS it is at                                              *)
  todo,     (* the NASes it has still to poll                                *)
  txn,      (* whether a statement on its connection has failed              *)
  run,      (* how many runs there were; also the time of the last           *)
  faults,
  heard,    (* history: what the NASes have told this run                    *)
  told,     (* history: what they have ever told of a username               *)
  settled,  (* history: NASes it has left before any statement failed        *)
  taken     (* history: NAS and username of each secret a run so settled     *)

tables  == <<cache, arp, stats, pool, bogon, version>>
control == <<program, pc, cur, todo, txn, run, faults>>
words   == <<heard, told>>
ghosts  == <<words, settled, taken>>
vars    == <<tables, control, ghosts>>

Programs == {"secrets", "arp", "tracking", "tracking and pool"}
Entry    == [ip : Ips, mac : Macs \cup {Null}, iface : Ifaces, dhcp : BOOLEAN]

(* Bound: a router lists at most two ARP entries.                              *)
ArpLists == {{}} \cup {{a, b} : a, b \in Entry}

Nothing ==
  [secrets |-> [u \in Users |-> Null], arp |-> {}, total |-> FALSE, pool |-> {}]

Init ==
  /\ cache = [x \in Nases \X Users |-> Null]
  /\ arp = {} /\ stats = {} /\ pool = {} /\ version = {}
  /\ bogon = [n \in Nases |-> "never read"]
  /\ program = "secrets" /\ pc = "idle" /\ cur = Null /\ todo = {} /\ txn = "clean"
  /\ run = 0 /\ faults = 0
  /\ heard = [n \in Nases |-> Nothing] /\ told = {}
  /\ settled = {} /\ taken = {}

-----------------------------------------------------------------------------
(* The connection.                                                             *)

(* A statement fails: of itself, or because one before it did.                 *)
StatementFails ==
  /\ txn' = "failed"
  /\ IF txn = "failed" THEN UNCHANGED faults ELSE faults < MaxFaults /\ faults' = faults + 1

(* A statement and its commit work, though the answer may not come back.       *)
Commits == txn = "clean" /\ (UNCHANGED <<txn, faults>> \/ StatementFails)

(* The program is through with this NAS and goes on to the next.               *)
Leave ==
  /\ pc' = "next" /\ cur' = Null /\ UNCHANGED <<program, todo, run>>
  /\ settled' = IF txn' = "clean" THEN settled \cup {cur} ELSE settled
  /\ taken' = IF txn' = "clean"
              THEN taken \cup {<<cur, u>> : u \in {x \in Users : heard'[cur].secrets[x] # Null}}
              ELSE taken

Goto(step) == pc' = step /\ UNCHANGED <<program, cur, todo, run, settled, taken>>

(* An exception nobody catches.                                                *)
Die == pc' = "idle" /\ cur' = Null /\ UNCHANGED <<program, todo, run, settled, taken>>

(* The NAS answers with a list, or with a number.                              *)
Hears(what, news) ==
  /\ heard' = [heard EXCEPT ![cur] = [@ EXCEPT ![what] = news]]
  /\ told' = IF what # "secrets" THEN told
             ELSE told \cup {<<cur, u, news[u]>> : u \in {x \in Users : news[x] # Null}}

(* main: the timer starts a program, which lists the NASes to poll, and ends   *)
(* when there are none.                                                        *)
Start(p) ==
  /\ pc = "idle" /\ run < MaxRuns
  /\ program' = p /\ run' = run + 1 /\ pc' = "next" /\ txn' = "clean" /\ UNCHANGED cur
  /\ todo' \in SUBSET Nases \ {{}}
  /\ heard' = [n \in Nases |-> Nothing] /\ settled' = {}
  /\ UNCHANGED <<tables, faults, told, taken>>

NextNas(n) ==
  /\ pc = "next" /\ n \in todo
  /\ cur' = n /\ todo' = todo \ {n} /\ pc' = "ask"
  /\ UNCHANGED <<tables, program, txn, run, faults, ghosts>>

End ==
  /\ pc = "next" /\ todo = {} /\ pc' = "idle"
  /\ UNCHANGED <<tables, program, cur, todo, txn, run, faults, ghosts>>

(* The password cannot be decrypted, the router not reached, or its list not   *)
(* read: that is logged.                                                       *)
RouterFails ==
  /\ pc = "ask"
  /\ UNCHANGED <<tables, txn, faults, words>>
  /\ Leave

(* systemd kills a program that takes too long, or the machine goes down.      *)
Kill ==
  /\ pc # "idle" /\ faults < MaxFaults /\ faults' = faults + 1
  /\ txn' = "failed" /\ Die
  /\ UNCHANGED <<tables, words>>

-----------------------------------------------------------------------------
(* mikrotik_secrets_sync.py                                                    *)

AskSecrets ==
  /\ pc = "ask" /\ program = "secrets"
  /\ \E list \in [Users -> Persons \cup {Null}] :
       /\ Hears("secrets", list)
       /\ UNCHANGED <<tables, txn, faults>>
       /\ IF \A u \in Users : list[u] = Null THEN Leave ELSE Goto("store")

(* Mutant: the cache knows one secret of a username.                           *)
UpsertSecretsByName(list) ==
  LET holders(u) == {n \in Nases : cache[<<n, u>>] # Null}
  IN  [x \in Nases \X Users |->
         IF list[x[2]] # Null
            /\ x[1] \in (IF holders(x[2]) = {} THEN {cur} ELSE holders(x[2]))
         THEN list[x[2]] ELSE cache[x]]

(* ON CONFLICT (nas_id, username) DO UPDATE: a secret that is gone stays.      *)
UpsertSecrets(list) ==
  [x \in Nases \X Users |->
     IF x[1] = cur /\ list[x[2]] # Null THEN list[x[2]] ELSE cache[x]]

(* A failing INSERT ends the run.                                              *)
StoreSecrets ==
  /\ pc = "store" /\ program = "secrets"
  /\ \/ Commits /\ cache' = UpsertSecrets(heard[cur].secrets)
     \/ StatementFails /\ UNCHANGED cache
  /\ UNCHANGED <<arp, stats, pool, bogon, version, words>>
  /\ IF txn' = "clean" THEN Leave ELSE Die

-----------------------------------------------------------------------------
(* mikrotik_arp_poll.py                                                        *)

Static(e) == ~e.dhcp /\ e.iface # Wan

(* The ARP list, then the bogon rules: when these cannot be read to the end,   *)
(* what was found of them goes for the whole.                                  *)
AskArp ==
  /\ pc = "ask" /\ program = "arp"
  /\ \E list \in ArpLists : Hears("arp", {e \in list : Static(e)})
  /\ \E s \in {"bogon", "part of bogon"} : Goto(s)
  /\ UNCHANGED <<tables, txn, faults>>

(* A failing UPDATE is logged, and the INSERT tried all the same.              *)
StoreBogon ==
  /\ \/ /\ Commits
        /\ \/ pc = "bogon" /\ bogon' = [bogon EXCEPT ![cur] = "all rules"]
           \/ pc = "part of bogon" /\ bogon' = [bogon EXCEPT ![cur] = "some rules"]
     \/ pc \in {"bogon", "part of bogon"} /\ StatementFails /\ UNCHANGED bogon
  /\ UNCHANGED <<cache, arp, stats, pool, version, words>>
  /\ IF heard[cur].arp = {} THEN Leave ELSE Goto("store")

(* Mutant: an address is a row.                                                *)
IsRowOfAddress(r, e) == r.nas = cur /\ r.ip = e.ip

(* ON CONFLICT (nas_id, ip_address, mac_address): a missing MAC is NULL, which  *)
(* equals nothing, so such an entry is inserted again in each run.             *)
IsRowOf(r, e) == r.nas = cur /\ r.ip = e.ip /\ r.mac = e.mac /\ e.mac # Null

UpsertArp(list) ==
  LET seen(r) == {e \in list : IsRowOf(r, e)}
      old     == {r \in arp : seen(r) = {}}
      again   == {[r EXCEPT !.last = run, !.iface = (CHOOSE e \in seen(r) : TRUE).iface] :
                    r \in arp \ old}
      new     == {[nas |-> cur, ip |-> e.ip, mac |-> e.mac, iface |-> e.iface,
                   first |-> run, last |-> run] :
                    e \in {x \in list : \A r \in arp : ~IsRowOf(r, x)}}
  IN  old \cup again \cup new

(* The same address and MAC on two interfaces: an INSERT may not update a row  *)
(* twice.                                                                      *)
Doubled(list) ==
  \E a, b \in list : a # b /\ a.ip = b.ip /\ a.mac = b.mac /\ a.mac # Null

(* A failing INSERT ends the run.                                              *)
StoreArp ==
  /\ pc = "store" /\ program = "arp"
  /\ \/ ~Doubled(heard[cur].arp) /\ Commits /\ arp' = UpsertArp(heard[cur].arp)
     \/ ~Doubled(heard[cur].arp) /\ StatementFails /\ UNCHANGED arp
     \/ Doubled(heard[cur].arp) /\ txn' = "failed" /\ UNCHANGED <<arp, faults>>
  /\ UNCHANGED <<cache, stats, pool, bogon, version, words>>
  /\ IF txn' = "clean" THEN Leave ELSE Die

-----------------------------------------------------------------------------
(* mikrotik_conntrack_poll.py                                                  *)

Connect ==
  /\ pc = "ask" /\ program \in {"tracking", "tracking and pool"}
  /\ Goto("version")
  /\ UNCHANGED <<tables, txn, faults, words>>

(* Whatever fails here is logged, and the poll goes on.                        *)
DetectVersion ==
  /\ pc = "version"
  /\ \/ UNCHANGED <<version, txn, faults>>
     \/ Commits /\ version' = version \cup {cur}
     \/ StatementFails /\ UNCHANGED version
  /\ Goto("tracking")
  /\ UNCHANGED <<cache, arp, stats, pool, bogon, words>>

(* The connection cannot be read any further: logged in poll_nas.              *)
ReadFails ==
  /\ pc \in {"tracking", "pool"}
  /\ UNCHANGED <<tables, txn, faults, words>>
  /\ Leave

PoolOrLeave == IF program = "tracking and pool" THEN Goto("pool") ELSE Leave

(* poll_tracking: a summary that is empty is passed over; a failing INSERT is   *)
(* logged in poll_nas, and the pool not polled.                                *)
PollTracking ==
  /\ pc = "tracking"
  /\ \/ UNCHANGED <<stats, txn, faults, words>> /\ PoolOrLeave
     \/ /\ Hears("total", TRUE)
        /\ \/ Commits /\ stats' = stats \cup {<<cur, run>>}
           \/ StatementFails /\ UNCHANGED stats
        /\ IF txn' = "clean" THEN PoolOrLeave ELSE Leave
  /\ UNCHANGED <<cache, arp, pool, bogon, version>>

(* poll_pool: a row for each public address with connections, and no INSERT     *)
(* when there are none.                                                        *)
PollPool ==
  /\ pc = "pool"
  /\ \E batch \in SUBSET PublicIps :
       /\ Hears("pool", batch)
       /\ \/ batch = {} /\ UNCHANGED <<pool, txn, faults>>
          \/ batch # {} /\ Commits
             /\ pool' = pool \cup {[nas |-> cur, ts |-> run, ip |-> i] : i \in batch}
          \/ batch # {} /\ StatementFails /\ UNCHANGED pool
  /\ Leave
  /\ UNCHANGED <<cache, arp, stats, bogon, version>>

Next ==
  \/ \E p \in Programs : Start(p)
  \/ \E n \in Nases : NextNas(n)
  \/ End \/ RouterFails \/ Kill
  \/ AskSecrets \/ StoreSecrets
  \/ AskArp \/ StoreBogon \/ StoreArp
  \/ Connect \/ DetectVersion \/ ReadFails \/ PollTracking \/ PollPool

Spec == Init /\ [][Next]_vars

-----------------------------------------------------------------------------
(* What the pages show.                                                        *)

(* _mt_enrich, _enrich: the secret of the translation's own NAS, or else some   *)
(* NAS's secret of that name.                                                  *)
Identities(n, u) ==
  IF cache[<<n, u>>] # Null THEN {cache[<<n, u>>]}
  ELSE {cache[<<m, u>>] : m \in Nases} \ {Null}

(* api_static_arp: of too many rows the page shows as many as it may, here any. *)
StaticArp(n) ==
  LET rows == {r \in arp : r.nas = n}
  IN  IF Cardinality(rows) <= ArpLimit THEN rows
      ELSE CHOOSE page \in SUBSET rows : Cardinality(page) = ArpLimit

ArpFits(n) == Cardinality({r \in arp : r.nas = n}) <= ArpLimit

(* nat_pool_status: the last snapshot of a NAS that had any row.               *)
PoolShown(n) ==
  {r.ip : r \in {x \in pool : x.nas = n /\ \A y \in pool : y.nas = n => y.ts <= x.ts}}

-----------------------------------------------------------------------------
(* The pages show what a NAS has told this run.                                *)
Shown(n) ==
  /\ \A u \in Users : heard[n].secrets[u] # Null => Identities(n, u) = {heard[n].secrets[u]}
  /\ ArpFits(n) => \A e \in heard[n].arp :
       LET rows == {r \in StaticArp(n) : r.ip = e.ip /\ r.mac = e.mac}
       IN  /\ \E r \in rows : r.last = run /\ r.iface = e.iface
           /\ e.mac # Null => Cardinality(rows) = 1
  /\ heard[n].total => <<n, run>> \in stats
  /\ heard[n].pool # {} => PoolShown(n) = heard[n].pool

(* A router that cannot be reached, that answers in part or has nothing to say  *)
(* costs no other NAS anything: as long as no statement fails each enabled NAS  *)
(* is asked, and whatever it says is what the pages show (the ARP page, while   *)
(* the NAS has no more rows than fit on it).                                    *)
ToldIsShown ==
  /\ \A n \in settled : Shown(n)
  /\ pc = "idle" /\ txn = "clean" => todo = {}

(* Once a sync has taken in a subscriber of a NAS, no later one, of whatever    *)
(* NAS, failed or killed or not, makes a question about that subscriber show a  *)
(* namesake of another NAS.                                                     *)
OwnIdentity ==
  \A n \in Nases, u \in Users :
    <<n, u>> \in taken => \A p \in Identities(n, u) : <<n, u, p>> \in told

(* "Only entries with a resolved MAC are tracked, excluding unresolved phantom   *)
(* ARP."                                                                        *)
OnlyResolvedTracked == \A r \in arp : r.mac # Null

(* A statement that fails for one NAS costs the run no other.                   *)
FailureCostsOneNas ==
  pc = "idle" /\ todo = {} => Cardinality({n \in Nases : ~Shown(n)}) <= 1
=============================================================================
