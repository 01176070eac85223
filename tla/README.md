# TLA+ models of the IPDR / CGNAT compliance system

The repository collects what a legal request about a public address needs: which subscriber held
which address and port at which moment. Log lines and poll results come in from Juniper and MikroTik
routers and from RADIUS, are turned into rows of a PostgreSQL database by a handful of scripts, and are
searched by a Flask application. A wrong row is worse than a missing one: it names the wrong person.
The models here are about the scripts that turn observations into evidence, the pages that answer from
it, and what keeps both going: retention, partitions and the registry of routers.

TLA+ modules, TLC configurations and TLAPS proofs are all in this directory; `PROJECT.json` maps every
definition to the source lines it stands for and lists runs, mutants, hazards, findings and theorems.

    tlc -workers 2 -config MCDhcpTwoPollers.cfg MCDhcpLeases      # a run
    tlapm DhcpLeasesProofs.tla                                    # the proofs of a module

## 1. Inventory

State is in the database unless said otherwise. "Hard" is what tests would hardly reach.

| Component (source) | State it keeps | Operations | Interacts with | Hard | What makes it correct |
|---|---|---|---|---|---|
| DHCP lease poller (`scripts/mikrotik_dhcp_poll.py`, timer every 120 s, button in `app.py:1962`) | `mikrotik_dhcp_leases`, `mikrotik_dhcp_ip_history`, `poll_state` | fetch the list, stamp, apply in one transaction, mark the unseen inactive | the router; a second poller started by the button | two pollers on one NAS, a poller killed after 45 s, lists that name a MAC twice | leases and history tell one story; the history has no gaps, is never rewritten, and an address has one holder |
| PPP session poller (`scripts/mikrotik_ppp_poll.py`, timer every 60 s) | `mikrotik_ppp_sessions`, `poll_state` | fetch `/ppp/active`, diff against open rows, close at the last confirmed time | the router | listings that are old when applied, missed polls, reconnects between polls, several sessions of a user | one open session per user, disjoint sessions, a closed session is over, never split, never rewritten |
| MikroTik ingest daemon (`scripts/mikrotik_ingest.py`, `deploy/mikrotik-ingest.service`) | `mikrotik_translations`; in memory: batch, read position, NAS map, connection | tail, attribute, batch, flush, follow rotation, refresh the map, stop | rsyslog and logrotate (the file), PostgreSQL, the NAS registry, systemd | outages, commits whose answer is lost, dead connections, truncation, restarts, stale map | each line at most once and in order; nothing vanishes unaccounted; right NAS; no row waits for ever |
| MikroTik log parser (`scripts/mikrotik_parser.py`) | none | `parse_line` | ingest daemon | a year inferred from a date without one | a line's translation and time |
| Juniper NAT parser (`scripts/nat_parser.py`) | `nat_logs`; in memory: two buffers, the year it was started in | parse, buffer, flush by count, update on RELEASE, final flush | PostgreSQL, the pipe, signals | RELEASE before its ALLOC is flushed, a signal inside a flush, a quiet line, New Year | each allocation once, released when it was, dated in its year |
| NAT log tail wrapper (`scripts/nat_tail.sh`) | the file it follows | look at the date, kill tail, wait for the file, tail it | rsyslog (a file a day), the parser at the end of its pipe | midnight, a day without a file, a parser that dies | each line once, in order, without gap |
| RADIUS detail watcher (`scripts/radius_parser.py`) | `radius_accounting`; positions in memory and in a file | list files, read new records, insert or update, commit by hundreds, save positions | FreeRADIUS (detail files), PostgreSQL | crash between commit and position save, half-written records, Interim after Stop, one record that always fails | no session lost, replays harmless, the holder is found |
| Partition maintenance (`scripts/mikrotik_partition_maint.py`) | day partitions of `mikrotik_translations` and its DEFAULT | create ahead, drop the expired | ingest daemon | rows in DEFAULT that block a CREATE, days without a run | a partition for every coming day; old days leave |
| Retention and guard (`scripts/mikrotik_purge.py`, `storage-guard.sh`, `app.py:1450`) | rows by age | delete in batches, oldest first while the disk is full | ingest daemon, partition maintenance | deleting while rows come in and partitions go | nothing within its retention goes before what is older |
| NAS registry (`app.py:2634-3198`, `scripts/nas-apply.sh`) | `nas_devices`; firewall rules, RADIUS clients file | add, edit, enable, delete (staged), apply | firewall, FreeRADIUS, the ingest daemon's map | edits during an apply, edits that forget old ports, enabling what is being removed | after an apply the rules match the registry |
| LEA lookup (`mikrotik_lea.py`, `lea_resolve.py`, `app.py:432`, `2110-2338`) | none | address, port, time to subscriber | all of the tables above | time windows at their ends, several sources that disagree | the answer is the holder at that time |
| LEA request parser (`lea_request_parser.py`) | none | text to tuples | LEA lookup | pairing of fields | every tuple was in the text |
| Session windows and timeline (`mikrotik_sessions.py`, `app.py:583`, `1992`) | none | rows to windows; windows and sessions to a timeline | PPP poller, ingest daemon | open and missing ends, the moment polling began | windows are periods of activity; a connection is shown once |
| ARP, secrets, conntrack pollers (`scripts/mikrotik_arp_poll.py`, `mikrotik_secrets_sync.py`, `mikrotik_conntrack_poll.py`; shown by `app.py:471`, `818`, `1492`) | `mikrotik_arp`, `mikrotik_secrets`, `mikrotik_conntrack_*`, bogon status and version in `nas_devices` | ask NAS after NAS, upsert or append | routers, the LEA lookup (identities), the pages | one connection for all NASes that nobody rolls back; namesakes on several NASes | what a router said is what is shown; no subscriber becomes a namesake |
| Caches (`dashboard_stats_refresh.py`, `analytics_refresh.py`) | figures of the pages | recompute | tables | stale figures | a figure is one that was true |
| Web accounts and audit (`app.py:115-297`, `1183-1244`, `1740`) | users, audit log, cookies | login, change, audit | browsers | rights changed in mid-session | each change is audited |
| Web pages, configuration generator, branding, enrichment, metrics | none | render | - | - | not modelled: output without state |

`PROJECT.json` lists, under "hazards", each place where this can go wrong, with the property that would
show it or the reason none does yet.

## 2. The modules

| Module | Models | Used by |
|---|---|---|
| `DhcpLeases` | the lease poller's processes, its transaction, the router | `MCDhcpLeases`, `DhcpLeasesProofs` |
| `DhcpLeasesProofs` | theorems | |
| `PppSessions` | the session poller, the router, time | `MCPppSessions`, `PppSessionsProofs` |
| `PppSessionsProofs` | theorems about `PppSessions` and `Timeline`: from a listing to the page | |
| `LineTransfer` | abstract: what ingestion promises about each line | `MikrotikIngest` (refinement) |
| `MikrotikIngest` | the ingest daemon, rsyslog, logrotate, PostgreSQL, the registry | `MCMikrotikIngest`, `TranslationsProofs` |
| `NatPba` | the Juniper parser's process, its buffers and signal handler, the router, PostgreSQL | `MCNatPba`, `JuniperProofs` |
| `NatTail` | the file of the day, tail, pipe and parser of Juniper lines; the year of a stamp | `MCNatTail`, `JuniperProofs` |
| `JuniperProofs` | theorems about `NatPba` and `NatTail`: a Juniper line from its file to its row | |
| `RadiusWatch` | the RADIUS watcher, FreeRADIUS, the table and the position file | run directly, `RadiusWatchProofs` |
| `RadiusWatchProofs` | theorems | |
| `NasRegistry` | the settings pages and `nas-apply.sh`, any number at once | `MCNasRegistry`, `NasRegistryProofs` |
| `NasRegistryProofs` | theorems | |
| `Storage` | partitions, retention and guard against ingestion | `MCStorage`, `ScheduledProofs` |
| `Timeline` | `PppSessions` with the connections of its users, and the pages over both | `MCTimeline`, `PppSessionsProofs` |
| `RouterPolls` | the ARP, secrets and conntrack pollers, their connection, what is shown of their tables | `MCRouterPolls`, `ScheduledProofs` |
| `ScheduledProofs` | theorems about `RouterPolls` and `Storage`: what timers start | |
| `LeaRequests` | the request parser: from evidence in a text to questions | `LeaLookup` |
| `LeaLookup` | the network, ingestion and every form of lookup over `mikrotik_translations` | `MCLeaLookup`, `TranslationsProofs` |
| `TranslationsProofs` | theorems about `MikrotikIngest` and `LeaLookup`: a MikroTik line from its file to the answer | |
| `FoldLemmas` | lemmas: induction along a sequence, and what a fold makes of it | `TranslationsProofs`, `PppSessionsProofs` |

Components are composed where one reads what another writes: `Timeline` extends the PPP poller with the
translations table and the pages over both; `LeaLookup` extends the request parser with the lookups and
the table the ingest daemon fills; `Storage` has partitions, guard, purge and ingestion on one table;
`NasRegistry` has the pages and the root helper on one registry; the ingest daemon's map of enabled NASes
is in `MikrotikIngest`. `NatTail` ends where `NatPba` begins: at a line the parser has read.

### DhcpLeases

Several processes run `poll_nas` on one NAS. A poll is cut where another process can come between:
`FetchLeases` (the list, line 150), `StampNow` (`now`, line 170), `BeginTx` (the `poll_state` upsert,
whose row lock the transaction holds to its end, and the read of `stored`), `ApplyEntry` once for each
entry (`InsertLease` or `UpdateLease`), `CommitTx` (mark the unseen inactive, commit), and `Abort` at any
point (rollback, or the process is killed). The transaction works on `txLeases` and `txHist`; `leases` and
`hist` are what is committed. The order of the entries is left open. The router (`RouterLeases`,
`RouterReleases`) gives an address to one client at a time. The stamps are distinct: each `StampNow` and
each router event advances `clock`. Hostname, comment, server name, status and class id are left out:
nothing depends on them.

### PppSessions

One process (a oneshot unit never overlaps itself). `FetchActive` takes a listing, `ApplyActive` applies
it in one transaction, and the router goes on in between (`Login`, `Logout`, `TimePasses`); `AbortPoll` is
a poll that dies. A router session is identified by its login time, which is also the `router_session_id`
of its row, and its uptime is `clock - login`, or unreadable (`Null`, what `parse_uptime` makes of text it
does not know). `Shared` is the set of users whose profile allows several sessions at once; of these the
listing keeps one entry, whichever comes last (`cur_active`). Framed address, caller id and service are
left out: they are copied along and decide nothing.

### MikrotikIngest

A line is a number; the capture file is the lines after `base` (the last truncation). `pos` is `f.tell()`,
`chunk` what Python's read buffer holds already: readline() may hand out lines that a truncation has
removed from the file since. A step is one turn of the loop of `run()`, cut at the reading and the `stat`:
`ReadLine` (with the flush of a full batch), `QuietFlush`/`QuietNoFlush` (nothing to read: refresh, flush if
due), `CheckRotation`, `OpenCapture`. `FlushRows` has the three outcomes of `flush()`: inserted; dropped,
because the database or the connection is gone or a row is refused; inserted, but the answer is lost.
`conn` keeps that a connection which died is noticed only at its next use. `StopSignal`, `Shutdown`,
`Crash` and `Start` are the life of the process under systemd (`Restart=always`). `read`, `unknown`,
`lost`, `floor` and `registered` are history: they record what happened and no action reads them to decide
anything.

`LineTransfer` is the promise: a line is unwritten, then pending or at once gone; pending may become
stored or gone; stored and gone are final. The run `ingest` checks that the daemon implements it
under the mapping `Fate`.

Left out: lines that `parse_line` refuses (dropped where they are read, `mikrotik_ingest.py:127`), lines longer
than a read, lines half written when they are read, undecodable bytes (a crash), rotation by rename, and a
capture file that is missing.

### NatPba

A line is known by its number, which also stands for its time: two lines in one second are left out, and the year that
`parse_syslog_timestamp` adds is in `NatTail`. `ReadLine` is `parse_line` as far as the buffer, and `todo`
lists what is left to do for that line in the order of the code: flush a full buffer, update the released
allocation, and now and then flush both (every so many lines, which the model leaves open). A flush is cut
at its INSERT (`Flush`), its `commit` (`Commit`) and its `clear` (`Clear`), because SIGTERM may come between
any two and run `flush_all` over the same buffers and connection (`Signal`). `Raise` is what a dead
connection leads to: the `rollback()` of the `except` clause raises in its turn, and the exception leaves
`parse_line`. With `--mode stdin` it ends the process; with `--mode pipe`, `main` answers with `flush_all`,
which raises again if a buffer holds anything. `lines` and `holder` are the router, which gives a block to one
subscriber at a time. A "garbled" line is matched by the patterns but refused by a column, so the INSERT
of every batch it is in fails. Garbled flows, pool names, counters and the raw text are left out.

`HeldAt` and `Named` are the two sides of `HolderIsNamed`: who held a block according to the router, and
what the query of `app.py:521` finds.

### NatTail

A date is a year and one of three days: January, a 29th of February, December; the program treats all
others as it treats the second in a leap year. The wrapper is three steps of its loop: `Look` (the date is
not that of `CURRENT`: kill tail), `Follow` (the file is there: tail it from its end), and the rest of
the loop is waiting; `waiting` is the `while [ ! -f "$TODAY" ]`, whose date is fixed when it begins. `TailEmits` is
tail, and dies of SIGPIPE when the parser has. `Parse` takes a line from the pipe and dates it by `TimeOf`
(`parse_syslog_timestamp`), with the year the parser was started in. rsyslog may open the file of a day late
or never (`OpenFile`), and a router's stamp may be of the day before or after (`Receive`). `ParserDies` leaves
the loop before the pipe running; `Restart` starts everything again.

### RadiusWatch

`watch_directory` as a loop with a program counter: `ListFiles`, `Read` (the file from its position to its
end) or `ReadHalf` (its last record is only half there: `head` holds the attributes that were, and the next
read begins with the rest), `ApplyRecord` for each record with the commit at every `CommitEvery`-th row,
`FinishFile` (commit, then the position in memory), `EmptyPositions` and `WritePositions` (the position file is
emptied by `open(..., "w")` before it is written). `table` is committed, `tx` what the connection sees.
`Inserted` has the three branches of `insert_radius_record`. Rows equal in every column are one element of the set
`table`; a replayed row that differs is another.

Users connect, report and disconnect. The packet of each event is written when it is due, or garbled, or not
(yet) written at all (`Account`). Any packet of a session may be written again, or only now, however long after the
session has ended or its address has been given to somebody else (`Resend`): it is dated by the header it gets then,
so a repeated Stop may be a row of its own with a later start, and an Interim after its Stop opens one.

A round ends early in these ways. `RecordRefused`: `int()` refuses a counter. `DbError`: a statement fails on a
connection that lives; rollback, a new connection, the next round. `ConnectionDies` and `CommitAnswerLost` leave the
connection dead, and then there is only `StillDead`: the statement raises, the `rollback()` that answers it raises
too, the new connection behind it is not reached, the bare `except` swallows that, and each later round goes the same
way until a `Restart` (`radius_parser.py:318-326`). A record that makes no row asks nothing of the database
(`SkipRecord`), so a dead connection is noticed at the next that does, or at the commit. Left out: the counters of a
row and the batch mode (one file, once).

### NasRegistry

The pages (`Add`, `BulkAdd`, `Edit`, `Toggle`, `Delete`) are single statements on `nas`. `nas-apply.sh` is cut at each
of its queries and commands: `SelectClients` (the file is built), `WriteClients` (and copied into place), `Validate`
(freeradius -CX), `SelectWanted`, `AddRule` or `AllowFails` for each rule, `Reload`, `MarkActive`, `SelectDisabled`,
`DeleteRule` or `DeleteFails` for each rule, `Purge`. A `ufw` that fails is passed over (`|| true`): the row is marked
active, or purged, all the same. `Odd` are the addresses the pages accept and the helper's `valid_ip` refuses (IPv6,
and what a bulk line gives as the source of a remote NAS, which nothing checks): their rows are skipped in all three
lists, and marked active too. `Fail` is any other command that fails, at which `set -e` ends the script, or a reboot.
Several run at once: the page gives up after 60 seconds, the script does not, and nothing locks it.

`alone`, `closed`, `unopened`, `unclosed` and `excused` are history: the apply that nothing has disturbed since it
began, the rules it closed, those it could not open or close, and the rules that were orphaned in one of the ways
`OrphansExplained` names. Left out: names, secrets (but for one that breaks the clients file), API credentials, the
onboarding pages and the test of the API.

### Storage

Rows are known by the day of their `log_time` and by whether they are UDP. `EnsurePartition`, `PartitionRefused`,
`ListExpired`, `DropPartition` and `EndMaintenance` are the statements of the maintenance, which takes the date twice,
and may die anywhere. `Ingest` routes a row to the partition of its day or to DEFAULT. `GuardDeletes` is one turn of
the guard's loop, `GuardDeletesNothing` one in which there was nothing, or the query failed and its error was hidden.
An operator starts the purge tool with `--udp` or `--days N`, or sends the form of the retention page (`PurgeStarts`):
the tool takes batches of whatever matches, in the order of ids, however fresh (`PurgeBatch`); the page is one DELETE,
up to the time of day it is sent at (`PageDeletes`), and takes any number of months, negative ones included.
`AskedFor` are the rows that match. `late` says that `Ahead` days went by without a maintenance that came to the end
of its list, `skewed` for which days rows came from a wrong clock. The guard is modelled on a MikroTik collector
(`nat_flow_logs` is a view there); thresholds are a choice.

### Timeline

`TimelineSpec` is `PppSessions!Spec` with `Connect` (a user with a session opens a connection, which is a
row at once) and `since` (`polling_since`, set by the first poll and never again). The pages are operators:
`BuildWindows` folds `TakeRow` over the rows as `build_windows` does, `UsernameQuery` and `SubscriberTimeline` are the two
pages with their limits. `ByTime` is `ORDER BY log_time`, where rows of one second may come in any order:
`Sooner` fixes one. `ConnsShown <= RowLimit` is assumed: the code has 500 (`app.py:2062`, `mikrotik_sessions.py:24`)
and 20000 (`app.py:2035`). `Alike` are the names that `ILIKE` takes for patterns. `polls` is history.

### RouterPolls

A run is one of three programs (the conntrack poller with and without `--pool` counts as two) on its way from NAS to
NAS: `Start`, `NextNas`, then for the secrets `AskSecrets` and `StoreSecrets`, for the ARP entries `AskArp`,
`StoreBogon` and `StoreArp`, for connection tracking `Connect`, `DetectVersion`, `PollTracking` and `PollPool`. `txn`
is the connection: once a statement has failed, PostgreSQL refuses all others until a rollback, which none of the
three programs asks for. Which failures a program swallows and which end it is as in the code: `Leave` against `Die`.
`RouterFails` and `ReadFails` are what a router does; `Kill` is systemd. The unique index on `mikrotik_arp` and the
views of the pool page are not in the repository; they are taken to be what the upsert needs and the names of the
views say. `Identities` is the enrichment of an LEA answer. `heard`, `told`, `settled` and `taken` are history. A list
is taken to fit in one page of `execute_values`. Left out: phone numbers, counts of connections and ports, the status
of an ARP entry, the text of a version. The ARP page shows `ArpLimit` rows (2000 in the code); of a NAS with more,
which are left out is open (`StaticArp`), and `ToldIsShown` asks nothing of it (`ArpFits`).

### LeaRequests and LeaLookup

`LeaRequests` is `parse` of the request parser without its regular expressions: a text is given by what each
pattern finds in it, and the operators say what becomes of that: ACNS columns joined by position
(`AcnsItems`), first-match key and value, field by field (`KeyValueItems`), duplicates by address, port and time
(`AddUnseen`), plain lines only as a fallback. A stamp is a wall clock and an offset, either of which may be missing:
one with an offset is made UTC, one without is kept, one that cannot be read keeps its place in an ACNS column and drops
its item (`ToStored`). Address and port of a destination are two fields.

In `LeaLookup`, connections begin and end, and `Ingest` commits the next row in the order of the log. `clock` is the
time of the world; a row's `log_time` is the wall clock of its router (`ZoneOf`, `LogTime`), stored as it stands in
the line. The comment of the request parser takes it for UTC, that of `lea_resolve.py` for Pakistan time, and
`INSTALL.md` leaves it to the configuration of the NAS; the code decides nothing. What each form makes of the time it
is given is `Moment`: the LEA page and the API keep an offset, which PostgreSQL compares in the zone of its session
(`SessionZone`); the tuple lookup and the pasted request make it UTC; `lea_resolve` makes its epoch a wall clock of
`LEA_EPOCH_TZ` (`EpochZone`) and has a window of its own (`ResolveWindow`). A form finds a row by an offset only if
its zone is that of the router (`ZoneFits`).

`LookupResults` is `mikrotik_lea.lookup`; `ListResults` what the pasted request, the tuple lookup and the command make
of a list with a LIMIT. A pasted item and a tcpdump line confirm by both parts of the destination (`ListConfirms`),
the tuple lookup by the address alone if no port is given and never by the port alone (`TupleConfirms`). Where SQL
leaves the order of rows open, each order is an answer (`ShortLists`). `HolderNamed` is about what is asked by the
pages, the API and the command, `PastedHolderNamed` about a text: its evidence is what is looked up, and each answer
names the holder. The Juniper lookups are in `NatPba` (`Named`) and `RadiusWatch` (`Picked`).

## 3. The runs

| Run | Bounds | Shows |
|---|---|---|
| `dhcp_polls` | 2 pollers, 1 server, 2 MACs, 2 addresses, 6 timed events | tables agree, no gaps, active means "in the last recorded poll", history append-only |
| `ppp_polls` | an exclusive and a shared user, slack 1, 8 time units | disjoint sessions, who is online, exactness for the exclusive user, closed rows are final |
| `ingest` | 3 lines, batches of 2, 1 source, 1 NAS, 2 events | once and in order, every line accounted for, attribution, refinement of `LineTransfer`; nothing stays pending for ever |
| `nat_pba` | 2 subscribers, 2 blocks, 4 lines, batches of 2, 1 event | stored once, nothing dropped by a process that lives, the holder is found, rows are kept |
| `nat_tail` | 2 years, the second a leap year, from December to December; 3 lines, 1 death or restart | lines parsed once, in order, unbroken within a day; dated rightly by a parser started in the year |
| `year_rollover` (violation) | same | a December line read in January is dated a year early |
| `radius_watch` | 2 users, 1 address, 2 files, commits of 2, 3 network events, 2 faults (a packet lost, late, repeated or garbled, a record cut, an error, a dead connection, a restart) | no record skipped, open rows right once all is read, the holder is picked, all is read unless a garbled record or a dead connection stops the watcher |
| `nas_registry` | 2 ids, an odd address and 0.0.0.0, 2 ports, 2 applies, 3 operations | an undisturbed apply repairs everything; a rule without a device has one of the named reasons |
| `storage` | 4 days, 2 ahead, retention 1, 1 guard deletion, 2 rows of either protocol; the tool with `--udp` or 1 day, the page with a negative number | nothing falls back to DEFAULT without cause; evidence goes oldest first, unless an operator asks for it |
| `timeline` | 2 users, one name a pattern of the other, 5 time units, gap 1, 3 connections, limits 2 to 3 | windows are periods of activity; a connection is shown once |
| `lea_lookup` | 3 subscribers, two of them behind the same interface name on two NASes, one an hour ahead of UTC; page and command in the zone of that one; window 1, 2 to 3 for the page, limits 2 and 3, 2 stamps, 3 pasted texts, 3 connections, 2 time units | the holder is named, and confirmed by his destination, from a question and from a text; the forms of lookup agree, an answer of a settled window stands |
| `router_polls` | 2 NASes, 1 username, 2 persons, 1 address, 2 MACs or none, 3 interfaces, lists of 2, a page of 3 rows, 2 runs, 1 fault | what routers say is what is shown, while no statement fails; no subscriber becomes a namesake |

Why the bounds are enough. *DHCP*: six timed events leave room for two full polls with four changes of the router
before, between and after their fetches; two MACs and two addresses allow a swap; two pollers are what the timer and
the button start, and the row lock makes a third wait like the second. MACs and addresses are symmetric. *PPP*: a
reconnect (login, a poll that reads an uptime above the slack, logout, login, poll) takes seven units, so eight leave
a poll after it; rows of different users do not influence each other, and the two users differ in kind. The slack only
scales time: the run takes 1, the code 5. *Ingest*: three lines fill a batch of two and leave one in the next; two
events let an outage, a crash, a stop signal and a registry change be combined in pairs. Liveness forbids symmetry, so
that run has one NAS, registered or not; for several, every safety property of the run is proved. *NAT*: four lines
hold an allocation, its release and the allocation of the block to another subscriber, with a line to spare that fills
the other buffer, concerns the other block or is garbled; a batch of two makes the release find its allocation now
stored, now still buffered; one event is one outage, lost commit answer, signal or kill, at any point of a flush.
*Tail*: the dates hold a New Year and a leap day on either side of which the parser may have been started; three lines
fall on two days in any way, with one to spare before or after a restart. *RADIUS*: three events are a session and the
beginning of the next one of the same address; two files are a midnight in it; two faults are, for example, a
half-read record and a restart that replays it, a Stop that comes late and is repeated, or a commit whose answer is
lost and the restart that ends the dead connection; commits of two leave a file half committed. *Registry*: two rows
share an address or a rule or not; two applies overlap at every step; three operations stage, mark, enable, edit or
fail in any order, a `ufw` that fails among them; an address that is skipped and 0.0.0.0, which is not, are the two
kinds the helper tells apart, and the two ports make rules of the second differ as addresses would. *Storage*: with a
retention of one day and two days ahead, four days let a partition be created, filled, passed and dropped, with up to
a missed run; two rows differ in day, in protocol or in both, so that one may go before the other. *Timeline*: five
units hold a connection before polling, the first poll, a reconnect and a poll after it; limits of two and three are
reached by three connections. *LEA*: the window of 1 has rows before, in and after it; of three rows, the list
limited to two is cut and the one limited to three is not; the texts hold each form, a shifted ACNS column, a time of another zone, one that cannot be
read, one that is missing, a duplicate, and a destination without its port. Of the two
stamps, one lies in the middle of the instance and one so early that a window around it is settled in it; the texts
add others.

*Polls*: in two runs a username is taken in from one NAS and then from its namesake's, or an ARP entry is seen again,
now on another interface or in the company of a second MAC; lists of two hold two devices on one address and one
device on two interfaces, and the rows of two runs may be more than a page of three; the fault strikes before or at
any statement.

`MaxClock`, `MaxLines`, `MaxReceived`, `MaxEvents`, `MaxFaults`, `MaxRuns`, `MaxOps`, `MaxLogs`, `MaxConns`,
`MaxDeaths` and `Last` are the only bounds and stand in the guards. Deadlock is not checked where a program waits for
an environment whose events are bounded: `nat_pba`, `nat_tail`, `radius_watch`, `lea_lookup`, and
`router_polls` after its last run.

Each property of a passing run has a mutant: an operator named in `PROJECT.json` that changes one mapped
definition as a plausible bug would, with which TLC finds the property violated.

Fairness is assumed in two runs. `ingest`, `WF_vars(Daemon)`: the process is scheduled, and systemd restarts it.
`SF_vars(QuietFlush)`: `FLUSH_SECONDS` pass, so a daemon that comes to quiet moments again and again with rows in its
buffer finds the flush due at one of them. Nothing is assumed of the environment: PostgreSQL may stay down, and the
rows are then given up. As lines are finitely many in a run, it does not say that a flush by time happens under
uninterrupted traffic; there the batch fills instead. `radius_watch`, `WF_vars(Watcher)`: the
watcher is one endless loop that no exception leaves, so it goes on. A `Restart` is never owed: a watcher on a dead
connection does not exit, so systemd has nothing to restart. The property `ReadUnlessBlocked` therefore allows for a
connection that stays dead, and for a garbled record that blocks the files after it; faults are finitely many in a
run.

## 4. Findings and known limits

- `year_rollover`: `CURRENT_YEAR` is the year in which the process started, while the test for January asks for
  today (`nat_parser.py:128`, `135`). A parser that runs across New Year dates the December lines it reads in
  January a year too early, and all lines of the new year in the old one, until it is started again.

The following are properties one might expect, and does not have. Each has a configuration with which TLC
finds the behaviour within a minute; they are not among the runs.

| Configuration | Expected | What happens |
|---|---|---|
| `MCDhcpReassigned` | an address has one holder | a client that leaves keeps its open interval when the address is leased again (`mikrotik_dhcp_poll.py:138`) |
| `MCDhcpTwoServers` | a MAC has one open interval | a list that names a MAC twice leaves two, since `stored` is not updated by the loop (`mikrotik_dhcp_poll.py:93`) |
| `MCPppLiveSessionClosed` | a session that is up is open | of two sessions of one user, the listing shows now one, now the other, as a "reconnect" (`mikrotik_ppp_poll.py:66`) |
| `MCIngestNothingUnreadBehind` | all before the position was read | after copytruncate, what was written before the reopening is skipped (`mikrotik_ingest.py:182`) |
| `MCNatReleasedIsMarked` | a released allocation has a release time | the update looks for a row that is still in the buffer and is not repeated (`nat_parser.py:321`) |
| `MCNatTailDayIsFollowed` | the file of the day is followed in the end | the loop waits for ever for the file of a day on which no line came (`nat_tail.sh:24`) |
| `MCRadiusTailed` | `radius_parser.py:251`, "Continuously watch for new detail files and tail them" | on a dead connection `conn.rollback()` (`radius_parser.py:321`) raises before the new connection is made; the bare `except` swallows it and every later round fails alike |
| `MCStorageSkewedRow` | `mikrotik_partition_maint.py:7-11`, a partition for every coming day, and rows in DEFAULT are relocated | nothing relocates them: one row dated ahead makes the CREATE of its day fail (`61`), and with it those of all later days |
| `MCLeaZones` | `lea_request_parser.py:20`, "stored log_time is naive and equals the UTC wall-clock" | it is what the router's clock says (`mikrotik_parser.py:83`, `147`; `lea_resolve.py:9` calls it PKT): evidence with an offset is made UTC and looked up hours from its row, unless the router runs on UTC |
| `MCNasEveryEnabledLetIn` | every enabled device is let in | a disabled device with the same rule has it deleted (`nas-apply.sh:137`) |
| `MCTimelineOpenWindow` | an open window is recent | one that was open when polling began is shown as open ever after (`app.py:2067`) |
| `MCPollsOnlyResolved` | `CHANGELOG.md:36`, "Only entries with a resolved MAC are tracked" | entries without one are stored too, and again in each run, as NULL conflicts with nothing (`mikrotik_arp_poll.py:122`) |
| `MCPollsFailureCostsOneNas` | a statement that fails costs one NAS | the transaction is not rolled back, and every NAS after it is lost to the run (`mikrotik_conntrack_poll.py:220`) |
| `MCLeaCollision` | two holders are two candidates | two subscribers behind one interface of one NAS are one candidate, and no reuse is flagged (`mikrotik_lea.py:120`) |

Met while modelling, and outside the properties: a connection that began before the window is not found though it
still holds its port (`mikrotik_lea.py:41`); a list that is cut may hide a second subscriber, and with him the flag of
a reuse (`app.py:2235`); of two lease pollers the later transaction may carry the earlier `now`, so that an interval
ends before it begins (`mikrotik_dhcp_poll.py:170`, taken before the row lock); a row that PostgreSQL refuses costs
the good rows of its batch (`mikrotik_ingest.py:164`); purging a NAS deletes its PPP and DHCP history by CASCADE; a
subscriber who was never polled has no timeline; a bogon status whose rules could be read only in part is stored as if
it were whole (`mikrotik_arp_poll.py:92`); without a secret of its own NAS, an LEA answer shows another NAS's namesake
(`app.py:479`); MikroTik lines borrow the year from the collector's stamp, which is wrong at New Year where the two
clocks differ.

## 5. What is proved

All theorems hold for every value of the constants under the modules' assumptions: `Null`, `Absent`, `NoIp`,
`NoLease`, `NoRow` and the like are no values of the sets they stand beside, and bounds are natural numbers. TLC
evaluates them in each run. Every safety property of a passing run is a theorem.

`DhcpLeasesProofs`, any number of pollers, MACs and addresses:

- `TypeCorrect`: `[]TypeOK`. The invariant `TypeInv` adds that rows are not forgotten by the loop.
- `HistoryIsAppendOnly`: `HistoryAppendOnly`, also with several servers. The inductive fact (`TxKeeps`) is
  that the transaction that holds the lock keeps every committed interval; a commit then does.
- `HistoryIsGapless`: `[]HistoryHasNoGap`. It must hold of what a transaction under way has made of the history
  as well, since a commit makes that the history.
- `ActiveMeansListed`: `[]ActiveIffInLastPoll`. What is applied carries the stamp of its own poll, and no lease
  the stamp of a poll to come: stamps are distinct, so "last seen is now" is "seen by this poll".
- `HistoryAgreement`: `[]HistoryAgreesWithLease`, for one server on the router (`MCDhcpTwoServers` shows why
  that is needed). `HistoryAgreesWithLease` is not inductive: in the middle of a transaction the tables
  must agree *as the transaction sees them*, and a MAC still to be applied must have the row `stored` says,
  so that "stored has another address" and "the row has another address" are the same test; each list
  names a MAC once (`ListInv`). `TxAgrees` says so, and holds for whichever poller has the lock.

`PppSessionsProofs`, any users, slack and time:

- `TypeCorrect`: `[]TypeOK`; the uptime is never negative because a router session never lies in the future.
- `AtMostOneOpen`, `SessionsNeverOverlap`, `StopsAtLastConfirmation`: from `HistoryInv`. Disjointness is not
  inductive by itself: an open row grows with each poll and could reach into another; `OpenIsLatest` says
  that nothing of the user lies after it.
- `ClosedRowsAreFinal`: the action property `ClosedRowsStay`.
- `OnlineIsWhatWasListed`: `[]OnlineIsLastListing`.
- `ClosedMeansOver`, `SessionsAreNotSplit`: for users with one session at a time, from `SessionInv`. Its parts
  are what makes the delay between fetch and apply harmless: a session that is up is the one the listing
  names or is younger than every row (`FetchedThenCurrent`), the listing names no session already closed
  (`NotEnded`), and the uptime of a row's own session grows (`UptimeGrows`), so the comparison with the slack
  never mistakes a session for its successor.

Then `Timeline`, any names, connections, gap and limits. Its steps are steps of the poller or leave it alone
(`PollerStep`), so that everything above holds of it too:

- `ActivityIsShown`: `[]WindowsAreActivity`. Connections of one second are told apart by login and number (`ConnsInv`), so
  that rows can be sorted (`SortedByTime`, by the place each has: `PlaceIsItsOwn`). The fold is followed row by row with
  the invariant `IsSplit`: the windows so far are the runs of the rows so far in which no gap is too long, kept by
  `RowContinues` and `RowBegins`. What remains is that a run is a period of activity (`PeriodOfRow`) and that
  the limit leaves out only the oldest windows (`PeriodsShown`).
- `EvidenceIsShownOnce`: `[]EvidenceShownOnce`, from `TimelineInv`. At most once: rows of a user are disjoint, and
  none begins before polling did (`SinceInv`), so a connection is in one row or before them all. At least once: all
  polls that heard of a router session lie in one row of it (`HeardIsRecorded`), which is inductive only with what the
  listing under way will add (`FetchedThenHeard`), with the open row of whoever is still up (`HeardIsOpen`), and
  because the uptime of a row never exceeds that of its session (`HeardGrows`), so that no poll takes it for another.

`TranslationsProofs`, first `MikrotikIngest`, any senders, NASes, batch size and number of faults:

- `TypeCorrect`: `[]TypeOK`.
- `LinesInsertedOnceInOrder`: `[]InsertedOnceInOrder`. Inductive with the batch as its continuation: the ids
  of table and batch together increase and were read (`Ordered`), and nothing yet in the reader's hands was.
- `NoLineVanishes`: `[]EveryLineAccounted`. The places a line can be in exclude each other and cover what was
  read (`Accounted`).
- `RowsWereRegistered`: `[]AttributionWasRegistered`. The daemon's map, however old, holds only what the registry
  once said, and the batch only what the map said.
- `DaemonImplementsTransfer`: the mapping `Fate` takes the initial states to initial states of `LineTransfer` and
  every step to a step of it or a stutter; the inductive facts above say where a line can go next.

Then `LeaLookup`, any subscribers, connections, windows and limits:

The router of each connection, the database session and the command may be in any time zones.

- `WhoeverHeldIsNamed`: `[]HolderNamed`. If the form's zone is that of the router, or the time asked about has no
  offset, a connection that held the address at that time and began in the window has its `log_time` in the window of
  the query, so its row is among those each query takes (`HeldIsInWindow`); a list that is not cut is all of them; and
  an answer that flags no reuse has one name only, the candidates being finitely many. Confirmed is he whose
  destination, address and port, is asked for.
- `FormsOfLookupAgree`: `[]FormsAgree`, for forms that take the time for the same moment (`Alike`).
- `AnswersStand`: `SettledAnswersStand`, as long as rows are kept: partition drops, guard and purge are in `Storage`.
  No step takes a row from a settled window, adds one to it, or changes what a query reads of a connection: only its
  end may change, and nothing reads that.
- `PastedAnswersNameHolder`: `[]PastedHolderNamed`, for texts of any length. `Parse` is made of folds, and the
  induction over a text's elements is carried out with sets of numbers (`FoldLemmas`: `Upward`, from the
  well-foundedness of `<`; `FoldExists` makes the function a fold is the last value of, `FoldRuns` reads it one
  element at a time); `CompleteIsAdded`, `ColumnBegins` and `RequestStays` say what the three folds keep. A column
  begins with the values of the first elements as long as none is missing, which is why the evidence of an ACNS report
  is its first complete elements (`ColumnsAsk`); a time that cannot be read keeps its place there, and a text's
  evidence are the elements whose time can be read.

`JuniperProofs`, first `NatPba`, any subscribers, blocks, batch size and number of events:

- `TypeCorrect`: `[]TypeOK`. The invariant `TypeInv` adds that a release still to be recorded is the line last
  read (`ReleaseWasRead`) and that a flush under way is the first task (`FlushIsFirst`).
- `EvidenceIsKept`: `EvidenceKept`, from `TypeInv`: rows are only appended, and `update_release` touches a row
  only while its release time is NULL.
- `NothingIsDropped`: `[]NothingDropped`. It is not inductive: `buffer.clear()` drops nothing only because the
  buffer was stored by the commit before it, which `CommittedIsStored` says.
- `NothingStoredTwice`: `[]StoredOnce`, from `OnceInv`: table and buffer share no line, unless a commit has been made
  and the buffer is not cleared yet, or that moment was interrupted by a signal. Such a history is the only one it
  leaves out: after a commit whose answer is lost the connection is dead, and nothing of the buffer is stored through
  it again.
- `HolderIsFound`: `[]HolderIsNamed`. `HolderInv` relates the table to the router: it names one holder
  of a block in every line until the block is released (`RouterInv`), and the release time of a row is the number of a
  line that released its block, after its allocation and already read (`ReleaseInv`).

Then `NatTail`, any calendar, lines and deaths:

- `LinesComeOnceUnbroken`: `[]ParsedOnceUnbroken`. `TailInv` orders parsed lines and pipe as one sequence
  (`LinesInOrder`), says that all of it is behind the tail (`Behind`), and that a new tail, which begins at the end of a
  file, begins ahead of whatever any tail has printed (`TailIsAhead`, `WaitIsAhead`): the file it waits for is that
  of a later day, or, after a restart, of the same day and read no further than its end.
- `YearIsRightUnlessPassed`: `[]TimeRightInYear`.

`RadiusWatchProofs`, any users, addresses, files, commit interval and faults:

- `EveryReadRecordIsStored`: `[]NothingSkipped`. Each whole record before the position in the file and in memory
  has left its mark in the committed table, and those of the batch under way in what the connection sees; a crash
  forgets the second and goes back to the first, and so does a connection that dies (`RadiusInv`, which includes the
  types and what the network has written, `NetInv`).
- `SettlesWhenAllRead`: `[]SettledWhenAllRead`, from `OpenInv`: records may be applied again from any saved position,
  but always in order from there, so that what the last record of a session does to the table stays done (`SweepInv`);
  no file is begun before those of earlier days are read to their ends (`OrderInv`). A Stop may be followed by late
  and repeated packets, so what is inductive is that an open row left behind it was opened by one of them
  (`ReopenedBy`).
- `PickedIsHolder`: `[]HolderPicked`, from `HeldInv`: sessions of one address follow each other (`OneHolder`), the
  first Stop of a session is dated at its end if it came when due (`FirstStops`), and each row tells of a session that
  was: it begins within it and ends with it, unless a packet after the Stop opened it (`RowTrue`). So the latest row
  that began before the time asked for is the holder's, except from the date on of such a packet (`Belated`): there
  the code may name somebody else, and the statement says nothing.

`NasRegistryProofs`, any rows, addresses, ports, and any number of applies at once:

- `TypeCorrect`: `[]TypeOK`.
- `NoUnexplainedOrphan`: `[]OrphansExplained`. It is not inductive: a purge removes rows, so before it every
  rule of a row about to go must be on the list the helper deletes from. `CleanupCovers` says so of each
  apply in its last phase, `OpenExplained` that a rule stands for a row some list names, `AddedExplained` the
  same of rules an apply is about to add. A deletion that `ufw` failed makes the rule
  excused at once (`DeleteFails`), which is the fifth way. The proof found a case that the small instance had not: a rule
  deleted by one apply while another still has it on its list of additions stays excused (`DeleteRule`).
- `ApplyConverges`: `[]UndisturbedApplyConverges`, from `CourseInv`: what an undisturbed apply has still to do is,
  phase by phase, the difference between rules and registry, but for the rules it could not open or close. Devices
  with an address the helper skips get no rule and no client, and the statement says so.

`ScheduledProofs`, first `RouterPolls`, any NASes, usernames, persons, runs and faults:

- `IdentityStaysOwn`: `[]OwnIdentity`. That a subscriber was taken in must imply that his own NAS's secret is cached
  (`TakenIsCached`) and that what is cached was told by that NAS (`CacheIsTold`); both need that what is stored was
  heard (`HeardIsTold`), and that a NAS the program leaves by any other way has said nothing (`SilentTillAsked`).
- `WhatIsToldIsShown`: `[]ToldIsShown`, from `ShowInv`: while no statement has failed, what a NAS has told is what was
  heard of it and not yet stored, or what its tables show; of an ARP page only while the rows fit on it.

Then `Storage`, any days, retention and batches:

- `StorageTypeCorrect`: `[]TypeOK`.
- `NeverFallsBack`: `[]NoFallbackUnlessSkewed`. While nothing was late or skewed, the days a row may have all
  have a partition (`Covered`), which needs to know how far a maintenance under way has come (`InProgress`), and
  that what it drops is expired (`OnlyExpired`): the date may have changed since it began.
- `EvidenceGoesOldestFirst`: `LostExpiredOrOldest`, from `OnlyExpired`, which midnights keep because the cutoff only
  grows: of what goes by itself, which is partitions and what the guard takes. What an operator has asked to be
  deleted, by the tool or the page, goes whatever its age (`AskedFor`).

Only model-checked: liveness under fairness, `PendingSettles` of `MikrotikIngest` and `ReadUnlessBlocked` of
`RadiusWatch`, which is out of the prover's reach. No module has a RECURSIVE operator.

## 6. What is left

Proofs: an abstract specification of the PPP history that
`PppSessions` implements. Models: the MikroTik log parser.

Not modelled, and why: the caches are recomputed by timers
and no evidence depends on them; accounts, login and the audit log are single statements; the batch mode of
the RADIUS parser applies a file once; the onboarding pages, HTML, the configuration generator, branding,
enrichment, `/proc` readings and the cipher keep no state that evidence depends on. The regular expressions
of the parsers are abstracted: what they find is an input. Central installations (fan-out to collectors)
are left out.
