------------------------------ MODULE Storage ------------------------------
(***************************************************************************)
(* What keeps the translations table in shape on a MikroTik collector: the *)
(* daily partition maintenance (scripts/mikrotik_partition_maint.py), the  *)
(* storage guard (scripts/storage-guard.sh), the purge tool                *)
(* (scripts/mikrotik_purge.py) and the retention page (app.py), against    *)
(* the ingest that goes on writing.  Rows are told apart by the day of     *)
(* their log_time, which is the router's and may be wrong, and by their    *)
(* protocol, UDP or not.                                                   *)
(***************************************************************************)
EXTENDS Integers

CONSTANTS
  First,       (* the day the table was partitioned                         *)
  Last,        (* bound: the last day                                       *)
  Ahead,       (* AHEAD_DAYS                                                *)
  Retention,   (* RETENTION_DAYS                                            *)
  Batches,     (* deletions of one guard run (30 in the script)             *)
  ToolDays,    (* what an operator gives the purge tool as --days           *)
  PageDays,    (* 30 * months of the retention page, which checks neither   *)
               (* their size nor their sign                                 *)
  MaxLogs      (* bound: days for which rows are written, one by one        *)

ASSUME StorageAssumption ==
  /\ First \in Int /\ Last \in Int /\ First <= Last
  /\ Ahead \in Nat \ {0} /\ Retention \in Nat \ {0} /\ Batches \in Nat /\ MaxLogs \in Nat
  /\ ToolDays \subseteq Nat \ {0} /\ PageDays \subseteq Int

VARIABLES
  today,      (* the date                                                   *)
  parts,      (* the days that have a partition                             *)
  inPart,     (* the rows in the partitions of their days                   *)
  inDefault,  (* the rows in the DEFAULT partition                          *)
  phase,      (* where the maintenance is                                   *)
  day,        (* ensure_partitions' `today`                                 *)
  reach,      (* its `i`: the days ahead that have been seen to             *)
  expired,    (* the partitions drop_old_partitions has still to drop       *)
  guard,      (* deletions left to a guard run; 0 when none runs            *)
  purge,      (* what the operator is having deleted: "udp", "old" or "none" *)
  older,      (* if "old": the rows of more than so many days ago           *)
  ensured,    (* history: the last day ensure_partitions went through       *)
  ran,        (* history: the last day maintenance ended, well or not       *)
  skewed,     (* history: the days rows were written for at the wrong time  *)
  late,       (* history: maintenance has failed to go through for Ahead days *)
  missed,     (* history: on some day it was not run to an end               *)
  logs        (* rows written so far                                        *)

rows        == <<parts, inPart, inDefault>>
maint       == <<phase, day, reach, expired>>
hist        == <<ensured, ran, skewed, late, missed, logs>>
operator    == <<purge, older>>
storageVars == <<today, rows, maint, guard, operator, hist>>

(* A router's clock may be wrong by more than the partitions reach.          *)
Days   == First - Retention - 2 .. Last + Ahead + 2
Row    == [day : Days, udp : BOOLEAN]
Stored == inPart \cup inDefault
Cutoff == today - Retention

On(d)           == {r \in Row : r.day = d}
HasFallback(d)  == On(d) \cap inDefault # {}

(* The rows the running purge is to delete.  `older` days ago were in the      *)
(* course of a day, part of which matches.                                     *)
AskedFor(r) ==
  \/ purge = "udp" /\ r.udp
  \/ purge = "old" /\ r.day <= today - older

TypeOK ==
  /\ today \in First..Last
  /\ parts \subseteq Days /\ inPart \subseteq Row /\ inDefault \subseteq Row
  /\ (\A r \in inPart : r.day \in parts) /\ (\A r \in inDefault : r.day \notin parts)
  /\ phase \in {"idle", "ensure", "list", "drop"}
  /\ day \in First..Last /\ reach \in 0..Ahead + 1 /\ expired \subseteq Days
  /\ guard \in 0..Batches /\ purge \in {"none", "udp", "old"} /\ older \in ToolDays \cup PageDays \cup {0}
  /\ ensured \in First..Last /\ ran \in First - 1..Last
  /\ skewed \subseteq Days /\ late \in BOOLEAN /\ missed \in BOOLEAN /\ logs \in 0..MaxLogs

(* mikrotik_partition.sql: yesterday .. +Ahead days, and DEFAULT.             *)
StorageInit ==
  /\ today = First /\ parts = First - 1 .. First + Ahead
  /\ inPart = {} /\ inDefault = {}
  /\ phase = "idle" /\ day = First /\ reach = 0 /\ expired = {} /\ guard = 0
  /\ purge = "none" /\ older = 0
  /\ ensured = First /\ ran = First - 1 /\ skewed = {} /\ late = FALSE /\ missed = FALSE
  /\ logs = 0

-----------------------------------------------------------------------------
(* External: the days go by, and the maintenance timer may miss some.          *)
NextDay ==
  /\ today < Last /\ today' = today + 1
  /\ late' = (late \/ today + 1 >= ensured + Ahead)
  /\ missed' = (missed \/ ran # today)
  /\ UNCHANGED <<rows, maint, guard, operator, ensured, ran, skewed, logs>>

(* The ingest daemon stores a row; PostgreSQL routes it by its log_time.        *)
Ingest(r) ==
  /\ logs < MaxLogs /\ logs' = logs + 1
  /\ inPart' = (IF r.day \in parts THEN inPart \cup {r} ELSE inPart)
  /\ inDefault' = (IF r.day \in parts THEN inDefault ELSE inDefault \cup {r})
  /\ skewed' = IF r.day \in today - 1 .. today + 1 THEN skewed ELSE skewed \cup {r.day}
  /\ UNCHANGED <<today, parts, maint, guard, operator, ensured, ran, late, missed>>

-----------------------------------------------------------------------------
(* mikrotik_partition_maint.py: every statement commits by itself.             *)

StartMaintenance ==
  /\ phase = "idle"
  /\ phase' = "ensure" /\ day' = today /\ reach' = 0
  /\ UNCHANGED <<today, rows, expired, guard, operator, hist>>

(* Mutant: the loop stops one day early and is not noticed to.                  *)
EnsureAllButLast ==
  /\ phase = "ensure" /\ reach < Ahead /\ ~HasFallback(day + reach)
  /\ parts' = parts \cup {day + reach}
  /\ reach' = reach + 1
  /\ phase' = IF reach' = Ahead THEN "list" ELSE "ensure"
  /\ ensured' = IF reach' = Ahead THEN day ELSE ensured
  /\ UNCHANGED <<today, inPart, inDefault, day, expired, guard, operator, ran, skewed, late, missed, logs>>

(* Mutant: nobody looks at what DEFAULT holds.                                  *)
EnsureAnyway ==
  /\ phase = "ensure" /\ reach <= Ahead
  /\ parts' = parts \cup {day + reach}
  /\ reach' = reach + 1
  /\ phase' = IF reach' > Ahead THEN "list" ELSE "ensure"
  /\ ensured' = IF reach' > Ahead THEN day ELSE ensured
  /\ UNCHANGED <<today, inPart, inDefault, day, expired, guard, operator, ran, skewed, late, missed, logs>>

(* CREATE TABLE ... PARTITION OF, when the day has none.                        *)
EnsurePartition ==
  /\ phase = "ensure" /\ reach <= Ahead /\ ~HasFallback(day + reach)
  /\ parts' = parts \cup {day + reach}
  /\ reach' = reach + 1
  /\ phase' = IF reach' > Ahead THEN "list" ELSE "ensure"
  /\ ensured' = IF reach' > Ahead THEN day ELSE ensured
  /\ UNCHANGED <<today, inPart, inDefault, day, expired, guard, operator, ran, skewed, late, missed, logs>>

(* PostgreSQL refuses a partition for a day DEFAULT has rows of: the exception  *)
(* ends the program, before it creates the later ones and drops the old ones.   *)
PartitionRefused ==
  /\ phase = "ensure" /\ reach <= Ahead /\ HasFallback(day + reach)
  /\ phase' = "idle" /\ ran' = day /\ reach' = 0
  /\ UNCHANGED <<today, rows, day, expired, guard, operator, ensured, skewed, late, missed, logs>>

(* Mutant: the day the collector is in counts as old when retention is over.     *)
ListFromTomorrow ==
  /\ phase = "list"
  /\ expired' = {d \in parts : d <= Cutoff}
  /\ phase' = "drop"
  /\ UNCHANGED <<today, rows, day, reach, guard, operator, hist>>

(* drop_old_partitions asks for the date again, and lists the partitions.        *)
ListExpired ==
  /\ phase = "list"
  /\ expired' = {d \in parts : d < Cutoff}
  /\ phase' = "drop"
  /\ UNCHANGED <<today, rows, day, reach, guard, operator, hist>>

DropPartition ==
  /\ phase = "drop"
  /\ \E d \in expired :
       /\ \A e \in expired : d <= e
       /\ parts' = parts \ {d} /\ inPart' = inPart \ On(d) /\ expired' = expired \ {d}
  /\ UNCHANGED <<today, inDefault, phase, day, reach, guard, operator, hist>>

EndMaintenance ==
  /\ phase = "drop" /\ expired = {}
  /\ phase' = "idle" /\ ran' = day /\ reach' = 0
  /\ UNCHANGED <<today, rows, day, expired, guard, operator, ensured, skewed, late, missed, logs>>

(* It ends in the middle: a lost connection, a reboot.                           *)
MaintenanceDies ==
  /\ phase # "idle"
  /\ phase' = "idle" /\ expired' = {} /\ reach' = 0
  /\ UNCHANGED <<today, rows, day, guard, operator, hist>>

Maintenance ==
  \/ StartMaintenance \/ EnsurePartition \/ PartitionRefused
  \/ ListExpired \/ DropPartition \/ EndMaintenance \/ MaintenanceDies

-----------------------------------------------------------------------------
Remove(D) == inPart' = inPart \ D /\ inDefault' = inDefault \ D

(* storage-guard.sh found the disk over the threshold.                           *)
GuardStarts ==
  /\ guard = 0 /\ guard' = Batches
  /\ UNCHANGED <<today, rows, maint, operator, hist>>

(* Mutant: a batch is the newest day.                                             *)
GuardDeletesNewest ==
  /\ guard > 0
  /\ \E r \in Stored : (\A e \in Stored : e.day <= r.day) /\ Remove(On(r.day))
  /\ guard' \in {0, guard - 1}
  /\ UNCHANGED <<today, parts, maint, operator, hist>>

(* The oldest day of rows goes; the disk may be below the threshold then, or not: *)
(* a plain DELETE gives no space back to the file system.                         *)
GuardDeletes ==
  /\ guard > 0
  /\ \E r \in Stored : (\A e \in Stored : r.day <= e.day) /\ Remove(On(r.day))
  /\ guard' \in {0, guard - 1}
  /\ UNCHANGED <<today, parts, maint, operator, hist>>

(* Nothing deleted: there was nothing, which ends the run, or the query failed,    *)
(* which q() hides and the loop does not take for "0".                             *)
GuardDeletesNothing ==
  /\ guard > 0
  /\ guard' \in (IF Stored = {} THEN {0, guard - 1} ELSE {guard - 1})
  /\ UNCHANGED <<today, rows, maint, operator, hist>>

(* An operator starts mikrotik_purge.py --udp or --days N, or sends the form of the *)
(* retention page.                                                                 *)
PurgeStarts ==
  /\ purge = "none"
  /\ \/ purge' = "udp" /\ older' = 0
     \/ purge' = "old" /\ older' \in ToolDays \cup PageDays
  /\ UNCHANGED <<today, rows, maint, guard, hist>>

(* One batch of the tool: some of the rows that match, whatever their age, in the  *)
(* order of their ids.                                                             *)
PurgeBatch ==
  /\ purge = "udp" \/ (purge = "old" /\ older \in ToolDays)
  /\ \E D \in SUBSET {r \in Stored : AskedFor(r)} : D # {} /\ Remove(D)
  /\ UNCHANGED <<today, parts, maint, guard, operator, hist>>

(* The page's one DELETE: every day before that of the cutoff, and as much of that  *)
(* day as there was before the time it is now.                                     *)
PageDeletes ==
  /\ purge = "old" /\ older \in PageDays
  /\ \E D \in SUBSET On(today - older) : Remove({r \in Row : r.day < today - older} \cup D)
  /\ purge' = "none" /\ older' = 0
  /\ UNCHANGED <<today, parts, maint, guard, hist>>

(* A batch that is not full ends the tool; it may also be stopped, and the page fail. *)
PurgeEnds ==
  /\ purge # "none"
  /\ purge' = "none" /\ older' = 0
  /\ UNCHANGED <<today, rows, maint, guard, hist>>

StorageNext ==
  \/ NextDay \/ (\E r \in Row : Ingest(r))
  \/ Maintenance
  \/ GuardStarts \/ GuardDeletes \/ GuardDeletesNothing
  \/ PurgeStarts \/ PurgeBatch \/ PageDeletes \/ PurgeEnds

StorageSpec == StorageInit /\ [][StorageNext]_storageVars

-----------------------------------------------------------------------------
(* "so ingest never falls back to the DEFAULT partition": as long as routers are   *)
(* right to a day and no Ahead days pass without a maintenance that goes through   *)
(* its list, no row is in DEFAULT, whenever the programs are started, cross        *)
(* midnight or die.                                                                *)
NoFallbackUnlessSkewed == skewed = {} /\ ~late => inDefault = {}

(* Nothing that deletes by itself takes evidence out of order: a row goes only when  *)
(* it is past its retention, when a purge that an operator has started asks for it    *)
(* (--udp and a small --days take fresh rows, and leave older ones), or when no        *)
(* evidence of its day or of an older one is left.                                     *)
LostExpiredOrOldest ==
  [][\A r \in Stored \ Stored' :
       r.day < Cutoff \/ AskedFor(r) \/ \A e \in Stored' : r.day < e.day]_storageVars

(* "Ensure partitions exist for today .. today+AHEAD_DAYS (so ingest never falls back *)
(* to the DEFAULT partition).  [...]  Also relocates any rows that landed in the      *)
(* DEFAULT partition": once the maintenance of a day has ended, in a collector where   *)
(* it ran every day, the day has a partition, unless a row was misdated to that day.   *)
OnlySkewedDaysFallBack ==
  ran = today /\ ~missed /\ today \notin skewed => today \in parts
=============================================================================
