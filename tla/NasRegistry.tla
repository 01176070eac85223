---------------------------- MODULE NasRegistry ----------------------------
(***************************************************************************)
(* The registry of NAS devices (the settings pages of app.py) and the root *)
(* helper that applies it (scripts/nas-apply.sh): the FreeRADIUS clients   *)
(* file and the firewall rules are brought in line with the table by a     *)
(* script that reads the table three times, with other statements and slow *)
(* commands between, while administrators go on editing it.  Nothing keeps *)
(* two copies of the script apart: the page gives up after 60 seconds, but *)
(* the script is root's and runs on.                                       *)
(***************************************************************************)
EXTENDS Naturals

CONSTANTS
  Ids,      (* rows of nas_devices; an id is used once                      *)
  Addrs,    (* IP addresses                                                 *)
  Zero,     (* 0.0.0.0, which a remote NAS without source_ip gets           *)
  Odd,      (* those the pages take and the helper's valid_ip refuses: IPv6,  *)
            (* and what a bulk line gives a remote NAS as its source_ip       *)
  Ports,    (* syslog ports                                                 *)
  Syslog,   (* 514, the default of them                                     *)
  Acct,     (* 1813, RADIUS accounting                                      *)
  Applies,  (* processes running nas-apply.sh                               *)
  Null,     (* SQL NULL; a row that is not there; no apply                  *)
  Done,     (* an apply has just ended that nothing disturbed               *)
  MaxOps    (* bound: what administrators do, and commands that fail        *)

ASSUME NasAssumption ==
  /\ Zero \in Addrs /\ Odd \subseteq Addrs \ {Zero} /\ Syslog \in Ports /\ Acct \notin Ports
  /\ Null \notin Addrs \cup Applies /\ Done \notin Applies \cup {Null}
  /\ MaxOps \in Nat

VARIABLES
  nas,       (* nas_devices                                                 *)
  rules,     (* the firewall's allow rules                                  *)
  clients,   (* the clients file on disk: its devices                       *)
  loaded,    (* the clients FreeRADIUS runs with                            *)
  pc,        (* where each apply is in the script                           *)
  file,      (* the clients file it is building                             *)
  todo,      (* the rules it has still to add, or to delete                 *)
  alone,     (* history: the apply that has run undisturbed since its start *)
  closed,    (* history: the rules that apply has deleted                   *)
  unopened,  (* history: the rules it asked for and the firewall refused    *)
  unclosed,  (* history: the rules it should have deleted, and could not    *)
  excused,   (* history: addresses whose rows went in a way named below     *)
  ops        (* operations so far                                           *)

script == <<pc, file, todo>>
effect == <<rules, clients, loaded>>
record == <<closed, unopened, unclosed>>
ghosts == <<alone, record, excused>>
vars   == <<nas, effect, script, ghosts, ops>>

Kinds  == {"radius", "mikrotik"}
Device == [kind : Kinds, ip : Addrs, src : Addrs \cup {Null}, port : Ports, bad : BOOLEAN,
           enabled : BOOLEAN, status : {"staged", "active", "removing"}]
Rule   == [from : Addrs, port : Ports \cup {Acct}]
Client == [ip : Addrs, bad : BOOLEAN]
Steps  == {"idle", "write", "validate", "ufw", "adding", "mark", "cleanup", "deleting"}

Rows == {i \in Ids : nas[i] # Null}

(* A MikroTik sends its log from source_ip, or else from its own address.     *)
LogsFrom(d) == IF d.kind = "mikrotik" /\ d.src # Null THEN d.src ELSE d.ip

(* The rules a row stands for: a MikroTik logs to its own port, others to 514 *)
(* and to 1813; a row of an address that valid_ip refuses is skipped, when    *)
(* rules are opened and when they are removed.                                *)
RulesOf(d) ==
  {[from |-> f, port |-> p] : f \in {LogsFrom(d)} \ Odd,
                              p \in IF d.kind = "mikrotik" THEN {d.port} ELSE {Syslog, Acct}}

AllRules(S) == UNION {RulesOf(d) : d \in S}

ASSUME NullIsNoRow == Null \notin Device

TypeOK ==
  /\ nas \in [Ids -> Device \cup {Null}]
  /\ rules \subseteq Rule /\ excused \subseteq Rule
  /\ closed \subseteq Rule /\ unopened \subseteq Rule /\ unclosed \subseteq Rule
  /\ clients \subseteq Client /\ loaded \subseteq Client
  /\ pc \in [Applies -> Steps]
  /\ file \in [Applies -> SUBSET Client] /\ todo \in [Applies -> SUBSET Rule]
  /\ alone \in Applies \cup {Null, Done}
  /\ ops \in 0..MaxOps

Init ==
  /\ nas = [i \in Ids |-> Null]
  /\ rules = {} /\ clients = {} /\ loaded = {}
  /\ pc = [a \in Applies |-> "idle"]
  /\ file = [a \in Applies |-> {}] /\ todo = [a \in Applies |-> {}]
  /\ alone = Null /\ closed = {} /\ unopened = {} /\ unclosed = {} /\ excused = {} /\ ops = 0

-----------------------------------------------------------------------------
(* The settings pages.  Each statement commits by itself; the SELECT before   *)
(* an UPDATE only looks the row up, or says what the UPDATE will write.       *)

NewRecord == closed' = {} /\ unopened' = {} /\ unclosed' = {}

WebEdit ==
  /\ ops < MaxOps /\ ops' = ops + 1
  /\ alone' = Null /\ NewRecord
  /\ UNCHANGED <<effect, script>>

Staged(kind, ip, src, port, bad) ==
  [kind |-> kind, ip |-> ip, src |-> src, port |-> port, bad |-> bad,
   enabled |-> TRUE, status |-> "staged"]

(* nas_add: an address that is already registered is refused.  A secret the    *)
(* form takes as it is may break the clients file.                             *)
Add(i) ==
  /\ nas[i] = Null /\ \A j \in Ids : j > i => nas[j] = Null
  /\ \E ip \in Addrs :
       /\ \A j \in Rows : nas[j].ip # ip
       /\ \/ \E bad \in BOOLEAN : nas' = [nas EXCEPT ![i] = Staged("radius", ip, Null, Syslog, bad)]
          \/ \E src \in Addrs, port \in Ports :
               nas' = [nas EXCEPT ![i] = Staged("mikrotik", ip, src, port, FALSE)]
  /\ WebEdit /\ UNCHANGED excused

(* Mutant: a remote NAS without source_ip has no address.                      *)
BulkAddNoAddress(i) ==
  /\ nas[i] = Null /\ \A j \in Ids : j > i => nas[j] = Null
  /\ \E src \in Addrs \cup {Null} :
       nas' = [nas EXCEPT ![i] = Staged("mikrotik", src, src, Syslog, FALSE)]
  /\ WebEdit /\ UNCHANGED excused

(* nas_bulk_add: only names are compared, so an address may come twice; a      *)
(* remote NAS may have no source_ip.                                           *)
BulkAdd(i) ==
  /\ nas[i] = Null /\ \A j \in Ids : j > i => nas[j] = Null
  /\ \E src \in Addrs \cup {Null} :
       nas' = [nas EXCEPT ![i] =
                 Staged("mikrotik", IF src = Null THEN Zero ELSE src, src, Syslog, FALSE)]
  /\ WebEdit /\ UNCHANGED excused

(* nas_edit: source_ip and syslog_port change, the status does not; the rule   *)
(* of the old ones is known to no row from here on.                            *)
Edit(i) ==
  /\ i \in Rows
  /\ \E src \in Addrs \cup {Null}, port \in Ports :
       nas' = [nas EXCEPT ![i] = [@ EXCEPT !.src = src, !.port = port]]
  /\ excused' = excused \cup (RulesOf(nas[i]) \ RulesOf(nas'[i]))
  /\ WebEdit

(* nas_toggle: enabled is turned round, whatever the status: a row marked for  *)
(* removal and enabled again is in neither of the helper's lists.              *)
Toggle(i) ==
  /\ i \in Rows
  /\ nas' = [nas EXCEPT ![i] = [@ EXCEPT !.enabled = ~@]]
  /\ excused' = excused \cup (IF nas[i].status = "removing" /\ ~nas[i].enabled
                              THEN RulesOf(nas[i]) ELSE {})
  /\ WebEdit

(* An apply has listed the disabled rows and is removing their rules.          *)
Cleaning == \E a \in Applies : pc[a] = "deleting"

(* Mutant: the row itself is deleted.                                          *)
HardDelete(i) ==
  /\ i \in Rows
  /\ nas' = [nas EXCEPT ![i] = Null]
  /\ WebEdit /\ UNCHANGED excused

(* nas_delete: disabled and marked; the helper removes its rules and the row.  *)
(* One marked after the helper listed the disabled rows goes without its rules. *)
Delete(i) ==
  /\ i \in Rows
  /\ nas' = [nas EXCEPT ![i] = [@ EXCEPT !.enabled = FALSE, !.status = "removing"]]
  /\ excused' = excused \cup (IF Cleaning THEN RulesOf(nas[i]) ELSE {})
  /\ WebEdit

-----------------------------------------------------------------------------
(* nas-apply.sh, one action per query or command that others can come between. *)

Goto(a, from, to) == pc[a] = from /\ pc' = [pc EXCEPT ![a] = to]

Wanted == {nas[i] : i \in {j \in Rows : nas[j].enabled /\ nas[j].status # "removing"}}

(* The script begins: the RADIUS clients, of enabled rows, staged or active, that *)
(* are no MikroTik; one whose address valid_ip refuses is skipped.               *)
SelectClients(a) ==
  /\ Goto(a, "idle", "write")
  /\ file' = [file EXCEPT ![a] = {[ip |-> d.ip, bad |-> d.bad] :
                                   d \in {e \in Wanted : e.kind # "mikrotik" /\ e.ip \notin Odd}}]
  /\ alone' = (IF \A b \in Applies : pc[b] = "idle" THEN a ELSE Null)
  /\ NewRecord
  /\ UNCHANGED <<nas, effect, todo, excused, ops>>

(* cp: the file on disk is replaced, checked or not.                             *)
WriteClients(a) ==
  /\ Goto(a, "write", "validate")
  /\ clients' = file[a]
  /\ file' = [file EXCEPT ![a] = {}]
  /\ UNCHANGED <<nas, rules, loaded, todo, ghosts, ops>>

(* freeradius -CX: exit 3 when it refuses what is on disk.                      *)
Validate(a) ==
  /\ \/ (\A c \in clients : ~c.bad) /\ Goto(a, "validate", "ufw") /\ UNCHANGED alone
     \/ (\E c \in clients : c.bad) /\ Goto(a, "validate", "idle")
        /\ alone' = (IF alone = a THEN Null ELSE alone)
  /\ UNCHANGED <<nas, effect, file, todo, record, excused, ops>>

SelectWanted(a) ==
  /\ Goto(a, "ufw", "adding")
  /\ todo' = [todo EXCEPT ![a] = AllRules(Wanted)]
  /\ UNCHANGED <<nas, effect, file, ghosts, ops>>

(* ufw allow, one rule at a time, though another apply may be removing it.       *)
AddRule(a) ==
  /\ pc[a] = "adding"
  /\ \E r \in todo[a] :
       /\ rules' = rules \cup {r} /\ todo' = [todo EXCEPT ![a] = @ \ {r}]
       /\ excused' = IF Cleaning THEN excused \cup {r} ELSE excused
  /\ UNCHANGED <<nas, clients, loaded, pc, file, alone, record, ops>>

(* `|| true`: a ufw that fails is passed over, and the row is marked active.       *)
AllowFails(a) ==
  /\ pc[a] = "adding" /\ ops < MaxOps /\ ops' = ops + 1
  /\ \E r \in todo[a] :
       /\ todo' = [todo EXCEPT ![a] = @ \ {r}]
       /\ unopened' = IF alone = a THEN unopened \cup {r} ELSE unopened
  /\ UNCHANGED <<nas, effect, pc, file, alone, closed, unclosed, excused>>

Reload(a) ==
  /\ todo[a] = {} /\ Goto(a, "adding", "mark")
  /\ loaded' = clients
  /\ UNCHANGED <<nas, rules, clients, file, todo, ghosts, ops>>

(* Every staged and enabled row, those staged since the lists were read included. *)
MarkActive(a) ==
  /\ Goto(a, "mark", "cleanup")
  /\ nas' = [i \in Ids |-> IF i \in Rows /\ nas[i].enabled /\ nas[i].status = "staged"
                           THEN [nas[i] EXCEPT !.status = "active"] ELSE nas[i]]
  /\ UNCHANGED <<effect, file, todo, ghosts, ops>>

(* Mutant: only rows that are to be removed lose their rules.                    *)
SelectRemoving(a) ==
  /\ Goto(a, "cleanup", "deleting")
  /\ todo' = [todo EXCEPT ![a] = AllRules({nas[i] : i \in {j \in Rows : nas[j].status = "removing"}})]
  /\ UNCHANGED <<nas, effect, file, ghosts, ops>>

SelectDisabled(a) ==
  /\ Goto(a, "cleanup", "deleting")
  /\ todo' = [todo EXCEPT ![a] = AllRules({nas[i] : i \in {j \in Rows : ~nas[j].enabled}})]
  /\ UNCHANGED <<nas, effect, file, ghosts, ops>>

(* ufw delete allow, one rule at a time, whoever else may need the rule, or may    *)
(* be about to add it.                                                             *)
DeleteRule(a) ==
  /\ pc[a] = "deleting"
  /\ \E r \in todo[a] :
       /\ rules' = rules \ {r} /\ todo' = [todo EXCEPT ![a] = @ \ {r}]
       /\ closed' = IF alone = a THEN closed \cup {r} ELSE closed
       /\ excused' = IF \E b \in Applies : pc[b] = "adding" /\ r \in todo[b]
                     THEN excused ELSE excused \ {r}
  /\ UNCHANGED <<nas, clients, loaded, pc, file, alone, unopened, unclosed, ops>>

(* `|| true` again: the rule stays, and the row that stood for it is purged.       *)
DeleteFails(a) ==
  /\ pc[a] = "deleting" /\ ops < MaxOps /\ ops' = ops + 1
  /\ \E r \in todo[a] \cap rules :
       /\ todo' = [todo EXCEPT ![a] = @ \ {r}]
       /\ unclosed' = IF alone = a THEN unclosed \cup {r} ELSE unclosed
       /\ excused' = excused \cup {r}
  /\ UNCHANGED <<nas, effect, pc, file, alone, closed, unopened>>

(* DELETE ... WHERE status = 'removing'.  Another apply that listed such a row    *)
(* before it was marked may still open its rules.                                 *)
Purge(a) ==
  /\ todo[a] = {} /\ Goto(a, "deleting", "idle")
  /\ nas' = [i \in Ids |-> IF i \in Rows /\ nas[i].status = "removing" THEN Null ELSE nas[i]]
  /\ excused' = excused \cup UNION {todo[b] : b \in {c \in Applies : pc[c] = "adding"}}
  /\ alone' = IF alone = a THEN Done ELSE alone
  /\ UNCHANGED <<effect, file, todo, record, ops>>

(* A query, the cp or the reload (and restart) of FreeRADIUS fails, and set -e    *)
(* ends the script; or the machine goes down under it.                            *)
Fail(a) ==
  /\ pc[a] # "idle" /\ ops < MaxOps /\ ops' = ops + 1
  /\ pc' = [pc EXCEPT ![a] = "idle"]
  /\ file' = [file EXCEPT ![a] = {}] /\ todo' = [todo EXCEPT ![a] = {}]
  /\ alone' = Null /\ NewRecord
  /\ UNCHANGED <<nas, effect, excused>>

Apply(a) ==
  \/ SelectClients(a) \/ WriteClients(a) \/ Validate(a) \/ SelectWanted(a) \/ AddRule(a)
  \/ AllowFails(a) \/ DeleteFails(a)
  \/ Reload(a) \/ MarkActive(a) \/ SelectDisabled(a) \/ DeleteRule(a) \/ Purge(a) \/ Fail(a)

Next ==
  \/ \E i \in Ids : Add(i) \/ BulkAdd(i) \/ Edit(i) \/ Toggle(i) \/ Delete(i)
  \/ \E a \in Applies : Apply(a)

Spec == Init /\ [][Next]_vars

-----------------------------------------------------------------------------
Enabled  == {nas[i] : i \in {j \in Rows : nas[j].enabled}}
Disabled == {nas[i] : i \in {j \in Rows : ~nas[j].enabled}}

(* One apply that nothing disturbs repairs whatever races, failures and half-done  *)
(* applies came before.  Every enabled device is active, and let in unless         *)
(* valid_ip refuses its address (it has no rules then, and is active all the       *)
(* same), ufw refused the rule, or a disabled device shares it; no disabled device *)
(* is let in, unless ufw refused to delete its rule; none waits for removal;       *)
(* FreeRADIUS runs with exactly the enabled RADIUS devices, odd addresses left out. *)
UndisturbedApplyConverges ==
  alone = Done =>
    /\ \A d \in Enabled : d.status = "active" /\ RulesOf(d) \subseteq rules \cup closed \cup unopened
    /\ \A d \in Disabled : d.status # "removing" /\ RulesOf(d) \cap rules \subseteq unclosed
    /\ loaded = {[ip |-> d.ip, bad |-> FALSE] : d \in {e \in Enabled : e.kind # "mikrotik" /\ e.ip \notin Odd}}

(* A rule that belongs to no row got there in one of five ways: its row was edited, *)
(* or enabled again after it was marked for removal, or marked while an apply was   *)
(* past its list of disabled rows; or an apply with an older list opened its rules  *)
(* while another removed them; or ufw failed to delete it and its row was purged    *)
(* all the same.  Otherwise "soft delete" (nas_delete) leaves no rule behind.       *)
OrphansExplained == rules \subseteq AllRules({nas[i] : i \in Rows}) \cup excused

(* "UFW rules for ALL active+enabled NASes": after an undisturbed apply in which ufw *)
(* did not fail every enabled device is let in.                                      *)
EveryEnabledLetIn == alone = Done /\ unopened = {} => AllRules(Enabled) \subseteq rules
=============================================================================
