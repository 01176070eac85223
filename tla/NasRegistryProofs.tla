------------------------- MODULE NasRegistryProofs -------------------------
(***************************************************************************)
(* Theorems about NasRegistry, for any rows, addresses, ports and number   *)
(* of applies that run at the same time.                                   *)
(***************************************************************************)
EXTENDS NasRegistry, TLAPS

(* A rule stands for a row that the next apply lists, wanted or disabled, or  *)
(* is excused.                                                                *)
ForListed(r) ==
  \E k \in Ids : /\ nas[k] # Null /\ r \in RulesOf(nas[k])
                 /\ ~(nas[k].enabled /\ nas[k].status = "removing")

ForKept(r) ==
  \E k \in Ids : nas[k] # Null /\ nas[k].status # "removing" /\ r \in RulesOf(nas[k])

OpenExplained == \A r \in rules : r \in excused \/ ForListed(r)

(* So does a rule that an apply is about to add.                               *)
AddedExplained ==
  \A a \in Applies : pc[a] = "adding" => \A r \in todo[a] : r \in excused \/ ForListed(r)

(* An apply that has listed the disabled rows removes every rule for which no   *)
(* row will be left when it deletes the rows marked for removal.                *)
CleanupCovers ==
  \A b \in Applies : pc[b] = "deleting" =>
    \A r \in rules : r \in excused \/ r \in todo[b] \/ ForKept(r)

RuleInv == TypeOK /\ OpenExplained /\ AddedExplained /\ CleanupCovers

-----------------------------------------------------------------------------
LEMMA RulesAreRules == ASSUME NEW d \in Device PROVE RulesOf(d) \subseteq Rule
BY NasAssumption DEF Device, RulesOf, LogsFrom, Rule

LEMMA RulesOfSome == ASSUME NEW D \in SUBSET Device PROVE AllRules(D) \subseteq Rule
BY RulesAreRules DEF AllRules

LEMMA RowsAreDevices == TypeOK => \A k \in Rows : k \in Ids /\ nas[k] \in Device
BY DEF TypeOK, Rows

LEMMA StagedIsDevice ==
  ASSUME NEW kind \in Kinds, NEW ip \in Addrs, NEW src \in Addrs \cup {Null}, NEW port \in Ports,
         NEW bad \in BOOLEAN
  PROVE  Staged(kind, ip, src, port, bad) \in Device
BY DEF Staged, Device

LEMMA TypeInit == Init => TypeOK
BY NasAssumption DEF Init, TypeOK, Steps

(* The pages write devices, and nothing of the helper.                          *)
LEMMA TypeEdits ==
  ASSUME TypeOK, NEW k \in Ids, Add(k) \/ BulkAdd(k) \/ Edit(k) \/ Toggle(k) \/ Delete(k)
  PROVE  TypeOK'
<1>1. /\ UNCHANGED <<rules, clients, loaded, pc, file, todo>> /\ alone' = Null
      /\ closed' = {} /\ unopened' = {} /\ unclosed' = {} /\ ops' \in 0..MaxOps
  <2>1. WebEdit
    BY Zenon DEF Add, BulkAdd, Edit, Toggle, Delete
  <2> QED
    BY <2>1, NasAssumption DEF WebEdit, NewRecord, effect, script, TypeOK
<1>2. nas' \in [Ids -> Device \cup {Null}]
  <2>1. CASE Add(k)
    <3>1. \E d \in Device : nas' = [nas EXCEPT ![k] = d]
      <4>1. \A ip \in Addrs, bad \in BOOLEAN : Staged("radius", ip, Null, Syslog, bad) \in Device
        BY NasAssumption, StagedIsDevice DEF Kinds
      <4>2. \A ip \in Addrs, src \in Addrs, port \in Ports :
              Staged("mikrotik", ip, src, port, FALSE) \in Device
        BY StagedIsDevice DEF Kinds
      <4> QED
        BY <2>1, <4>1, <4>2 DEF Add
    <3> QED
      BY <3>1 DEF TypeOK
  <2>2. CASE BulkAdd(k)
    <3>1. \A src \in Addrs \cup {Null} :
            Staged("mikrotik", IF src = Null THEN Zero ELSE src, src, Syslog, FALSE) \in Device
      BY NasAssumption, StagedIsDevice DEF Kinds
    <3>2. \E d \in Device : nas' = [nas EXCEPT ![k] = d]
      BY <2>2, <3>1 DEF BulkAdd
    <3> QED
      BY <3>2 DEF TypeOK
  <2>3. CASE Edit(k) \/ Toggle(k) \/ Delete(k)
    <3>1. k \in Rows /\ nas[k] \in Device
      BY <2>3, RowsAreDevices DEF Edit, Toggle, Delete
    <3>2. \E d \in Device : nas' = [nas EXCEPT ![k] = d]
      BY <2>3, <3>1 DEF Edit, Toggle, Delete, Device
    <3> QED
      BY <3>2 DEF TypeOK
  <2> QED
    BY <2>1, <2>2, <2>3
<1>3. excused' \subseteq Rule
  <2>1. CASE Add(k) \/ BulkAdd(k)
    BY <2>1 DEF Add, BulkAdd, TypeOK
  <2>2. CASE Edit(k) \/ Toggle(k) \/ Delete(k)
    <3>1. RulesOf(nas[k]) \subseteq Rule
      BY <2>2, RowsAreDevices, RulesAreRules DEF Edit, Toggle, Delete
    <3>2. excused' \subseteq excused \cup RulesOf(nas[k])
      BY <2>2 DEF Edit, Toggle, Delete
    <3> QED
      BY <3>1, <3>2 DEF TypeOK
  <2> QED
    BY <2>1, <2>2
<1> QED
  BY <1>1, <1>2, <1>3 DEF TypeOK

LEMMA TypeApply == ASSUME TypeOK, NEW a \in Applies, Apply(a) PROVE TypeOK'
<1> USE DEF Goto, Steps
<1>1. CASE SelectClients(a)
  <2>1. \A d \in Wanted : [ip |-> d.ip, bad |-> d.bad] \in Client
    BY RowsAreDevices DEF Wanted, Device, Client
  <2>2. PICK S \in SUBSET Client : file' = [file EXCEPT ![a] = S]
    BY <1>1, <2>1 DEF SelectClients
  <2> QED
    BY <1>1, <2>2 DEF SelectClients, NewRecord, TypeOK, effect
<1>2. CASE WriteClients(a)
  BY <1>2 DEF WriteClients, TypeOK, ghosts, record
<1>3. CASE Validate(a)
  BY <1>3 DEF Validate, TypeOK, effect, record
<1>4. CASE SelectWanted(a)
  <2>1. AllRules(Wanted) \subseteq Rule
    BY RowsAreDevices, RulesOfSome DEF Wanted
  <2> QED
    BY <1>4, <2>1 DEF SelectWanted, TypeOK, effect, ghosts, record
<1>5. CASE AddRule(a)
  <2>1. PICK r \in todo[a] : /\ rules' = rules \cup {r} /\ todo' = [todo EXCEPT ![a] = @ \ {r}]
                             /\ excused' = IF Cleaning THEN excused \cup {r} ELSE excused
    BY <1>5 DEF AddRule
  <2>2. r \in Rule /\ todo[a] \subseteq Rule
    BY DEF TypeOK
  <2>3. UNCHANGED <<nas, clients, loaded, pc, file, alone, closed, unopened, unclosed, ops>>
    BY <1>5 DEF AddRule, record
  <2> QED
    BY <2>1, <2>2, <2>3 DEF TypeOK
<1>6. CASE Reload(a)
  BY <1>6 DEF Reload, TypeOK, ghosts, record
<1>7. CASE MarkActive(a)
  <2>1. \A k \in Rows : [nas[k] EXCEPT !.status = "active"] \in Device
    BY RowsAreDevices DEF Device
  <2>2. nas' \in [Ids -> Device \cup {Null}]
    BY <1>7, <2>1 DEF MarkActive, TypeOK
  <2> QED
    BY <1>7, <2>2 DEF MarkActive, TypeOK, effect, ghosts, record
<1>8. CASE SelectDisabled(a)
  <2>1. AllRules({nas[k] : k \in {j \in Rows : ~nas[j].enabled}}) \subseteq Rule
    BY RowsAreDevices, RulesOfSome
  <2> QED
    BY <1>8, <2>1 DEF SelectDisabled, TypeOK, effect, ghosts, record
<1>9. CASE DeleteRule(a)
  <2>1. PICK r \in todo[a] : /\ rules' = rules \ {r} /\ todo' = [todo EXCEPT ![a] = @ \ {r}]
                             /\ closed' = IF alone = a THEN closed \cup {r} ELSE closed
                             /\ excused' = IF \E b \in Applies : pc[b] = "adding" /\ r \in todo[b]
                                           THEN excused ELSE excused \ {r}
    BY <1>9 DEF DeleteRule
  <2>2. r \in Rule /\ todo[a] \subseteq Rule
    BY DEF TypeOK
  <2>3. UNCHANGED <<nas, clients, loaded, pc, file, alone, unopened, unclosed, ops>>
    BY <1>9 DEF DeleteRule
  <2>4. closed' \subseteq Rule /\ excused' \subseteq Rule
    BY <2>1, <2>2 DEF TypeOK
  <2> QED
    BY <2>1, <2>2, <2>3, <2>4 DEF TypeOK
<1>10. CASE Purge(a)
  <2>1. nas' \in [Ids -> Device \cup {Null}]
    BY <1>10 DEF Purge, TypeOK, Rows
  <2>2. excused' \subseteq Rule
    BY <1>10 DEF Purge, TypeOK
  <2> QED
    BY <1>10, <2>1, <2>2 DEF Purge, TypeOK, effect, record
<1>11. CASE Fail(a)
  BY <1>11, NasAssumption DEF Fail, NewRecord, TypeOK, effect
<1>12. CASE AllowFails(a)
  <2>1. PICK r \in todo[a] : /\ todo' = [todo EXCEPT ![a] = @ \ {r}]
                             /\ unopened' = IF alone = a THEN unopened \cup {r} ELSE unopened
    BY <1>12 DEF AllowFails
  <2>2. ops' \in 0..MaxOps
    BY <1>12, NasAssumption DEF AllowFails, TypeOK
  <2>3. UNCHANGED <<nas, rules, clients, loaded, pc, file, alone, closed, unclosed, excused>>
    BY <1>12 DEF AllowFails, effect
  <2> QED
    BY <2>1, <2>2, <2>3 DEF TypeOK
<1>13. CASE DeleteFails(a)
  <2>1. PICK r \in todo[a] : /\ todo' = [todo EXCEPT ![a] = @ \ {r}]
                             /\ unclosed' = IF alone = a THEN unclosed \cup {r} ELSE unclosed
                             /\ excused' = excused \cup {r}
    BY <1>13 DEF DeleteFails
  <2>2. ops' \in 0..MaxOps
    BY <1>13, NasAssumption DEF DeleteFails, TypeOK
  <2>3. UNCHANGED <<nas, rules, clients, loaded, pc, file, alone, closed, unopened>>
    BY <1>13 DEF DeleteFails, effect
  <2> QED
    BY <2>1, <2>2, <2>3 DEF TypeOK
<1> QED
  BY <1>1, <1>2, <1>3, <1>4, <1>5, <1>6, <1>7, <1>8, <1>9, <1>10, <1>11, <1>12, <1>13 DEF Apply

LEMMA TypeStep == TypeOK /\ [Next]_vars => TypeOK'
<1> SUFFICES ASSUME TypeOK, [Next]_vars PROVE TypeOK'
  OBVIOUS
<1>1. CASE UNCHANGED vars
  BY <1>1 DEF vars, effect, script, ghosts, record, TypeOK
<1> QED
  BY <1>1, TypeEdits, TypeApply DEF Next

-----------------------------------------------------------------------------
LEMMA InvInit == Init => RuleInv
<1> SUFFICES ASSUME Init PROVE RuleInv
  OBVIOUS
<1>1. OpenExplained /\ AddedExplained /\ CleanupCovers
  BY DEF Init, OpenExplained, AddedExplained, CleanupCovers
<1> QED
  BY <1>1, TypeInit DEF RuleInv

(* Rules depend on kind, address and port, not on what toggling, marking and     *)
(* applying change.                                                              *)
LEMMA SameRules ==
  ASSUME NEW d \in Device, NEW e \in Device,
         e.kind = d.kind, e.ip = d.ip, e.src = d.src, e.port = d.port
  PROVE  RulesOf(e) = RulesOf(d)
BY DEF RulesOf, LogsFrom

LEMMA DeviceIsRow == ASSUME TypeOK, NEW k \in Rows PROVE k \in Ids /\ nas[k] \in Device /\ nas[k] # Null
BY RowsAreDevices DEF Rows

(* An administrator takes no rule away from the rows that stand for it without    *)
(* the rule being excused.                                                        *)
LEMMA EditsExcuse ==
  ASSUME TypeOK, NEW k \in Ids, Add(k) \/ BulkAdd(k) \/ Edit(k) \/ Toggle(k) \/ Delete(k)
  PROVE  /\ \A r : ForListed(r) => ForListed(r)' \/ r \in excused'
         /\ Cleaning => \A r : ForKept(r) => ForKept(r)' \/ r \in excused'
<1>1. \A j \in Ids : j # k => nas'[j] = nas[j]
  BY DEF Add, BulkAdd, Edit, Toggle, Delete, TypeOK
<1>2. CASE Add(k) \/ BulkAdd(k)
  <2>1. nas[k] = Null
    BY <1>2 DEF Add, BulkAdd
  <2> QED
    BY <1>1, <2>1 DEF ForListed, ForKept
<1>3. CASE Edit(k)
  <2>1. k \in Rows /\ nas[k] \in Device
    BY <1>3, DeviceIsRow DEF Edit
  <2>2. PICK src \in Addrs \cup {Null}, port \in Ports :
          nas' = [nas EXCEPT ![k] = [@ EXCEPT !.src = src, !.port = port]]
    BY <1>3 DEF Edit
  <2>3. nas'[k] \in Device /\ nas'[k].status = nas[k].status /\ nas'[k].enabled = nas[k].enabled
    <3>1. nas'[k] = [nas[k] EXCEPT !.src = src, !.port = port]
      BY <2>2 DEF TypeOK
    <3> QED
      BY <2>1, <3>1 DEF Device
  <2>4. nas'[k] # Null
    BY <2>3, NullIsNoRow
  <2>5. \A r \in RulesOf(nas[k]) : r \in RulesOf(nas'[k]) \/ r \in excused'
    BY <1>3 DEF Edit
  <2> QED
    BY <1>1, <2>3, <2>4, <2>5 DEF ForListed, ForKept
<1>4. CASE Toggle(k)
  <2>1. k \in Rows /\ nas[k] \in Device
    BY <1>4, DeviceIsRow DEF Toggle
  <2>2. PICK e \in BOOLEAN : nas' = [nas EXCEPT ![k] = [@ EXCEPT !.enabled = e]]
    BY <1>4 DEF Toggle
  <2>3. /\ nas'[k] \in Device /\ nas'[k].status = nas[k].status
        /\ nas'[k].kind = nas[k].kind /\ nas'[k].ip = nas[k].ip
        /\ nas'[k].src = nas[k].src /\ nas'[k].port = nas[k].port
    <3>1. nas'[k] = [nas[k] EXCEPT !.enabled = e]
      BY <2>2 DEF TypeOK
    <3> QED
      BY <2>1, <3>1 DEF Device
  <2>4. nas'[k] # Null /\ RulesOf(nas'[k]) = RulesOf(nas[k])
    BY <2>1, <2>3, NullIsNoRow, SameRules
  <2>5. nas[k].status = "removing" /\ ~nas[k].enabled => RulesOf(nas[k]) \subseteq excused'
    BY <1>4 DEF Toggle
  <2> QED
    BY <1>1, <2>3, <2>4, <2>5 DEF ForListed, ForKept
<1>5. CASE Delete(k)
  <2>1. k \in Rows /\ nas[k] \in Device
    BY <1>5, DeviceIsRow DEF Delete
  <2>2. nas'[k] = [nas[k] EXCEPT !.enabled = FALSE, !.status = "removing"]
    BY <1>5, <2>1 DEF Delete, TypeOK
  <2>3. /\ nas'[k] \in Device /\ ~nas'[k].enabled
        /\ nas'[k].kind = nas[k].kind /\ nas'[k].ip = nas[k].ip
        /\ nas'[k].src = nas[k].src /\ nas'[k].port = nas[k].port
    BY <2>1, <2>2 DEF Device
  <2>4. nas'[k] # Null /\ RulesOf(nas'[k]) = RulesOf(nas[k])
    BY <2>1, <2>3, NullIsNoRow, SameRules
  <2>5. Cleaning => RulesOf(nas[k]) \subseteq excused'
    BY <1>5 DEF Delete
  <2> QED
    BY <1>1, <2>3, <2>4, <2>5 DEF ForListed, ForKept
<1> QED
  BY <1>2, <1>3, <1>4, <1>5

LEMMA EditsKeepInv ==
  ASSUME RuleInv, NEW k \in Ids, Add(k) \/ BulkAdd(k) \/ Edit(k) \/ Toggle(k) \/ Delete(k)
  PROVE  OpenExplained' /\ AddedExplained' /\ CleanupCovers'
<1>1. UNCHANGED <<rules, pc, todo>> /\ excused \subseteq excused'
  BY DEF Add, BulkAdd, Edit, Toggle, Delete, WebEdit, effect, script
<1>2. /\ \A r : ForListed(r) => ForListed(r)' \/ r \in excused'
      /\ Cleaning => \A r : ForKept(r) => ForKept(r)' \/ r \in excused'
  BY EditsExcuse DEF RuleInv
<1>3. OpenExplained' /\ AddedExplained'
  BY <1>1, <1>2 DEF RuleInv, OpenExplained, AddedExplained
<1>4. CleanupCovers'
  BY <1>1, <1>2 DEF RuleInv, CleanupCovers, Cleaning
<1> QED
  BY <1>3, <1>4

(* The helper's steps that change no rule and lengthen no list of rules.           *)
LEMMA QuietSteps ==
  ASSUME RuleInv, NEW a \in Applies,
         SelectClients(a) \/ WriteClients(a) \/ Validate(a) \/ Reload(a) \/ Fail(a) \/ AllowFails(a)
  PROVE  OpenExplained' /\ AddedExplained' /\ CleanupCovers'
<1>1. UNCHANGED <<nas, rules, excused>>
  BY DEF SelectClients, WriteClients, Validate, Reload, Fail, AllowFails, effect, ghosts
<1>2. \A b \in Applies : pc'[b] \in {"adding", "deleting"} =>
        /\ pc'[b] = pc[b] /\ todo'[b] \subseteq todo[b]
        /\ pc'[b] = "deleting" => todo'[b] = todo[b]
  BY DEF SelectClients, WriteClients, Validate, Reload, Fail, AllowFails, Goto, RuleInv, TypeOK
<1> QED
  BY <1>1, <1>2 DEF RuleInv, OpenExplained, AddedExplained, CleanupCovers, ForListed, ForKept

LEMMA ApplyKeepsInv ==
  ASSUME RuleInv, NEW a \in Applies, Apply(a)
  PROVE  OpenExplained' /\ AddedExplained' /\ CleanupCovers'
<1> USE DEF RuleInv
<1>1. CASE SelectWanted(a)
  <2>1. UNCHANGED <<nas, rules, excused>> /\ todo' = [todo EXCEPT ![a] = AllRules(Wanted)]
        /\ pc' = [pc EXCEPT ![a] = "adding"]
    BY <1>1 DEF SelectWanted, Goto, effect, ghosts
  <2>2. \A r \in AllRules(Wanted) : ForListed(r)
    BY DEF AllRules, Wanted, Rows, ForListed
  <2>3. \A b \in Applies : pc'[b] \in {"adding", "deleting"} /\ b # a
          => pc'[b] = pc[b] /\ todo'[b] = todo[b]
    BY <2>1 DEF TypeOK
  <2>4. pc'[a] = "adding" /\ todo'[a] = AllRules(Wanted)
    BY <2>1 DEF TypeOK
  <2> QED
    BY <2>1, <2>2, <2>3, <2>4
    DEF OpenExplained, AddedExplained, CleanupCovers, ForListed, ForKept
<1>2. CASE AddRule(a)
  <2>1. PICK r \in todo[a] : /\ rules' = rules \cup {r} /\ todo' = [todo EXCEPT ![a] = @ \ {r}]
                             /\ excused' = IF Cleaning THEN excused \cup {r} ELSE excused
    BY <1>2 DEF AddRule
  <2>2. pc[a] = "adding" /\ UNCHANGED <<nas, pc>>
    BY <1>2 DEF AddRule
  <2>3. \A b \in Applies : todo'[b] \subseteq todo[b] /\ (b # a => todo'[b] = todo[b])
    BY <2>1 DEF TypeOK
  <2>4. excused \subseteq excused' /\ (Cleaning => r \in excused')
    BY <2>1
  <2>5. OpenExplained' /\ AddedExplained'
    BY <2>1, <2>2, <2>3, <2>4 DEF OpenExplained, AddedExplained, ForListed
  <2>6. CleanupCovers'
    BY <2>1, <2>2, <2>3, <2>4 DEF CleanupCovers, ForKept, Cleaning
  <2> QED
    BY <2>5, <2>6
<1>3. CASE MarkActive(a)
  <2>1. UNCHANGED <<rules, excused, todo>> /\ pc' = [pc EXCEPT ![a] = "cleanup"]
    BY <1>3 DEF MarkActive, Goto, effect, ghosts
  <2>2. \A j \in Ids : nas[j] # Null =>
          /\ nas'[j] # Null /\ RulesOf(nas'[j]) = RulesOf(nas[j])
          /\ nas'[j].enabled = nas[j].enabled
          /\ nas'[j].status = "removing" => nas[j].status = "removing"
    <3> SUFFICES ASSUME NEW j \in Ids, nas[j] # Null
                 PROVE  /\ nas'[j] # Null /\ RulesOf(nas'[j]) = RulesOf(nas[j])
                        /\ nas'[j].enabled = nas[j].enabled
                        /\ nas'[j].status = "removing" => nas[j].status = "removing"
      OBVIOUS
    <3>1. nas[j] \in Device
      BY DEF TypeOK
    <3>2. nas'[j] = nas[j] \/ nas'[j] = [nas[j] EXCEPT !.status = "active"]
      BY <1>3 DEF MarkActive
    <3>3. [nas[j] EXCEPT !.status = "active"] \in Device
      BY <3>1 DEF Device
    <3> QED
      BY <3>1, <3>2, <3>3, SameRules, NullIsNoRow DEF Device
  <2>3. \A b \in Applies : pc'[b] \in {"adding", "deleting"} => pc'[b] = pc[b]
    BY <2>1 DEF TypeOK
  <2>4. \A r : (ForListed(r) => ForListed(r)') /\ (ForKept(r) => ForKept(r)')
    BY <2>2 DEF ForListed, ForKept
  <2> QED
    BY <2>1, <2>3, <2>4 DEF OpenExplained, AddedExplained, CleanupCovers
<1>4. CASE SelectDisabled(a)
  <2> DEFINE listed == AllRules({nas[k] : k \in {j \in Rows : ~nas[j].enabled}})
  <2>1. /\ UNCHANGED <<nas, rules, excused>> /\ todo' = [todo EXCEPT ![a] = listed]
        /\ pc' = [pc EXCEPT ![a] = "deleting"]
    BY <1>4 DEF SelectDisabled, Goto, effect, ghosts
  <2>2. \A r : ForListed(r) => r \in listed \/ ForKept(r)
    BY DEF ForListed, ForKept, AllRules, Rows
  <2>3. \A b \in Applies : pc'[b] \in {"adding", "deleting"} /\ b # a
          => pc'[b] = pc[b] /\ todo'[b] = todo[b]
    BY <2>1 DEF TypeOK
  <2>4. pc'[a] = "deleting" /\ todo'[a] = listed
    BY <2>1 DEF TypeOK
  <2> HIDE DEF listed
  <2>5. OpenExplained' /\ AddedExplained'
    BY <2>1, <2>3, <2>4 DEF OpenExplained, AddedExplained, ForListed
  <2>6. CleanupCovers'
    <3> SUFFICES ASSUME NEW b \in Applies, pc'[b] = "deleting", NEW r \in rules
                 PROVE  r \in excused \/ r \in todo'[b] \/ ForKept(r)
      BY <2>1 DEF CleanupCovers, ForKept
    <3>1. CASE b = a
      BY <3>1, <2>2, <2>4 DEF OpenExplained
    <3>2. CASE b # a
      BY <3>2, <2>3 DEF CleanupCovers
    <3> QED
      BY <3>1, <3>2
  <2> QED
    BY <2>5, <2>6
<1>5. CASE DeleteRule(a)
  <2>1. PICK r \in todo[a] : /\ rules' = rules \ {r} /\ todo' = [todo EXCEPT ![a] = @ \ {r}]
                             /\ excused' = IF \E b \in Applies : pc[b] = "adding" /\ r \in todo[b]
                                           THEN excused ELSE excused \ {r}
    BY <1>5 DEF DeleteRule
  <2>2. pc[a] = "deleting" /\ UNCHANGED <<nas, pc>>
    BY <1>5 DEF DeleteRule
  <2>3. \A b \in Applies : /\ todo[b] \ {r} \subseteq todo'[b]
                            /\ todo'[b] \subseteq todo[b]
    BY <2>1 DEF TypeOK
  <2>4. /\ excused \ {r} \subseteq excused'
        /\ (\E b \in Applies : pc[b] = "adding" /\ r \in todo[b]) => excused' = excused
    BY <2>1
  <2>5. OpenExplained' /\ CleanupCovers'
    BY <2>1, <2>2, <2>3, <2>4 DEF OpenExplained, CleanupCovers, ForListed, ForKept
  <2>6. AddedExplained'
    BY <2>2, <2>3, <2>4 DEF AddedExplained, ForListed
  <2> QED
    BY <2>5, <2>6
<1>6. CASE Purge(a)
  <2>1. /\ UNCHANGED <<rules, todo>> /\ pc[a] = "deleting" /\ todo[a] = {}
        /\ pc' = [pc EXCEPT ![a] = "idle"] /\ excused \subseteq excused'
    BY <1>6 DEF Purge, Goto, effect
  <2>2. \A r : ForKept(r) => ForListed(r)' /\ ForKept(r)'
    <3>1. \A j \in Ids : nas[j] # Null /\ nas[j].status # "removing" => nas'[j] = nas[j]
      BY <1>6 DEF Purge
    <3> QED
      BY <3>1 DEF ForKept, ForListed
  <2>3. \A b \in Applies : pc[b] = "adding" => todo[b] \subseteq excused'
    BY <1>6 DEF Purge
  <2>4. \A b \in Applies : pc'[b] \in {"adding", "deleting"} => pc'[b] = pc[b]
    BY <2>1 DEF TypeOK
  <2>5. OpenExplained'
    BY <2>1, <2>2 DEF CleanupCovers, OpenExplained
  <2>6. AddedExplained'
    BY <2>1, <2>3, <2>4 DEF AddedExplained
  <2>7. CleanupCovers'
    BY <2>1, <2>2, <2>4 DEF CleanupCovers
  <2> QED
    BY <2>5, <2>6, <2>7
<1>7. CASE DeleteFails(a)
  <2>1. PICK r \in todo[a] : /\ todo' = [todo EXCEPT ![a] = @ \ {r}] /\ excused' = excused \cup {r}
    BY <1>7 DEF DeleteFails
  <2>2. pc[a] = "deleting" /\ UNCHANGED <<nas, rules, pc>>
    BY <1>7 DEF DeleteFails, effect
  <2>3. \A b \in Applies : /\ todo[b] \ {r} \subseteq todo'[b]
                            /\ todo'[b] \subseteq todo[b]
    BY <2>1 DEF TypeOK
  <2>4. excused \subseteq excused' /\ r \in excused'
    BY <2>1
  <2> QED
    BY <2>2, <2>3, <2>4 DEF OpenExplained, AddedExplained, CleanupCovers, ForListed, ForKept
<1> QED
  BY <1>1, <1>2, <1>3, <1>4, <1>5, <1>6, <1>7, QuietSteps DEF Apply

THEOREM Invariance == Spec => []RuleInv
<1>1. Init => RuleInv
  BY InvInit
<1>2. RuleInv /\ [Next]_vars => RuleInv'
  <2> SUFFICES ASSUME RuleInv, [Next]_vars PROVE RuleInv'
    OBVIOUS
  <2>1. TypeOK'
    BY TypeStep DEF RuleInv
  <2>2. CASE UNCHANGED vars
    <3>1. UNCHANGED <<nas, rules, pc, todo, excused>>
      BY <2>2 DEF vars, effect, script, ghosts
    <3> QED
      BY <2>1, <3>1
      DEF RuleInv, OpenExplained, AddedExplained, CleanupCovers, ForListed, ForKept
  <2>3. CASE Next
    BY <2>1, <2>3, EditsKeepInv, ApplyKeepsInv DEF Next, RuleInv
  <2> QED
    BY <2>2, <2>3
<1> QED
  BY <1>1, <1>2, PTL DEF Spec

(* Registry, rules, clients and applies keep their types.                          *)
THEOREM TypeCorrect == Spec => []TypeOK
<1>1. RuleInv => TypeOK
  BY DEF RuleInv
<1> QED
  BY <1>1, Invariance, PTL

(* A rule of no row got there in one of the ways OrphansExplained names, however    *)
(* many applies run at the same time (nas_delete, nas_edit, nas-apply.sh).          *)
THEOREM NoUnexplainedOrphan == Spec => []OrphansExplained
<1>1. RuleInv => OrphansExplained
  <2> SUFFICES ASSUME RuleInv, NEW r \in rules, r \notin excused
               PROVE  r \in AllRules({nas[k] : k \in Rows})
    BY DEF OrphansExplained
  <2>1. ForListed(r)
    BY DEF RuleInv, OpenExplained
  <2> QED
    BY <2>1 DEF ForListed, AllRules, Rows
<1> QED
  BY <1>1, Invariance, PTL


-----------------------------------------------------------------------------
(* An apply that nothing disturbs brings everything in line.                       *)

WantedRows == {j \in Rows : nas[j].enabled /\ nas[j].status # "removing"}
RadiusRows == {j \in WantedRows : nas[j].kind # "mikrotik" /\ nas[j].ip \notin Odd}
ToServe    == {[ip |-> nas[j].ip, bad |-> nas[j].bad] : j \in RadiusRows}

AllSound    == \A j \in RadiusRows : ~nas[j].bad
LetIn(open) == \A j \in WantedRows : RulesOf(nas[j]) \subseteq open

(* What the apply that runs alone has achieved so far.                             *)
OnCourse(a) ==
  /\ pc[a] # "idle"
  /\ \A b \in Applies : b # a => pc[b] = "idle"
  /\ pc[a] = "write" => file[a] = ToServe
  /\ pc[a] \in {"validate", "ufw", "adding"} => clients = ToServe
  /\ pc[a] \in {"ufw", "adding", "mark", "cleanup", "deleting"} => AllSound
  /\ pc[a] = "adding" => LetIn(rules \cup todo[a] \cup unopened)
  /\ pc[a] \in {"mark", "cleanup", "deleting"} => loaded = ToServe /\ LetIn(rules \cup closed \cup unopened)
  /\ pc[a] \in {"cleanup", "deleting"} => \A j \in WantedRows : nas[j].status = "active"
  /\ pc[a] = "deleting" => \A j \in Rows : ~nas[j].enabled => RulesOf(nas[j]) \cap rules \subseteq todo[a] \cup unclosed

AllIdle == \A b \in Applies : pc[b] = "idle"

CourseInv ==
  /\ TypeOK
  /\ \A a \in Applies : alone = a => OnCourse(a)
  /\ alone = Done => AllIdle /\ UndisturbedApplyConverges

(* Whatever disturbs the apply that runs alone, it runs alone no longer.            *)
LEMMA WhoIsAlone ==
  ASSUME CourseInv, Next, alone' # Null
  PROVE  \/ \E a \in Applies : SelectClients(a) /\ AllIdle /\ alone' = a
         \/ \E a \in Applies : alone = a /\ Apply(a) /\ pc[a] # "idle"
<1>1. \A k \in Ids : ~(Add(k) \/ BulkAdd(k) \/ Edit(k) \/ Toggle(k) \/ Delete(k))
  BY DEF Add, BulkAdd, Edit, Toggle, Delete, WebEdit
<1>2. PICK a \in Applies : Apply(a)
  BY <1>1 DEF Next
<1>3. CASE SelectClients(a)
  BY <1>3 DEF SelectClients, AllIdle
<1>4. CASE ~SelectClients(a)
  <2>1. pc[a] # "idle"
    BY <1>2, <1>4
    DEF Apply, WriteClients, Validate, SelectWanted, AddRule, Reload, MarkActive, SelectDisabled,
        DeleteRule, Purge, Fail, AllowFails, DeleteFails, Goto
  <2>2. alone # Null
    BY <1>2, <1>4, NasAssumption
    DEF Apply, WriteClients, Validate, SelectWanted, AddRule, Reload, MarkActive, SelectDisabled,
        DeleteRule, Purge, Fail, AllowFails, DeleteFails, ghosts
  <2>3. alone # Done
    BY <1>2, <2>1 DEF CourseInv, AllIdle
  <2>4. alone \in Applies
    BY <2>2, <2>3 DEF CourseInv, TypeOK
  <2>5. alone = a
    BY <2>1, <2>4 DEF CourseInv, OnCourse
  <2> QED BY <1>2, <2>1, <2>5
<1> QED BY <1>3, <1>4

(* MARK changes no device but in its status.                                        *)
LEMMA MarkedRows ==
  ASSUME TypeOK, NEW a \in Applies, MarkActive(a)
  PROVE  /\ Rows' = Rows /\ WantedRows' = WantedRows /\ RadiusRows' = RadiusRows /\ ToServe' = ToServe
         /\ \A j \in Rows : /\ RulesOf(nas'[j]) = RulesOf(nas[j])
                            /\ nas'[j].bad = nas[j].bad /\ nas'[j].enabled = nas[j].enabled
                            /\ j \in WantedRows => nas'[j].status = "active"
<1>1. ASSUME NEW j \in Rows
      PROVE  /\ nas[j] \in Device /\ nas'[j] \in Device
             /\ nas'[j].kind = nas[j].kind /\ nas'[j].ip = nas[j].ip /\ nas'[j].src = nas[j].src
             /\ nas'[j].port = nas[j].port /\ nas'[j].bad = nas[j].bad /\ nas'[j].enabled = nas[j].enabled
             /\ nas'[j].status = "removing" <=> nas[j].status = "removing"
             /\ nas[j].enabled /\ nas[j].status # "removing" => nas'[j].status = "active"
  <2>1. j \in Ids /\ nas[j] \in Device
    BY <1>1, RowsAreDevices
  <2>2. nas'[j] = IF nas[j].enabled /\ nas[j].status = "staged"
                  THEN [nas[j] EXCEPT !.status = "active"] ELSE nas[j]
    BY <1>1, <2>1 DEF MarkActive
  <2>3. nas[j].status \in {"staged", "active", "removing"}
    BY <2>1 DEF Device
  <2>4. CASE nas[j].enabled /\ nas[j].status = "staged"
    BY <2>1, <2>2, <2>4 DEF Device
  <2>5. CASE ~(nas[j].enabled /\ nas[j].status = "staged")
    BY <2>1, <2>2, <2>3, <2>5
  <2> QED BY <2>4, <2>5
<1>2. Rows' = Rows
  <2>1. \A j \in Ids \ Rows : nas'[j] = nas[j]
    BY DEF MarkActive
  <2>2. \A j \in Rows : nas'[j] # Null
    BY <1>1, NullIsNoRow
  <2> QED BY <2>1, <2>2 DEF Rows
<1>3. WantedRows' = WantedRows
  BY <1>1, <1>2 DEF WantedRows
<1>4. RadiusRows' = RadiusRows
  BY <1>1, <1>3 DEF RadiusRows, WantedRows
<1>5. ToServe' = ToServe
  BY <1>1, <1>4 DEF ToServe, RadiusRows, WantedRows
<1>6. \A j \in Rows : RulesOf(nas'[j]) = RulesOf(nas[j])
  BY <1>1, SameRules
<1> QED BY <1>1, <1>2, <1>3, <1>4, <1>5, <1>6 DEF WantedRows

LEMMA CourseBegins ==
  ASSUME TypeOK, NEW a \in Applies, SelectClients(a), AllIdle
  PROVE  OnCourse(a)'
<1>1. /\ pc' = [pc EXCEPT ![a] = "write"] /\ UNCHANGED nas
      /\ file' = [file EXCEPT ![a] = {[ip |-> d.ip, bad |-> d.bad] :
                                       d \in {e \in Wanted : e.kind # "mikrotik" /\ e.ip \notin Odd}}]
  BY DEF SelectClients, Goto
<1>2. pc'[a] = "write" /\ \A b \in Applies : b # a => pc'[b] = "idle"
  BY <1>1 DEF AllIdle, TypeOK
<1>3. file'[a] = ToServe
  <2>1. file'[a] = {[ip |-> d.ip, bad |-> d.bad] :
                    d \in {e \in Wanted : e.kind # "mikrotik" /\ e.ip \notin Odd}}
    BY <1>1 DEF TypeOK
  <2>2. {e \in Wanted : e.kind # "mikrotik" /\ e.ip \notin Odd} = {nas[j] : j \in RadiusRows}
    BY DEF Wanted, RadiusRows, WantedRows
  <2> QED BY <2>1, <2>2 DEF ToServe
<1>4. ToServe' = ToServe
  BY <1>1 DEF ToServe, RadiusRows, WantedRows, Rows
<1> QED BY <1>2, <1>3, <1>4 DEF OnCourse

LEMMA CourseGoesOn ==
  ASSUME TypeOK, NEW a \in Applies, OnCourse(a), Apply(a), alone = a, alone' = a
  PROVE  OnCourse(a)'
<1>1. ~Purge(a) /\ ~Fail(a) /\ ~SelectClients(a)
  BY NasAssumption DEF Purge, Fail, SelectClients, Goto, OnCourse
<1>2. \A b \in Applies : b # a => pc'[b] = "idle"
  BY <1>1 DEF OnCourse, Apply, WriteClients, Validate, SelectWanted, AddRule, Reload, MarkActive,
              SelectDisabled, DeleteRule, AllowFails, DeleteFails, Goto, TypeOK
<1>3. ASSUME UNCHANGED nas
      PROVE  /\ Rows' = Rows /\ WantedRows' = WantedRows /\ RadiusRows' = RadiusRows
             /\ ToServe' = ToServe /\ (AllSound => AllSound')
  BY <1>3 DEF Rows, WantedRows, RadiusRows, ToServe, AllSound
<1>4. CASE WriteClients(a)
  <2>1. /\ pc[a] = "write" /\ pc'[a] = "validate" /\ UNCHANGED nas
        /\ clients' = file[a]
    BY <1>4 DEF WriteClients, Goto, TypeOK
  <2>2. clients' = ToServe
    BY <2>1 DEF OnCourse
  <2> QED BY <1>2, <1>3, <2>1, <2>2 DEF OnCourse
<1>5. CASE Validate(a)
  <2>1. /\ pc[a] = "validate" /\ pc'[a] = "ufw" /\ UNCHANGED <<nas, clients>>
        /\ \A c \in clients : ~c.bad
    BY <1>5, NasAssumption DEF Validate, Goto, TypeOK, effect
  <2>2. clients = ToServe
    BY <2>1 DEF OnCourse
  <2>3. AllSound
    <3> SUFFICES ASSUME NEW j \in RadiusRows PROVE ~nas[j].bad
      BY DEF AllSound
    <3>1. [ip |-> nas[j].ip, bad |-> nas[j].bad] \in clients
      BY <2>2 DEF ToServe
    <3>2. ~[ip |-> nas[j].ip, bad |-> nas[j].bad].bad
      BY <2>1, <3>1
    <3> QED BY <3>2, Zenon
  <2> QED BY <1>2, <1>3, <2>1, <2>2, <2>3 DEF OnCourse
<1>6. CASE SelectWanted(a)
  <2>1. /\ pc[a] = "ufw" /\ pc'[a] = "adding" /\ UNCHANGED <<nas, clients>>
        /\ todo'[a] = AllRules(Wanted)
    BY <1>6 DEF SelectWanted, Goto, TypeOK, effect
  <2>2. \A j \in WantedRows : RulesOf(nas[j]) \subseteq todo'[a]
    BY <2>1 DEF AllRules, Wanted, WantedRows
  <2>3. LetIn(rules \cup todo[a] \cup unopened)'
    BY <1>3, <2>1, <2>2 DEF LetIn
  <2> QED BY <1>2, <1>3, <2>1, <2>3 DEF OnCourse
<1>7. CASE AddRule(a)
  <2>1. /\ pc[a] = "adding" /\ pc'[a] = "adding" /\ UNCHANGED <<nas, clients, unopened>>
        /\ rules \cup todo[a] \subseteq rules' \cup todo'[a]
    BY <1>7 DEF AddRule, TypeOK, record
  <2>2. LetIn(rules \cup todo[a] \cup unopened)'
    BY <1>3, <2>1 DEF OnCourse, LetIn
  <2> QED BY <1>2, <1>3, <2>1, <2>2 DEF OnCourse
<1>8. CASE Reload(a)
  <2>1. /\ pc[a] = "adding" /\ pc'[a] = "mark" /\ UNCHANGED <<nas, rules, closed, unopened>>
        /\ loaded' = clients /\ todo[a] = {}
    BY <1>8 DEF Reload, Goto, TypeOK, ghosts, record
  <2>2. LetIn(rules \cup closed \cup unopened)'
    BY <1>3, <2>1 DEF OnCourse, LetIn
  <2> QED BY <1>2, <1>3, <2>1, <2>2 DEF OnCourse
<1>9. CASE MarkActive(a)
  <2>1. /\ pc[a] = "mark" /\ pc'[a] = "cleanup" /\ UNCHANGED <<rules, closed, unopened, loaded>>
    BY <1>9 DEF MarkActive, Goto, TypeOK, ghosts, record, effect
  <2>2. /\ Rows' = Rows /\ WantedRows' = WantedRows /\ RadiusRows' = RadiusRows /\ ToServe' = ToServe
        /\ \A j \in Rows : /\ RulesOf(nas'[j]) = RulesOf(nas[j])
                           /\ nas'[j].bad = nas[j].bad /\ nas'[j].enabled = nas[j].enabled
                           /\ j \in WantedRows => nas'[j].status = "active"
    BY <1>9, MarkedRows
  <2>3. WantedRows \subseteq Rows /\ RadiusRows \subseteq Rows
    BY DEF WantedRows, RadiusRows
  <2>4. LetIn(rules \cup closed \cup unopened)' /\ AllSound'
    BY <2>1, <2>2, <2>3 DEF OnCourse, LetIn, AllSound
  <2>5. \A j \in WantedRows' : nas'[j].status = "active"
    BY <2>2, <2>3
  <2> QED BY <1>2, <2>1, <2>2, <2>4, <2>5 DEF OnCourse
<1>10. CASE SelectDisabled(a)
  <2>1. /\ pc[a] = "cleanup" /\ pc'[a] = "deleting" /\ UNCHANGED <<nas, rules, closed, unopened, unclosed, loaded>>
        /\ todo'[a] = AllRules({nas[i] : i \in {j \in Rows : ~nas[j].enabled}})
    BY <1>10 DEF SelectDisabled, Goto, TypeOK, effect, ghosts, record
  <2>2. \A j \in Rows : ~nas[j].enabled => RulesOf(nas[j]) \subseteq todo'[a]
    BY <2>1 DEF AllRules
  <2>3. LetIn(rules \cup closed \cup unopened)'
    BY <1>3, <2>1 DEF OnCourse, LetIn
  <2>4. \A j \in Rows' : ~nas'[j].enabled => RulesOf(nas'[j]) \cap rules' \subseteq todo'[a] \cup unclosed'
    BY <1>3, <2>1, <2>2
  <2> QED BY <1>2, <1>3, <2>1, <2>3, <2>4 DEF OnCourse
<1>11. CASE DeleteRule(a)
  <2>1. PICK r \in todo[a] : /\ rules' = rules \ {r} /\ todo' = [todo EXCEPT ![a] = @ \ {r}]
                             /\ closed' = closed \cup {r}
    BY <1>11 DEF DeleteRule
  <2>2. /\ pc[a] = "deleting" /\ pc'[a] = "deleting" /\ UNCHANGED <<nas, loaded, unopened, unclosed>>
        /\ todo'[a] = todo[a] \ {r}
    BY <1>11, <2>1 DEF DeleteRule, TypeOK
  <2>3. LetIn(rules \cup closed \cup unopened)'
    BY <1>3, <2>1, <2>2 DEF OnCourse, LetIn
  <2>4. \A j \in Rows' : ~nas'[j].enabled => RulesOf(nas'[j]) \cap rules' \subseteq todo'[a] \cup unclosed'
    BY <1>3, <2>1, <2>2 DEF OnCourse
  <2> QED BY <1>2, <1>3, <2>2, <2>3, <2>4 DEF OnCourse
<1>12. CASE AllowFails(a)
  <2>1. PICK r \in todo[a] : /\ todo' = [todo EXCEPT ![a] = @ \ {r}] /\ unopened' = unopened \cup {r}
    BY <1>12 DEF AllowFails
  <2>2. /\ pc[a] = "adding" /\ pc'[a] = "adding" /\ UNCHANGED <<nas, rules, clients>>
        /\ rules \cup todo[a] \cup unopened \subseteq rules' \cup todo'[a] \cup unopened'
    BY <1>12, <2>1 DEF AllowFails, TypeOK, effect
  <2>3. LetIn(rules \cup todo[a] \cup unopened)'
    BY <1>3, <2>2 DEF OnCourse, LetIn
  <2> QED BY <1>2, <1>3, <2>2, <2>3 DEF OnCourse
<1>13. CASE DeleteFails(a)
  <2>1. PICK r \in todo[a] : /\ todo' = [todo EXCEPT ![a] = @ \ {r}] /\ unclosed' = unclosed \cup {r}
    BY <1>13 DEF DeleteFails
  <2>2. /\ pc[a] = "deleting" /\ pc'[a] = "deleting" /\ UNCHANGED <<nas, rules, closed, unopened, loaded>>
        /\ todo[a] \cup unclosed \subseteq todo'[a] \cup unclosed'
    BY <1>13, <2>1 DEF DeleteFails, TypeOK, effect
  <2>3. LetIn(rules \cup closed \cup unopened)'
    BY <1>3, <2>2 DEF OnCourse, LetIn
  <2>4. \A j \in Rows' : ~nas'[j].enabled => RulesOf(nas'[j]) \cap rules' \subseteq todo'[a] \cup unclosed'
    BY <1>3, <2>2 DEF OnCourse
  <2> QED BY <1>2, <1>3, <2>2, <2>3, <2>4 DEF OnCourse
<1> QED
  BY <1>1, <1>4, <1>5, <1>6, <1>7, <1>8, <1>9, <1>10, <1>11, <1>12, <1>13 DEF Apply

(* The end: the rows that were to be removed are gone, the others stay as they are. *)
LEMMA CourseEnds ==
  ASSUME TypeOK, NEW a \in Applies, OnCourse(a), Apply(a), alone = a, alone' = Done
  PROVE  AllIdle' /\ UndisturbedApplyConverges'
<1>1. Purge(a)
  BY NasAssumption
  DEF Apply, SelectClients, WriteClients, Validate, SelectWanted, AddRule, Reload, MarkActive,
      SelectDisabled, DeleteRule, Fail, AllowFails, DeleteFails, ghosts
<1>2. /\ pc[a] = "deleting" /\ todo[a] = {} /\ pc' = [pc EXCEPT ![a] = "idle"]
      /\ UNCHANGED <<rules, loaded, closed, unopened, unclosed>>
      /\ nas' = [i \in Ids |-> IF i \in Rows /\ nas[i].status = "removing" THEN Null ELSE nas[i]]
  BY <1>1 DEF Purge, Goto, effect, record
<1>3. AllIdle'
  BY <1>2 DEF AllIdle, OnCourse, TypeOK
<1>4. \A j \in Ids : j \in Rows' <=> j \in Rows /\ nas[j].status # "removing"
  BY <1>2 DEF Rows
<1>5. \A j \in Rows' : j \in Rows /\ nas'[j] = nas[j] /\ nas[j].status # "removing"
  BY <1>2, <1>4 DEF Rows
<1>6. \A j \in WantedRows : j \in Rows' /\ nas'[j] = nas[j] /\ nas[j].enabled
  BY <1>4, <1>5 DEF WantedRows, Rows
<1>7. \A d : d \in Enabled' <=> \E j \in WantedRows : d = nas[j]
  BY <1>5, <1>6 DEF Enabled, WantedRows
<1>8. \A d \in Disabled' : d.status # "removing" /\ RulesOf(d) \cap rules \subseteq unclosed
  <2> SUFFICES ASSUME NEW j \in Rows', ~nas'[j].enabled
               PROVE  nas'[j].status # "removing" /\ RulesOf(nas'[j]) \cap rules \subseteq unclosed
    BY DEF Disabled
  <2>1. j \in Rows /\ nas'[j] = nas[j] /\ nas[j].status # "removing" /\ ~nas[j].enabled
    BY <1>5
  <2> QED BY <1>2, <2>1 DEF OnCourse
<1>9. \A d \in Enabled' : d.status = "active" /\ RulesOf(d) \subseteq rules \cup closed \cup unopened
  BY <1>2, <1>7 DEF OnCourse, LetIn
<1>10. loaded = {[ip |-> d.ip, bad |-> FALSE] : d \in {e \in Enabled' : e.kind # "mikrotik" /\ e.ip \notin Odd}}
  <2>1. loaded = ToServe /\ AllSound
    BY <1>2 DEF OnCourse
  <2>2. \A j \in RadiusRows : nas[j].bad = FALSE
    <3>1. \A j \in RadiusRows : nas[j] \in Device
      BY RowsAreDevices DEF RadiusRows, WantedRows
    <3> QED BY <2>1, <3>1 DEF AllSound, Device
  <2>3. ToServe = {[ip |-> nas[j].ip, bad |-> FALSE] : j \in RadiusRows}
    BY <2>2 DEF ToServe
  <2>4. {[ip |-> nas[j].ip, bad |-> FALSE] : j \in RadiusRows}
        = {[ip |-> d.ip, bad |-> FALSE] : d \in {e \in Enabled' : e.kind # "mikrotik" /\ e.ip \notin Odd}}
    BY <1>7 DEF RadiusRows
  <2> QED BY <2>1, <2>3, <2>4
<1> QED BY <1>2, <1>3, <1>8, <1>9, <1>10 DEF UndisturbedApplyConverges

LEMMA CourseInvariance == Spec => []CourseInv
<1>1. Init => CourseInv
  <2> SUFFICES ASSUME Init PROVE CourseInv
    OBVIOUS
  <2>1. alone = Null
    BY DEF Init
  <2> QED BY <2>1, TypeInit, NasAssumption DEF CourseInv
<1>2. CourseInv /\ [Next]_vars => CourseInv'
  <2> SUFFICES ASSUME CourseInv, [Next]_vars PROVE CourseInv'
    OBVIOUS
  <2>1. TypeOK /\ TypeOK'
    BY TypeStep DEF CourseInv
  <2>2. CASE UNCHANGED vars
    <3>1. UNCHANGED <<nas, rules, clients, loaded, pc, file, todo, alone, closed, unopened, unclosed>>
      BY <2>2 DEF vars, effect, script, ghosts, record
    <3>2. \A a \in Applies : OnCourse(a) => OnCourse(a)'
      BY <3>1 DEF OnCourse, LetIn, AllSound, ToServe, RadiusRows, WantedRows, Rows
    <3>3. (AllIdle => AllIdle') /\ (UndisturbedApplyConverges => UndisturbedApplyConverges')
      BY <3>1 DEF AllIdle, UndisturbedApplyConverges, Enabled, Disabled, Rows
    <3> QED BY <2>1, <3>1, <3>2, <3>3 DEF CourseInv
  <2>3. CASE Next /\ alone' = Null
    BY <2>1, <2>3, NasAssumption DEF CourseInv
  <2>4. ASSUME NEW a \in Applies, SelectClients(a), AllIdle, alone' = a PROVE CourseInv'
    BY <2>1, <2>4, CourseBegins, NasAssumption DEF CourseInv
  <2>5. ASSUME NEW a \in Applies, alone = a, Apply(a), pc[a] # "idle" PROVE CourseInv'
    <3>1. OnCourse(a)
      BY <2>5 DEF CourseInv
    <3>2. alone' \in {a, Null, Done}
      BY <2>5 DEF Apply, SelectClients, WriteClients, Validate, SelectWanted, AddRule, Reload, MarkActive,
                  SelectDisabled, DeleteRule, Purge, Fail, AllowFails, DeleteFails, Goto, ghosts
    <3>3. CASE alone' = a
      BY <2>1, <2>5, <3>1, <3>3, CourseGoesOn, NasAssumption DEF CourseInv
    <3>4. CASE alone' = Done
      BY <2>1, <2>5, <3>1, <3>4, CourseEnds, NasAssumption DEF CourseInv
    <3>5. CASE alone' = Null
      BY <2>1, <3>5, NasAssumption DEF CourseInv
    <3> QED BY <3>2, <3>3, <3>4, <3>5
  <2> QED BY <2>2, <2>3, <2>4, <2>5, WhoIsAlone
<1> QED BY <1>1, <1>2, PTL DEF Spec

(* Whatever races, failures and half-done applies came before, an apply of          *)
(* nas-apply.sh that nothing disturbs leaves every enabled device active and let in *)
(* (but for an address valid_ip refuses, a rule ufw refused to open, and one that a *)
(* disabled device shares), none of the others let in (but for a rule ufw refused   *)
(* to delete) or waiting for removal, and FreeRADIUS with the enabled RADIUS        *)
(* devices of plain addresses.                                                      *)
THEOREM ApplyConverges == Spec => []UndisturbedApplyConverges
<1>1. CourseInv => UndisturbedApplyConverges
  BY DEF CourseInv, UndisturbedApplyConverges
<1> QED BY <1>1, CourseInvariance, PTL
=============================================================================
