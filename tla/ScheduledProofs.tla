-------------------------- MODULE ScheduledProofs --------------------------
(***************************************************************************)
(* Theorems about what timers start beside the ingest daemon: RouterPolls, *)
(* for any NASes, usernames, persons, runs and faults, and Storage, for    *)
(* any retention, reach and number of days.                                *)
(*                                                                         *)
(* Of the pollers: a subscriber a sync has taken in keeps an identity of   *)
(* his own, and what a NAS has told is what the pages show.  Neither is    *)
(* inductive: what a NAS says is taken in only where it is stored, and     *)
(* stored only under that NAS, so each proof follows what is heard, NAS by *)
(* NAS.                                                                    *)
(***************************************************************************)
EXTENDS RouterPolls, Storage, FiniteSetTheorems, TLAPS

Steps == {"idle", "next", "ask", "store", "bogon", "part of bogon", "version", "tracking", "pool"}

Answer ==
  [secrets : [Users -> Persons \cup {Null}], arp : SUBSET Entry, total : BOOLEAN,
   pool : SUBSET PublicIps]

Working  == pc \notin {"idle", "next"}
Storing  == pc = "store" /\ program = "secrets"
Silent(n) == \A u \in Users : heard[n].secrets[u] = Null

TypeInv ==
  /\ cache \in [Nases \X Users -> Persons \cup {Null}]
  /\ heard \in [Nases -> Answer]
  /\ pc \in Steps /\ program \in Programs
  /\ todo \subseteq Nases
  /\ Working => cur \in Nases \ todo

(* Who has not been asked has said nothing, nor has the NAS the program is at,  *)
(* but for one whose secrets are being stored.                                  *)
SilentTillAsked ==
  /\ \A n \in todo : Silent(n)
  /\ Working /\ ~Storing => Silent(cur)

(* What was heard this run, and what is cached, a NAS once told.                *)
HeardIsTold ==
  \A n \in Nases, u \in Users :
    heard[n].secrets[u] # Null => <<n, u, heard[n].secrets[u]>> \in told

CacheIsTold ==
  \A n \in Nases, u \in Users : cache[<<n, u>>] # Null => <<n, u, cache[<<n, u>>]>> \in told

TakenIsCached ==
  \A n \in Nases, u \in Users : <<n, u>> \in taken => cache[<<n, u>>] # Null

IInv == TypeInv /\ SilentTillAsked /\ HeardIsTold /\ CacheIsTold /\ TakenIsCached

-----------------------------------------------------------------------------
LEMMA InitOK == Init => IInv
<1> SUFFICES ASSUME Init PROVE IInv OBVIOUS
<1>1. Nothing \in Answer BY DEF Nothing, Answer
<1>2. \A n \in Nases : Silent(n) BY DEF Init, Silent, Nothing
<1>3. TypeInv BY <1>1 DEF Init, TypeInv, Steps, Programs, Working
<1>4. SilentTillAsked BY DEF Init, SilentTillAsked, Working
<1>5. HeardIsTold BY <1>2 DEF HeardIsTold, Silent
<1>6. CacheIsTold /\ TakenIsCached BY DEF Init, CacheIsTold, TakenIsCached
<1> QED BY <1>3, <1>4, <1>5, <1>6 DEF IInv

(* A step at a NAS that stores no secrets and hears none.                       *)
LEMMA QuietStep ==
  ASSUME IInv, Working, ~Storing,
         cache' = cache, told' = told, heard' \in [Nases -> Answer],
         \A n \in Nases : heard'[n].secrets = heard[n].secrets,
         Leave \/ Die \/ \E s \in Steps \ {"idle", "next"} : Goto(s)
  PROVE  IInv'
<1> USE DEF IInv
<1>1. Silent(cur) /\ cur \in Nases BY DEF SilentTillAsked, TypeInv
<1>2. taken' = taken
  <2>1. {x \in Users : heard'[cur].secrets[x] # Null} = {} BY <1>1 DEF Silent
  <2> QED BY <2>1 DEF Leave, Die, Goto
<1>3. program' = program /\ todo' = todo BY DEF Leave, Die, Goto
<1>4. pc' \in Steps /\ (Working' => cur' = cur)
  BY DEF Leave, Die, Goto, Steps, Working
<1>5. \A n \in Nases : Silent(n) => Silent(n)' BY DEF Silent
<1>6. TypeInv' BY <1>3, <1>4 DEF TypeInv
<1>7. SilentTillAsked'
  <2>1. \A n \in todo' : Silent(n)' BY <1>3, <1>5 DEF SilentTillAsked, TypeInv
  <2>2. Working' => Silent(cur)' BY <1>1, <1>4, <1>5
  <2> QED BY <2>1, <2>2 DEF SilentTillAsked
<1>8. HeardIsTold' BY DEF HeardIsTold
<1>9. CacheIsTold' /\ TakenIsCached' BY <1>2 DEF CacheIsTold, TakenIsCached
<1> QED BY <1>6, <1>7, <1>8, <1>9

(* What is heard of ARP entries, or of connections, are no secrets.              *)
LEMMA HearsNoSecrets ==
  ASSUME IInv, Working, NEW what \in {"arp", "total", "pool"}, NEW news, Hears(what, news),
         what = "arp" => news \in SUBSET Entry,
         what = "total" => news \in BOOLEAN,
         what = "pool" => news \in SUBSET PublicIps
  PROVE  /\ told' = told /\ heard' \in [Nases -> Answer]
         /\ \A n \in Nases : heard'[n].secrets = heard[n].secrets
<1>1. heard \in [Nases -> Answer] /\ cur \in Nases BY DEF IInv, TypeInv
<1>2. heard[cur] \in Answer BY <1>1
<1>3. [heard[cur] EXCEPT ![what] = news] \in Answer BY <1>2 DEF Answer
<1>4. [heard[cur] EXCEPT ![what] = news].secrets = heard[cur].secrets BY <1>2 DEF Answer
<1> QED BY <1>1, <1>3, <1>4 DEF Hears

(* The secrets a NAS lists, stored or none.                                     *)
LEMMA AskSecretsOK == IInv /\ AskSecrets => IInv'
<1> SUFFICES ASSUME IInv, AskSecrets PROVE IInv' OBVIOUS
<1> USE DEF IInv
<1>1. PICK list \in [Users -> Persons \cup {Null}] :
        /\ Hears("secrets", list) /\ UNCHANGED <<tables, txn, faults>>
        /\ IF \A u \in Users : list[u] = Null THEN Leave ELSE Goto("store")
  BY DEF AskSecrets
<1>2. cur \in Nases \ todo /\ heard \in [Nases -> Answer] /\ program = "secrets" /\ pc = "ask"
  BY DEF AskSecrets, TypeInv, Working
<1>3. heard[cur] \in Answer BY <1>2
<1>4. [heard[cur] EXCEPT !["secrets"] = list] \in Answer BY <1>3 DEF Answer
<1>5. heard' = [heard EXCEPT ![cur] = [heard[cur] EXCEPT !["secrets"] = list]]
  BY <1>1 DEF Hears
<1>6. heard' \in [Nases -> Answer] BY <1>2, <1>4, <1>5
<1>7. heard'[cur].secrets = list BY <1>2, <1>3, <1>5 DEF Answer
<1>8. \A n \in Nases \ {cur} : heard'[n] = heard[n] BY <1>2, <1>5
<1>9. cache' = cache /\ program' = program /\ todo' = todo
  BY <1>1 DEF tables, Leave, Goto
<1>10. told \subseteq told' /\ \A u \in Users : list[u] # Null => <<cur, u, list[u]>> \in told'
  BY <1>1 DEF Hears
<1>11. taken' = taken /\ ((pc' = "next" /\ \A u \in Users : list[u] = Null) \/ (pc' = "store" /\ cur' = cur))
  <2>1. CASE \A u \in Users : list[u] = Null
    <3>1. {x \in Users : heard'[cur].secrets[x] # Null} = {} BY <2>1, <1>7
    <3> QED BY <3>1, <2>1, <1>1 DEF Leave
  <2>2. CASE ~ \A u \in Users : list[u] = Null BY <2>2, <1>1 DEF Goto
  <2> QED BY <2>1, <2>2
<1>12. TypeInv' BY <1>2, <1>6, <1>9, <1>11 DEF TypeInv, Steps, Working
<1>13. SilentTillAsked'
  <2>1. \A n \in todo' : Silent(n)' BY <1>2, <1>8, <1>9 DEF SilentTillAsked, TypeInv, Silent
  <2>2. Working' => Storing' BY <1>2, <1>9, <1>11 DEF Working, Storing
  <2> QED BY <2>1, <2>2 DEF SilentTillAsked
<1>14. HeardIsTold' BY <1>7, <1>8, <1>10 DEF HeardIsTold
<1>15. CacheIsTold' BY <1>9, <1>10 DEF CacheIsTold
<1>16. TakenIsCached' BY <1>9, <1>11 DEF TakenIsCached
<1> QED BY <1>12, <1>13, <1>14, <1>15, <1>16

(* What is stored was heard, and under the NAS that said it.                     *)
LEMMA StoreSecretsOK == IInv /\ StoreSecrets => IInv'
<1> SUFFICES ASSUME IInv, StoreSecrets PROVE IInv' OBVIOUS
<1> USE DEF IInv
<1> DEFINE list == heard[cur].secrets
<1>1. cur \in Nases \ todo /\ heard[cur] \in Answer BY DEF StoreSecrets, TypeInv, Working
<1>2. list \in [Users -> Persons \cup {Null}] BY <1>1 DEF Answer
<1>3. heard' = heard /\ told' = told /\ program' = program /\ todo' = todo /\ pc' \in {"next", "idle"}
  BY DEF StoreSecrets, words, Leave, Die
<1>4. (txn' = "clean" /\ cache' = UpsertSecrets(list)) \/ (txn' # "clean" /\ cache' \in {cache, UpsertSecrets(list)})
  BY DEF StoreSecrets, StatementFails
<1>5. UpsertSecrets(list) \in [Nases \X Users -> Persons \cup {Null}]
  BY <1>1, <1>2 DEF UpsertSecrets, TypeInv
<1>6. \A n \in Nases, u \in Users :
        UpsertSecrets(list)[<<n, u>>] = IF n = cur /\ list[u] # Null THEN list[u] ELSE cache[<<n, u>>]
  BY DEF UpsertSecrets
<1>7. TypeInv' BY <1>3, <1>4, <1>5 DEF TypeInv, Steps, Working
<1>8. SilentTillAsked' BY <1>3 DEF SilentTillAsked, Silent, Working
<1>9. HeardIsTold' BY <1>3 DEF HeardIsTold
<1>10. CacheIsTold' BY <1>1, <1>3, <1>4, <1>6 DEF CacheIsTold, HeardIsTold
<1>11. TakenIsCached'
  <2> SUFFICES ASSUME NEW n \in Nases, NEW u \in Users, <<n, u>> \in taken'
               PROVE  cache'[<<n, u>>] # Null
    BY DEF TakenIsCached
  <2>1. CASE <<n, u>> \in taken
    <3>1. cache[<<n, u>>] # Null BY <2>1 DEF TakenIsCached
    <3> QED BY <3>1, <1>4, <1>6
  <2>2. CASE <<n, u>> \notin taken
    <3>1. txn' = "clean" /\ Leave BY <2>2 DEF StoreSecrets, Leave, Die
    <3>2. n = cur /\ list[u] # Null BY <3>1, <2>2, <1>3 DEF Leave
    <3> QED BY <3>1, <3>2, <1>4, <1>6
  <2> QED BY <2>1, <2>2
<1> QED BY <1>7, <1>8, <1>9, <1>10, <1>11

LEMMA StepOK == IInv /\ [Next]_vars => IInv'
<1> SUFFICES ASSUME IInv, [Next]_vars PROVE IInv' OBVIOUS
<1>1. ASSUME NEW p \in Programs, Start(p) PROVE IInv'
  <2>1. Nothing \in Answer /\ \A u \in Users : Nothing.secrets[u] = Null BY DEF Nothing, Answer
  <2>2. cache' = cache /\ told' = told /\ taken' = taken /\ program' = p /\ pc' = "next"
    BY <1>1 DEF Start, tables
  <2>3. heard' = [n \in Nases |-> Nothing] /\ todo' \subseteq Nases BY <1>1 DEF Start
  <2>4. TypeInv' BY <2>1, <2>2, <2>3 DEF IInv, TypeInv, Steps, Working
  <2>5. SilentTillAsked' /\ HeardIsTold'
    BY <2>1, <2>2, <2>3 DEF SilentTillAsked, HeardIsTold, Silent, Working
  <2>6. CacheIsTold' /\ TakenIsCached' BY <2>2 DEF IInv, CacheIsTold, TakenIsCached
  <2> QED BY <2>4, <2>5, <2>6 DEF IInv
<1>2. ASSUME NEW n \in Nases, NextNas(n) PROVE IInv'
  <2> USE <1>2 DEF IInv, NextNas, tables, ghosts, words
  <2>1. TypeInv' BY DEF TypeInv, Steps, Working
  <2>2. SilentTillAsked' BY DEF SilentTillAsked, Silent, Working, Storing
  <2>3. HeardIsTold' /\ CacheIsTold' /\ TakenIsCached'
    BY DEF HeardIsTold, CacheIsTold, TakenIsCached
  <2> QED BY <2>1, <2>2, <2>3
<1>3. ASSUME End \/ Kill \/ UNCHANGED vars PROVE IInv'
  <2>1. /\ cache' = cache /\ heard' = heard /\ told' = told /\ taken' = taken
        /\ program' = program /\ todo' = todo
        /\ pc' = "idle" \/ (pc' = pc /\ cur' = cur)
    BY <1>3 DEF End, Kill, Die, tables, control, ghosts, words, vars
  <2>2. TypeInv' BY <2>1 DEF IInv, TypeInv, Steps, Working
  <2>3. SilentTillAsked' BY <2>1 DEF IInv, SilentTillAsked, Silent, Working, Storing
  <2>4. HeardIsTold' /\ CacheIsTold' /\ TakenIsCached'
    BY <2>1 DEF IInv, HeardIsTold, CacheIsTold, TakenIsCached
  <2> QED BY <2>2, <2>3, <2>4 DEF IInv
<1>4. ASSUME RouterFails \/ Connect \/ ReadFails \/ StoreArp \/ StoreBogon \/ DetectVersion PROVE IInv'
  <2>1. Working /\ ~Storing
    BY <1>4 DEF RouterFails, Connect, ReadFails, StoreArp, StoreBogon, DetectVersion, Working, Storing
  <2>2. cache' = cache /\ heard' = heard /\ told' = told
    BY <1>4 DEF RouterFails, Connect, ReadFails, StoreArp, StoreBogon, DetectVersion, tables, words
  <2>3. Leave \/ Die \/ \E s \in Steps \ {"idle", "next"} : Goto(s)
    BY <1>4 DEF RouterFails, Connect, ReadFails, StoreArp, StoreBogon, DetectVersion, Steps
  <2>4. heard \in [Nases -> Answer] BY DEF IInv, TypeInv
  <2> QED BY <2>1, <2>2, <2>3, <2>4, QuietStep
<1>5. CASE AskArp
  <2>1. Working /\ ~Storing BY <1>5 DEF AskArp, Working, Storing
  <2>2. PICK list \in ArpLists : Hears("arp", {e \in list : Static(e)}) BY <1>5 DEF AskArp
  <2>3. {e \in list : Static(e)} \in SUBSET Entry BY <2>2 DEF ArpLists
  <2>4. /\ told' = told /\ heard' \in [Nases -> Answer]
        /\ \A n \in Nases : heard'[n].secrets = heard[n].secrets
    BY <2>1, <2>2, <2>3, HearsNoSecrets
  <2>5. cache' = cache /\ \E s \in Steps \ {"idle", "next"} : Goto(s)
    BY <1>5 DEF AskArp, tables, Steps
  <2> QED BY <2>1, <2>4, <2>5, QuietStep
<1>6. CASE PollTracking
  <2>1. Working /\ ~Storing BY <1>6 DEF PollTracking, Working, Storing
  <2>2. cache' = cache /\ (Leave \/ \E s \in Steps \ {"idle", "next"} : Goto(s))
    BY <1>6 DEF PollTracking, PoolOrLeave, Steps
  <2>3. CASE Hears("total", TRUE)
    <3>1. /\ told' = told /\ heard' \in [Nases -> Answer]
          /\ \A n \in Nases : heard'[n].secrets = heard[n].secrets
      BY <2>1, <2>3, HearsNoSecrets
    <3> QED BY <2>1, <2>2, <3>1, QuietStep
  <2>4. CASE UNCHANGED words
    <3>1. heard' = heard /\ told' = told /\ heard \in [Nases -> Answer]
      BY <2>4 DEF words, IInv, TypeInv
    <3> QED BY <2>1, <2>2, <3>1, QuietStep
  <2> QED BY <1>6, <2>3, <2>4 DEF PollTracking, words
<1>7. CASE PollPool
  <2>1. Working /\ ~Storing BY <1>7 DEF PollPool, Working, Storing
  <2>2. PICK batch \in SUBSET PublicIps : Hears("pool", batch) BY <1>7 DEF PollPool
  <2>3. /\ told' = told /\ heard' \in [Nases -> Answer]
        /\ \A n \in Nases : heard'[n].secrets = heard[n].secrets
    BY <2>1, <2>2, HearsNoSecrets
  <2>4. cache' = cache /\ Leave BY <1>7 DEF PollPool
  <2> QED BY <2>1, <2>3, <2>4, QuietStep
<1> QED BY <1>1, <1>2, <1>3, <1>4, <1>5, <1>6, <1>7, AskSecretsOK, StoreSecretsOK DEF Next

(* OwnIdentity (mikrotik_secrets_sync.py, app.py:471): a subscriber whose secret *)
(* some sync has stored is always shown with what his own NAS said of him.       *)
THEOREM IdentityStaysOwn == Spec => []OwnIdentity
<1>1. IInv => OwnIdentity
  BY DEF IInv, TakenIsCached, CacheIsTold, OwnIdentity, Identities
<1> QED BY <1>1, InitOK, StepOK, PTL DEF Spec

-----------------------------------------------------------------------------
(* What a NAS has told this run is what the pages show.                          *)

ArpRow  == [nas : Nases, ip : Ips, mac : Macs \cup {Null}, iface : Ifaces, first : Nat, last : Nat]
PoolRow == [nas : Nases, ts : Nat, ip : PublicIps]

RowsTyped ==
  /\ run \in Nat /\ txn \in {"clean", "failed"} /\ settled \subseteq Nases
  /\ arp \subseteq ArpRow /\ pool \subseteq PoolRow

(* The program is through with the NAS, or was not to poll it.                   *)
Reached(n) == n \notin todo /\ (Working => cur # n)

UnaskedSilent == \A n \in todo : heard[n] = Nothing

(* What the NAS the program is at may have said before this step.                *)
SaidSoFar ==
  /\ pc \in {"ask", "version", "tracking"} => heard[cur] = Nothing
  /\ pc = "pool" => /\ heard[cur].pool = {}
                    /\ txn = "clean" /\ heard[cur].total => <<cur, run>> \in stats

(* Each program asks for its own.                                                *)
OfProgram(n) ==
  /\ program # "secrets" => heard[n].secrets = Nothing.secrets
  /\ program # "arp" => heard[n].arp = {}
  /\ program \in {"secrets", "arp"} => heard[n].total = FALSE /\ heard[n].pool = {}

StepOfProgram ==
  /\ pc \in {"version", "tracking", "pool"} => program \in {"tracking", "tracking and pool"}
  /\ pc \in {"bogon", "part of bogon"} => program = "arp"
  /\ pc = "store" => program \in {"secrets", "arp"}

(* A NAS, address and MAC have one row.                                          *)
OneRow ==
  \A r, q \in arp : r.nas = q.nas /\ r.ip = q.ip /\ r.mac = q.mac /\ r.mac # Null => r = q

(* Rows of this run are of NASes the program is through with.                    *)
Dated == \A r \in pool : r.ts <= run /\ (r.ts = run => Reached(r.nas))

(* What the NAS told is in the tables, under that NAS: what others tell later    *)
(* does not change it.                                                           *)
Recorded(n) ==
  /\ \A u \in Users : heard[n].secrets[u] # Null => cache[<<n, u>>] = heard[n].secrets[u]
  /\ \A e \in heard[n].arp :
       \E r \in arp : r.nas = n /\ r.ip = e.ip /\ r.mac = e.mac /\ r.last = run /\ r.iface = e.iface
  /\ heard[n].total => <<n, run>> \in stats
  /\ heard[n].pool # {} =>
       heard[n].pool = {r.ip : r \in {x \in pool : x.nas = n /\ x.ts = run}}

SettledRecorded == \A n \in settled : Reached(n) /\ Recorded(n)

EndsWhenDone == pc = "idle" /\ txn = "clean" => todo = {}

ShowInv ==
  /\ IInv /\ RowsTyped /\ UnaskedSilent /\ SaidSoFar /\ (\A n \in Nases : OfProgram(n))
  /\ StepOfProgram /\ OneRow /\ Dated /\ SettledRecorded /\ EndsWhenDone

-----------------------------------------------------------------------------
(* The upsert of ARP entries.                                                    *)

FreshRow(e) ==
  [nas |-> cur, ip |-> e.ip, mac |-> e.mac, iface |-> e.iface, first |-> run, last |-> run]

Refreshed(r, e) == [r EXCEPT !.last = run, !.iface = e.iface]

LEMMA UpsertRows ==
  ASSUME NEW list \in SUBSET Entry, ~Doubled(list)
  PROVE  \A x : x \in UpsertArp(list) <=>
           \/ x \in arp /\ \A e \in list : ~IsRowOf(x, e)
           \/ \E r \in arp, e \in list : IsRowOf(r, e) /\ x = Refreshed(r, e)
           \/ \E e \in list : (\A r \in arp : ~IsRowOf(r, e)) /\ x = FreshRow(e)
<1> DEFINE seen(r) == {e \in list : IsRowOf(r, e)}
           old == {r \in arp : seen(r) = {}}
           again == {[r EXCEPT !.last = run, !.iface = (CHOOSE e \in seen(r) : TRUE).iface] : r \in arp \ old}
           new == {FreshRow(e) : e \in {x \in list : \A r \in arp : ~IsRowOf(r, x)}}
<1>1. UpsertArp(list) = old \cup again \cup new
  BY DEF UpsertArp, FreshRow
<1>2. ASSUME NEW r \in arp, NEW e \in seen(r) PROVE (CHOOSE x \in seen(r) : TRUE) = e
  <2>1. \A x \in seen(r) : x = e
    BY <1>2 DEF Doubled, IsRowOf
  <2> HIDE DEF seen
  <2> QED BY <1>2, <2>1
<1>3. \A x : x \in again <=> \E r \in arp, e \in list : IsRowOf(r, e) /\ x = Refreshed(r, e)
  <2>1. ASSUME NEW r \in arp \ old PROVE \E e \in seen(r) : (CHOOSE x \in seen(r) : TRUE) = e
    BY <1>2, <2>1
  <2>2. ASSUME NEW r \in arp, NEW e \in list, IsRowOf(r, e)
        PROVE  r \in arp \ old /\ (CHOOSE x \in seen(r) : TRUE) = e
    BY <1>2, <2>2
  <2> QED BY <2>1, <2>2 DEF Refreshed
<1>4. \A x : x \in old <=> x \in arp /\ \A e \in list : ~IsRowOf(x, e)
  OBVIOUS
<1>5. \A x : x \in new <=> \E e \in list : (\A r \in arp : ~IsRowOf(r, e)) /\ x = FreshRow(e)
  OBVIOUS
<1> HIDE DEF old, again, new
<1> QED BY <1>1, <1>3, <1>4, <1>5

LEMMA UpsertKeepsOneRow ==
  ASSUME RowsTyped, OneRow, cur \in Nases, NEW list \in SUBSET Entry, ~Doubled(list)
  PROVE  /\ UpsertArp(list) \subseteq ArpRow
         /\ \A r \in arp : r.nas # cur => r \in UpsertArp(list)
         /\ \A e \in list : \E r \in UpsertArp(list) :
              r.nas = cur /\ r.ip = e.ip /\ r.mac = e.mac /\ r.last = run /\ r.iface = e.iface
         /\ \A r, q \in UpsertArp(list) :
              r.nas = q.nas /\ r.ip = q.ip /\ r.mac = q.mac /\ r.mac # Null => r = q
<1>1. \A x : x \in UpsertArp(list) <=>
        \/ x \in arp /\ \A e \in list : ~IsRowOf(x, e)
        \/ \E r \in arp, e \in list : IsRowOf(r, e) /\ x = Refreshed(r, e)
        \/ \E e \in list : (\A r \in arp : ~IsRowOf(r, e)) /\ x = FreshRow(e)
  BY UpsertRows
<1>2. ASSUME NEW r \in arp, NEW e \in list
      PROVE  /\ r \in ArpRow /\ Refreshed(r, e) \in ArpRow
             /\ Refreshed(r, e).nas = r.nas /\ Refreshed(r, e).ip = r.ip /\ Refreshed(r, e).mac = r.mac
             /\ Refreshed(r, e).last = run /\ Refreshed(r, e).iface = e.iface
  <2>1. r \in ArpRow /\ e \in Entry /\ run \in Nat
    BY DEF RowsTyped
  <2> QED BY <2>1 DEF Refreshed, ArpRow, Entry
<1>3. ASSUME NEW e \in list
      PROVE  /\ FreshRow(e) \in ArpRow
             /\ FreshRow(e).nas = cur /\ FreshRow(e).ip = e.ip /\ FreshRow(e).mac = e.mac
             /\ FreshRow(e).last = run /\ FreshRow(e).iface = e.iface
  <2>1. e \in Entry /\ run \in Nat
    BY DEF RowsTyped
  <2> QED BY <2>1 DEF FreshRow, ArpRow, Entry
<1>4. UpsertArp(list) \subseteq ArpRow
  BY <1>1, <1>2, <1>3 DEF RowsTyped
<1>5. \A r \in arp : r.nas # cur => r \in UpsertArp(list)
  BY <1>1 DEF IsRowOf
<1>6. ASSUME NEW e \in list
      PROVE  \E r \in UpsertArp(list) :
               r.nas = cur /\ r.ip = e.ip /\ r.mac = e.mac /\ r.last = run /\ r.iface = e.iface
  <2>1. CASE \E r \in arp : IsRowOf(r, e)
    <3>1. PICK r \in arp : IsRowOf(r, e)
      BY <2>1
    <3>2. Refreshed(r, e) \in UpsertArp(list)
      BY <1>1, <3>1
    <3> QED BY <1>2, <3>1, <3>2 DEF IsRowOf
  <2>2. CASE \A r \in arp : ~IsRowOf(r, e)
    <3>1. FreshRow(e) \in UpsertArp(list)
      BY <1>1, <2>2
    <3> QED BY <1>3, <3>1
  <2> QED BY <2>1, <2>2
<1>7. ASSUME NEW r \in UpsertArp(list), NEW q \in UpsertArp(list),
             r.nas = q.nas, r.ip = q.ip, r.mac = q.mac, r.mac # Null
      PROVE  r = q
  <2>1. ASSUME NEW x \in UpsertArp(list), x.mac # Null
        PROVE  \/ x \in arp /\ \A e \in list : ~IsRowOf(x, e)
               \/ \E y \in arp, e \in list :
                    /\ IsRowOf(y, e) /\ x = Refreshed(y, e)
                    /\ x.nas = y.nas /\ x.ip = y.ip /\ x.mac = y.mac
               \/ \E e \in list : /\ \A y \in arp : ~IsRowOf(y, e)
                                  /\ x = FreshRow(e) /\ x.nas = cur /\ x.ip = e.ip /\ x.mac = e.mac
    BY <1>1, <1>2, <1>3
  <2>2. \A a, b \in list : a.ip = b.ip /\ a.mac = b.mac /\ a.mac # Null => a = b
    BY DEF Doubled
  <2>3. CASE r \in arp /\ \A e \in list : ~IsRowOf(r, e)
    BY <1>7, <2>1, <2>3 DEF OneRow, IsRowOf
  <2>4. CASE \E y \in arp, e \in list : /\ IsRowOf(y, e) /\ r = Refreshed(y, e)
                                        /\ r.nas = y.nas /\ r.ip = y.ip /\ r.mac = y.mac
    BY <1>7, <2>1, <2>2, <2>4 DEF OneRow, IsRowOf
  <2>5. CASE \E e \in list : /\ \A y \in arp : ~IsRowOf(y, e)
                             /\ r = FreshRow(e) /\ r.nas = cur /\ r.ip = e.ip /\ r.mac = e.mac
    BY <1>7, <2>1, <2>2, <2>5 DEF OneRow, IsRowOf
  <2> QED BY <1>7, <2>1, <2>3, <2>4, <2>5
<1> QED BY <1>4, <1>5, <1>6, <1>7

-----------------------------------------------------------------------------
(* A step at a NAS that leaves alone what the others have told and what of them   *)
(* is stored; if it is through with the NAS, what this one told is stored too.    *)
Onwards ==
  /\ Leave \/ Die \/ \E s \in Steps \ {"idle", "next"} : Goto(s)
  /\ pc' = "idle" => txn' = "failed"

OthersStay(c) ==
  /\ run' = run /\ stats \subseteq stats' /\ pool \subseteq pool'
  /\ \A n \in Nases : n # c => /\ heard'[n] = heard[n]
                               /\ \A u \in Users : cache'[<<n, u>>] = cache[<<n, u>>]
  /\ \A r \in arp : r.nas # c => r \in arp'
  /\ \A r \in pool' : r \in pool \/ (r.nas = c /\ r.ts = run /\ pc' = "next")

LEMMA WorkStep ==
  ASSUME ShowInv, IInv', Working, NEW c \in Nases, c = cur, Onwards, OthersStay(c),
         txn' \in {"clean", "failed"}, arp' \subseteq ArpRow, pool' \subseteq PoolRow,
         OneRow', SaidSoFar', StepOfProgram', OfProgram(c)',
         pc' = "next" /\ txn' = "clean" => Recorded(c)'
  PROVE  ShowInv'
<1>1. c \notin todo /\ c \notin settled
  BY DEF ShowInv, IInv, TypeInv, SettledRecorded, Reached
<1>2. program' = program /\ todo' = todo /\ (Working' => cur' = c)
  BY DEF Onwards, Leave, Die, Goto, Working
<1>3. \A n \in Nases : n # c /\ Reached(n) => Reached(n)'
  BY <1>2 DEF Reached
<1>4. RowsTyped' /\ UnaskedSilent' /\ EndsWhenDone' /\ \A n \in settled' : n = c \/ n \in settled
  <2>1. settled' \subseteq settled \cup {c}
    BY DEF Onwards, Leave, Die, Goto
  <2>2. RowsTyped'
    BY <2>1 DEF ShowInv, RowsTyped, OthersStay
  <2>3. UnaskedSilent'
    BY <1>1, <1>2 DEF ShowInv, IInv, TypeInv, UnaskedSilent, OthersStay
  <2>4. EndsWhenDone'
    BY DEF EndsWhenDone, Onwards
  <2> QED BY <2>1, <2>2, <2>3, <2>4
<1>5. \A n \in Nases : OfProgram(n)'
  <2>1. ASSUME NEW n \in Nases, n # c PROVE OfProgram(n)'
    BY <1>2, <2>1 DEF ShowInv, OfProgram, OthersStay
  <2> QED BY <2>1
<1>6. Dated'
  <2>1. ASSUME NEW r \in pool' PROVE r.ts <= run' /\ (r.ts = run' => Reached(r.nas)')
    <3>1. CASE r \in pool
      <4>1. r.ts <= run /\ (r.ts = run => Reached(r.nas)) /\ r.nas \in Nases
        BY <3>1 DEF ShowInv, Dated, RowsTyped, PoolRow
      <4>2. Reached(r.nas) => r.nas # c
        BY DEF Reached
      <4> QED BY <1>3, <4>1, <4>2 DEF OthersStay
    <3>2. CASE r.nas = c /\ r.ts = run /\ pc' = "next"
      BY <1>1, <1>2, <3>2 DEF OthersStay, ShowInv, RowsTyped, Reached, Working
    <3> QED BY <2>1, <3>1, <3>2 DEF OthersStay
  <2> QED BY <2>1 DEF Dated
<1>7. ASSUME NEW n \in settled PROVE Reached(n)' /\ Recorded(n)'
  <2>1. n \in Nases /\ n # c /\ Reached(n) /\ Recorded(n)
    BY <1>1 DEF ShowInv, RowsTyped, SettledRecorded
  <2>2. heard'[n] = heard[n] /\ run' = run
    BY <2>1 DEF OthersStay
  <2>3. \A u \in Users : heard'[n].secrets[u] # Null => cache'[<<n, u>>] = heard'[n].secrets[u]
    BY <2>1, <2>2 DEF OthersStay, Recorded
  <2>4. \A e \in heard'[n].arp :
          \E r \in arp' : r.nas = n /\ r.ip = e.ip /\ r.mac = e.mac /\ r.last = run' /\ r.iface = e.iface
    BY <2>1, <2>2 DEF OthersStay, Recorded
  <2>5. heard'[n].total => <<n, run'>> \in stats'
    BY <2>1, <2>2 DEF OthersStay, Recorded
  <2>6. {x \in pool' : x.nas = n /\ x.ts = run'} = {x \in pool : x.nas = n /\ x.ts = run}
    BY <2>1, <2>2 DEF OthersStay
  <2>7. heard'[n].pool # {} => heard'[n].pool = {r.ip : r \in {x \in pool' : x.nas = n /\ x.ts = run'}}
    BY <2>1, <2>2, <2>6 DEF Recorded
  <2> QED BY <1>3, <2>1, <2>3, <2>4, <2>5, <2>7 DEF Recorded
<1>8. ASSUME c \in settled' PROVE Reached(c)' /\ Recorded(c)'
  <2>1. pc' = "next" /\ txn' = "clean"
    BY <1>1, <1>8 DEF Onwards, Leave, Die, Goto
  <2> QED BY <1>1, <1>2, <2>1 DEF Reached, Working
<1>9. SettledRecorded'
  BY <1>4, <1>7, <1>8 DEF SettledRecorded
<1> QED BY <1>4, <1>5, <1>6, <1>9 DEF ShowInv

(* Who has told nothing is recorded.                                               *)
LEMMA NothingToRecord ==
  ASSUME NEW c, heard[c].secrets = Nothing.secrets, heard[c].arp = {}, heard[c].pool = {}, ~heard[c].total
  PROVE  Recorded(c)
BY DEF Recorded, Nothing

LEMMA NothingIs ==
  /\ Nothing \in Answer /\ Nothing.arp = {} /\ Nothing.pool = {} /\ Nothing.total = FALSE
  /\ \A u \in Users : Nothing.secrets[u] = Null
BY DEF Nothing, Answer

(* The program goes on and neither hears nor stores what the pages show.            *)
LEMMA QuietWork ==
  ASSUME ShowInv, IInv', Working, UNCHANGED <<cache, arp, stats, pool, heard>>, Onwards,
         txn' \in {"clean", "failed"}, SaidSoFar', StepOfProgram',
         pc' = "next" /\ txn' = "clean" => Recorded(cur)
  PROVE  ShowInv'
<1>1. PICK c \in Nases : c = cur
  BY DEF ShowInv, IInv, TypeInv
<1>2. run' = run /\ program' = program
  BY DEF Onwards, Leave, Die, Goto
<1>3. OthersStay(c) /\ arp' \subseteq ArpRow /\ pool' \subseteq PoolRow /\ OneRow'
  BY <1>2 DEF OthersStay, ShowInv, RowsTyped, OneRow
<1>4. OfProgram(c)'
  BY <1>2 DEF ShowInv, OfProgram
<1>5. pc' = "next" /\ txn' = "clean" => Recorded(c)'
  BY <1>1, <1>2 DEF Recorded
<1> QED BY <1>1, <1>3, <1>4, <1>5, WorkStep

LEMMA FailsOrCommits ==
  /\ StatementFails => txn' = "failed"
  /\ Commits => txn = "clean" /\ txn' \in {txn, "failed"}
BY DEF StatementFails, Commits

LEMMA QuietActions ==
  ASSUME ShowInv, IInv', RouterFails \/ Connect \/ DetectVersion \/ ReadFails \/ StoreBogon
  PROVE  ShowInv'
<1>1. Working /\ cur \in Nases
  <2>1. Working
    BY DEF RouterFails, Connect, DetectVersion, ReadFails, StoreBogon, Working
  <2> QED BY <2>1 DEF ShowInv, IInv, TypeInv
<1>2. UNCHANGED <<cache, arp, stats, pool, heard>>
  BY DEF RouterFails, Connect, DetectVersion, ReadFails, StoreBogon, tables, words
<1>3. txn' \in {txn, "failed"} /\ txn' \in {"clean", "failed"}
  BY FailsOrCommits
  DEF RouterFails, Connect, DetectVersion, ReadFails, StoreBogon, ShowInv, RowsTyped
<1>4. /\ pc' # "idle" /\ (pc' # "next" => cur' = cur)
      /\ pc' \in {"next", "version", "tracking", "store"} /\ program' = program
      /\ pc' \in {"version", "tracking"} => pc \in {"ask", "version"} /\ program \in {"tracking", "tracking and pool"}
      /\ pc' = "store" => program = "arp"
      /\ pc' = "next" => \/ pc = "ask"
                         \/ pc = "tracking"
                         \/ pc = "pool" /\ txn' = txn
                         \/ program = "arp" /\ heard[cur].arp = {}
  BY DEF RouterFails, Connect, DetectVersion, ReadFails, StoreBogon, Leave, Goto, ShowInv, StepOfProgram
<1>5. Onwards
  <2>1. Leave \/ \E s \in Steps \ {"idle", "next"} : Goto(s)
    BY DEF RouterFails, Connect, DetectVersion, ReadFails, StoreBogon, Steps
  <2> QED BY <1>4, <2>1 DEF Onwards
<1>6. SaidSoFar' /\ StepOfProgram'
  BY <1>2, <1>4 DEF SaidSoFar, StepOfProgram, ShowInv
<1>7. ASSUME pc' = "next", txn' = "clean" PROVE Recorded(cur)
  <2>1. CASE pc \in {"ask", "tracking"}
    <3>1. heard[cur] = Nothing
      BY <2>1 DEF ShowInv, SaidSoFar
    <3> QED BY <3>1, NothingIs, NothingToRecord
  <2>2. CASE pc = "pool"
    <3>1. /\ heard[cur].secrets = Nothing.secrets /\ heard[cur].arp = {} /\ heard[cur].pool = {}
          /\ heard[cur].total => <<cur, run>> \in stats
      BY <1>1, <1>3, <1>4, <1>7, <2>2 DEF ShowInv, SaidSoFar, OfProgram, StepOfProgram
    <3> QED BY <3>1, NothingIs DEF Recorded
  <2>3. CASE program = "arp" /\ heard[cur].arp = {}
    <3>1. heard[cur].secrets = Nothing.secrets /\ heard[cur].pool = {} /\ ~heard[cur].total
      BY <1>1, <2>3 DEF ShowInv, OfProgram
    <3> QED BY <2>3, <3>1, NothingToRecord
  <2> QED BY <1>4, <1>7, <2>1, <2>2, <2>3
<1> QED BY <1>1, <1>2, <1>3, <1>5, <1>6, <1>7, QuietWork

(* What a NAS says becomes known, and nothing else of any NAS.                       *)
LEMMA HearsOne ==
  ASSUME TypeInv, Working, NEW c \in Nases, c = cur,
         NEW what \in {"secrets", "arp", "total", "pool"}, NEW news, Hears(what, news)
  PROVE  /\ \A n \in Nases : n # c => heard'[n] = heard[n]
         /\ heard'[c][what] = news
         /\ what # "secrets" => heard'[c].secrets = heard[c].secrets
         /\ what # "arp" => heard'[c].arp = heard[c].arp
         /\ what # "total" => heard'[c].total = heard[c].total
         /\ what # "pool" => heard'[c].pool = heard[c].pool
<1>1. heard \in [Nases -> Answer] /\ heard[c] \in Answer
  BY DEF TypeInv
<1>2. heard' = [heard EXCEPT ![c] = [heard[c] EXCEPT ![what] = news]]
  BY DEF Hears
<1>3. heard'[c] = [heard[c] EXCEPT ![what] = news] /\ \A n \in Nases : n # c => heard'[n] = heard[n]
  BY <1>1, <1>2
<1>4. DOMAIN heard[c] = {"secrets", "arp", "total", "pool"}
  BY <1>1 DEF Answer
<1>5. \A f \in DOMAIN heard[c] : heard'[c][f] = IF f = what THEN news ELSE heard[c][f]
  BY <1>3, <1>4
<1> QED BY <1>3, <1>4, <1>5

(* The secrets: listed, and stored.                                                   *)
LEMMA SecretActions ==
  ASSUME ShowInv, IInv', AskSecrets \/ StoreSecrets
  PROVE  ShowInv'
<1>1. Working /\ program = "secrets"
  BY DEF AskSecrets, StoreSecrets, Working
<1>2. PICK c \in Nases : c = cur
  BY <1>1 DEF ShowInv, IInv, TypeInv
<1>3. heard[c].arp = {} /\ heard[c].pool = {} /\ heard[c].total = FALSE
  BY <1>1 DEF ShowInv, OfProgram
<1>4. CASE AskSecrets
  <2>1. PICK list \in [Users -> Persons \cup {Null}] :
          /\ Hears("secrets", list) /\ UNCHANGED <<tables, txn, faults>>
          /\ IF \A u \in Users : list[u] = Null THEN Leave ELSE Goto("store")
    BY <1>4 DEF AskSecrets
  <2>2. /\ \A n \in Nases : n # c => heard'[n] = heard[n]
        /\ heard'[c].secrets = list /\ heard'[c].arp = {} /\ heard'[c].pool = {} /\ heard'[c].total = FALSE
    BY <1>1, <1>2, <1>3, <2>1, HearsOne DEF ShowInv, IInv
  <2>3. /\ run' = run /\ program' = "secrets" /\ pc' \in {"next", "store"}
        /\ UNCHANGED <<cache, arp, stats, pool, txn>>
    BY <1>1, <2>1 DEF Leave, Goto, tables
  <2>4. Onwards
    BY <2>1, <2>3 DEF Onwards, Steps
  <2>5. OthersStay(c) /\ OfProgram(c)' /\ SaidSoFar' /\ StepOfProgram' /\ OneRow'
    BY <2>2, <2>3 DEF OthersStay, OfProgram, SaidSoFar, StepOfProgram, OneRow, ShowInv
  <2>6. pc' = "next" => Recorded(c)'
    <3>1. pc' = "next" => \A u \in Users : list[u] = Null
      BY <2>1 DEF Goto
    <3> QED BY <2>2, <3>1 DEF Recorded
  <2>7. txn' \in {"clean", "failed"} /\ arp' \subseteq ArpRow /\ pool' \subseteq PoolRow
    BY <2>3 DEF ShowInv, RowsTyped
  <2> QED BY <1>1, <1>2, <2>4, <2>5, <2>6, <2>7, WorkStep
<1>5. CASE StoreSecrets
  <2>1. /\ UNCHANGED <<arp, stats, pool, heard>>
        /\ IF txn' = "clean" THEN Leave ELSE Die
    BY <1>5 DEF StoreSecrets, words
  <2>2. /\ run' = run /\ program' = "secrets" /\ pc' \in {"next", "idle"}
        /\ pc' = "idle" => txn' # "clean"
    BY <1>1, <2>1 DEF Leave, Die
  <2>3. txn' \in {"clean", "failed"}
    BY <1>5, FailsOrCommits DEF StoreSecrets, ShowInv, RowsTyped
  <2>4. cache' \in {cache, UpsertSecrets(heard[c].secrets)}
        /\ (txn' = "clean" => cache' = UpsertSecrets(heard[c].secrets))
    BY <1>2, <1>5, FailsOrCommits DEF StoreSecrets
  <2>5. \A n \in Nases, u \in Users :
          UpsertSecrets(heard[c].secrets)[<<n, u>>]
          = IF n = c /\ heard[c].secrets[u] # Null THEN heard[c].secrets[u] ELSE cache[<<n, u>>]
    BY <1>2 DEF UpsertSecrets
  <2>6. Onwards
    BY <2>1, <2>2, <2>3 DEF Onwards
  <2>7. OthersStay(c) /\ OfProgram(c)' /\ SaidSoFar' /\ StepOfProgram' /\ OneRow'
    BY <1>3, <2>1, <2>2, <2>4, <2>5
    DEF OthersStay, OfProgram, SaidSoFar, StepOfProgram, OneRow, ShowInv
  <2>8. txn' = "clean" => Recorded(c)'
    BY <1>3, <2>1, <2>4, <2>5 DEF Recorded
  <2>9. arp' \subseteq ArpRow /\ pool' \subseteq PoolRow
    BY <2>1 DEF ShowInv, RowsTyped
  <2> QED BY <1>1, <1>2, <2>3, <2>6, <2>7, <2>8, <2>9, WorkStep
<1> QED BY <1>4, <1>5

(* The ARP entries: listed, and stored.                                               *)
LEMMA ArpActions ==
  ASSUME ShowInv, IInv', AskArp \/ StoreArp
  PROVE  ShowInv'
<1>1. Working /\ program = "arp"
  BY DEF AskArp, StoreArp, Working
<1>2. PICK c \in Nases : c = cur
  BY <1>1 DEF ShowInv, IInv, TypeInv
<1>3. heard[c].secrets = Nothing.secrets /\ heard[c].pool = {} /\ heard[c].total = FALSE
  BY <1>1 DEF ShowInv, OfProgram
<1>4. CASE AskArp
  <2>1. PICK list \in ArpLists : Hears("arp", {e \in list : Static(e)})
    BY <1>4 DEF AskArp
  <2>2. /\ \A n \in Nases : n # c => heard'[n] = heard[n]
        /\ heard'[c].secrets = Nothing.secrets /\ heard'[c].pool = {} /\ heard'[c].total = FALSE
    BY <1>1, <1>2, <1>3, <2>1, HearsOne DEF ShowInv, IInv
  <2>3. /\ run' = run /\ program' = "arp" /\ pc' \in {"bogon", "part of bogon"}
        /\ UNCHANGED <<cache, arp, stats, pool, txn>>
    BY <1>1, <1>4 DEF AskArp, Goto, tables
  <2>4. Onwards
    BY <1>4, <2>3 DEF AskArp, Onwards, Steps
  <2>5. OthersStay(c) /\ OfProgram(c)' /\ SaidSoFar' /\ StepOfProgram' /\ OneRow'
    BY <2>2, <2>3 DEF OthersStay, OfProgram, SaidSoFar, StepOfProgram, OneRow, ShowInv
  <2>6. txn' \in {"clean", "failed"} /\ arp' \subseteq ArpRow /\ pool' \subseteq PoolRow
    BY <2>3 DEF ShowInv, RowsTyped
  <2> QED BY <1>1, <1>2, <2>3, <2>4, <2>5, <2>6, WorkStep
<1>5. CASE StoreArp
  <2>1. /\ UNCHANGED <<cache, stats, pool, heard>>
        /\ IF txn' = "clean" THEN Leave ELSE Die
    BY <1>5 DEF StoreArp, words
  <2>2. /\ run' = run /\ program' = "arp" /\ pc' \in {"next", "idle"}
        /\ pc' = "idle" => txn' # "clean"
    BY <1>1, <2>1 DEF Leave, Die
  <2>3. txn' \in {"clean", "failed"}
    BY <1>5, FailsOrCommits DEF StoreArp, ShowInv, RowsTyped
  <2>4. \/ arp' = arp /\ txn' # "clean"
        \/ ~Doubled(heard[c].arp) /\ arp' = UpsertArp(heard[c].arp)
    BY <1>2, <1>5, FailsOrCommits DEF StoreArp
  <2>5. heard[c].arp \in SUBSET Entry
    BY DEF ShowInv, IInv, TypeInv, Answer
  <2>6. ~Doubled(heard[c].arp) =>
          /\ UpsertArp(heard[c].arp) \subseteq ArpRow
          /\ \A r \in arp : r.nas # c => r \in UpsertArp(heard[c].arp)
          /\ \A e \in heard[c].arp : \E r \in UpsertArp(heard[c].arp) :
               r.nas = c /\ r.ip = e.ip /\ r.mac = e.mac /\ r.last = run /\ r.iface = e.iface
          /\ \A r, q \in UpsertArp(heard[c].arp) :
               r.nas = q.nas /\ r.ip = q.ip /\ r.mac = q.mac /\ r.mac # Null => r = q
    BY <1>2, <2>5, UpsertKeepsOneRow DEF ShowInv
  <2>7. arp' \subseteq ArpRow /\ OneRow' /\ \A r \in arp : r.nas # c => r \in arp'
    BY <2>4, <2>6 DEF OneRow, ShowInv, RowsTyped
  <2>8. Onwards
    BY <2>1, <2>2, <2>3 DEF Onwards
  <2>9. OthersStay(c) /\ OfProgram(c)' /\ SaidSoFar' /\ StepOfProgram'
    BY <1>3, <2>1, <2>2, <2>7 DEF OthersStay, OfProgram, SaidSoFar, StepOfProgram
  <2>10. txn' = "clean" => Recorded(c)'
    BY <1>3, <2>1, <2>2, <2>4, <2>6, NothingIs DEF Recorded
  <2>11. pool' \subseteq PoolRow
    BY <2>1 DEF ShowInv, RowsTyped
  <2> QED BY <1>1, <1>2, <2>3, <2>7, <2>8, <2>9, <2>10, <2>11, WorkStep
<1> QED BY <1>4, <1>5

(* The connections and the addresses of the pool: asked for and stored at once.       *)
LEMMA TrackingActions ==
  ASSUME ShowInv, IInv', PollTracking \/ PollPool
  PROVE  ShowInv'
<1>1. Working /\ program \in {"tracking", "tracking and pool"}
  BY DEF PollTracking, PollPool, Working, ShowInv, StepOfProgram
<1>2. PICK c \in Nases : c = cur
  BY <1>1 DEF ShowInv, IInv, TypeInv
<1>3. heard[c].secrets = Nothing.secrets /\ heard[c].arp = {} /\ heard[c].pool = {}
  <2>1. heard[c].pool = {}
    BY <1>2, NothingIs DEF PollTracking, PollPool, ShowInv, SaidSoFar
  <2> QED BY <1>1, <2>1 DEF ShowInv, OfProgram
<1>4. /\ Leave \/ Goto("pool")
      /\ run' = run /\ program' = program /\ pc' \in {"next", "pool"} /\ (pc' = "pool" => cur' = c)
      /\ UNCHANGED <<cache, arp>>
  BY <1>2 DEF PollTracking, PollPool, PoolOrLeave, Leave, Goto
<1>5. txn' \in {"clean", "failed"} /\ (txn' = "clean" => txn = "clean")
  BY FailsOrCommits DEF PollTracking, PollPool, ShowInv, RowsTyped
<1>6. Onwards /\ OneRow' /\ StepOfProgram' /\ arp' \subseteq ArpRow
  BY <1>1, <1>4 DEF Onwards, Steps, OneRow, StepOfProgram, ShowInv, RowsTyped
<1>7. CASE PollTracking
  <2>1. /\ \A n \in Nases : n # c => heard'[n] = heard[n]
        /\ heard'[c].secrets = Nothing.secrets /\ heard'[c].arp = {} /\ heard'[c].pool = {}
        /\ txn' = "clean" /\ heard'[c].total => <<c, run>> \in stats'
        /\ pool' = pool /\ stats \subseteq stats'
    <3>1. CASE UNCHANGED <<stats, txn, faults, words>>
      <4>1. heard[c].total = FALSE
        BY <1>2, <1>7, NothingIs DEF PollTracking, ShowInv, SaidSoFar
      <4> QED BY <1>3, <1>7, <3>1, <4>1 DEF PollTracking, words
    <3>2. CASE /\ Hears("total", TRUE)
               /\ \/ Commits /\ stats' = stats \cup {<<cur, run>>}
                  \/ StatementFails /\ UNCHANGED stats
      BY <1>1, <1>2, <1>3, <1>7, <3>2, HearsOne, FailsOrCommits DEF PollTracking, ShowInv, IInv
    <3> QED BY <1>7, <3>1, <3>2 DEF PollTracking
  <2>2. OthersStay(c) /\ OfProgram(c)' /\ SaidSoFar'
    BY <1>1, <1>4, <2>1 DEF OthersStay, OfProgram, SaidSoFar
  <2>3. txn' = "clean" => Recorded(c)'
    BY <1>4, <2>1, NothingIs DEF Recorded
  <2>4. pool' \subseteq PoolRow
    BY <2>1 DEF ShowInv, RowsTyped
  <2> QED BY <1>1, <1>2, <1>5, <1>6, <2>2, <2>3, <2>4, WorkStep
<1>8. CASE PollPool
  <2> DEFINE given(batch) == {[nas |-> c, ts |-> run, ip |-> i] : i \in batch}
  <2>1. PICK batch \in SUBSET PublicIps :
          /\ Hears("pool", batch)
          /\ \/ batch = {} /\ UNCHANGED <<pool, txn, faults>>
             \/ batch # {} /\ Commits /\ pool' = pool \cup given(batch)
             \/ batch # {} /\ StatementFails /\ UNCHANGED pool
    BY <1>2, <1>8 DEF PollPool
  <2>2. /\ \A n \in Nases : n # c => heard'[n] = heard[n]
        /\ heard'[c].secrets = Nothing.secrets /\ heard'[c].arp = {} /\ heard'[c].pool = batch
        /\ heard'[c].total = heard[c].total
    BY <1>1, <1>2, <1>3, <2>1, HearsOne DEF ShowInv, IInv
  <2>3. stats' = stats /\ pc' = "next"
    BY <1>8 DEF PollPool, Leave
  <2>4. \/ pool' = pool /\ (txn' = "clean" => batch = {})
        \/ pool' = pool \cup given(batch)
    BY <2>1, FailsOrCommits
  <2>5. \A r \in given(batch) : r \in PoolRow /\ r.nas = c /\ r.ts = run
    BY DEF PoolRow, ShowInv, RowsTyped
  <2>6. \A r \in pool : r.ts = run => r.nas # c
    BY <1>1, <1>2 DEF ShowInv, Dated, Reached
  <2>7. pool' \subseteq PoolRow
    <3> HIDE DEF given
    <3> QED BY <2>4, <2>5 DEF ShowInv, RowsTyped
  <2>8. OthersStay(c)
    <3> HIDE DEF given
    <3> QED BY <1>4, <2>2, <2>3, <2>4, <2>5 DEF OthersStay
  <2>9. OfProgram(c)' /\ SaidSoFar'
    BY <1>1, <1>4, <2>2, <2>3 DEF OfProgram, SaidSoFar
  <2>10. ASSUME txn' = "clean" PROVE Recorded(c)'
    <3>1. heard'[c].total => <<c, run'>> \in stats'
      BY <1>2, <1>4, <1>5, <1>8, <2>2, <2>3, <2>10 DEF PollPool, ShowInv, SaidSoFar
    <3>2. ASSUME batch # {}
          PROVE  batch = {r.ip : r \in {x \in pool' : x.nas = c /\ x.ts = run'}}
      <4>1. pool' = pool \cup given(batch)
        BY <2>4, <2>10, <3>2
      <4>2. {x \in pool' : x.nas = c /\ x.ts = run'} = given(batch)
        <5> HIDE DEF given
        <5> QED BY <1>4, <2>5, <2>6, <4>1
      <4>3. {r.ip : r \in given(batch)} = batch
        <5>1. \A i \in batch : [nas |-> c, ts |-> run, ip |-> i].ip = i
          OBVIOUS
        <5> QED BY <5>1, Zenon
      <4> HIDE DEF given
      <4> QED BY <4>2, <4>3, Zenon
    <3> QED BY <2>2, <3>1, <3>2, NothingIs DEF Recorded
  <2> QED BY <1>1, <1>2, <1>5, <1>6, <2>7, <2>8, <2>9, <2>10, WorkStep
<1> QED BY <1>7, <1>8

(* Between two NASes, and at the beginning and the end of a run.                      *)
LEMMA BetweenNases ==
  ASSUME ShowInv, IInv', (\E p \in Programs : Start(p)) \/ (\E n \in Nases : NextNas(n)) \/ End \/ Kill
  PROVE  ShowInv'
<1>1. ASSUME NEW p \in Programs, Start(p) PROVE ShowInv'
  <2>1. /\ run' = run + 1 /\ pc' = "next" /\ txn' = "clean" /\ settled' = {} /\ program' = p
        /\ heard' = [n \in Nases |-> Nothing] /\ UNCHANGED <<arp, pool>> /\ todo' \subseteq Nases
    BY <1>1 DEF Start, tables
  <2>2. \A n \in Nases : heard'[n] = Nothing
    BY <2>1
  <2>3. RowsTyped' /\ SettledRecorded'
    BY <2>1 DEF RowsTyped, SettledRecorded, ShowInv
  <2>4. UnaskedSilent'
    <3>1. \A n \in todo' : n \in Nases
      BY <2>1
    <3> QED BY <2>2, <3>1 DEF UnaskedSilent
  <2>5. SaidSoFar' /\ StepOfProgram' /\ OneRow' /\ EndsWhenDone'
    BY <2>1 DEF SaidSoFar, StepOfProgram, OneRow, EndsWhenDone, ShowInv
  <2>6. \A n \in Nases : OfProgram(n)'
    BY <2>2, NothingIs DEF OfProgram
  <2>7. Dated'
    <3> SUFFICES ASSUME NEW r \in pool PROVE r.ts <= run' /\ r.ts # run'
      BY <2>1 DEF Dated
    <3>1. r.ts \in Nat /\ r.ts <= run /\ run \in Nat
      BY DEF ShowInv, Dated, RowsTyped, PoolRow
    <3> QED BY <2>1, <3>1
  <2> QED BY <2>3, <2>6, <2>7, <2>4, <2>5 DEF ShowInv
<1>2. ASSUME NEW n \in Nases, NextNas(n) PROVE ShowInv'
  <2>1. /\ pc = "next" /\ n \in todo /\ cur' = n /\ todo' = todo \ {n} /\ pc' = "ask"
        /\ UNCHANGED <<cache, arp, stats, pool, heard, program, txn, run, settled>>
    BY <1>2 DEF NextNas, tables, ghosts, words
  <2>2. \A m : Reached(m) => Reached(m)'
    BY <2>1 DEF Reached, Working
  <2>3. RowsTyped' /\ UnaskedSilent' /\ SaidSoFar' /\ StepOfProgram' /\ OneRow' /\ EndsWhenDone'
    BY <2>1 DEF RowsTyped, UnaskedSilent, SaidSoFar, StepOfProgram, OneRow, EndsWhenDone, ShowInv
  <2>4. \A m \in Nases : OfProgram(m)'
    BY <2>1 DEF OfProgram, ShowInv
  <2>5. Dated' /\ SettledRecorded'
    BY <2>1, <2>2 DEF Dated, SettledRecorded, Recorded, ShowInv
  <2> QED BY <2>3, <2>4, <2>5 DEF ShowInv
<1>3. ASSUME End \/ Kill PROVE ShowInv'
  <2>1. /\ pc' = "idle" /\ txn' \in {txn, "failed"} /\ (txn' = "clean" => todo' = {})
        /\ UNCHANGED <<cache, arp, stats, pool, heard, program, todo, run, settled>>
    BY <1>3 DEF End, Kill, Die, tables, ghosts, words
  <2>2. \A m : Reached(m) => Reached(m)'
    BY <2>1 DEF Reached, Working
  <2>3. RowsTyped' /\ UnaskedSilent' /\ SaidSoFar' /\ StepOfProgram' /\ OneRow' /\ EndsWhenDone'
    BY <2>1 DEF RowsTyped, UnaskedSilent, SaidSoFar, StepOfProgram, OneRow, EndsWhenDone, ShowInv
  <2>4. \A m \in Nases : OfProgram(m)'
    BY <2>1 DEF OfProgram, ShowInv
  <2>5. Dated' /\ SettledRecorded'
    BY <2>1, <2>2 DEF Dated, SettledRecorded, Recorded, ShowInv
  <2> QED BY <2>3, <2>4, <2>5 DEF ShowInv
<1> QED BY <1>1, <1>2, <1>3

LEMMA ShowInvInvariance == Spec => []ShowInv
<1>1. Init => ShowInv
  <2> SUFFICES ASSUME Init PROVE ShowInv
    OBVIOUS
  <2>1. \A n \in Nases : heard[n] = Nothing
    BY DEF Init
  <2>2. \A n \in Nases : OfProgram(n)
    BY <2>1, NothingIs DEF OfProgram
  <2>3. RowsTyped /\ UnaskedSilent /\ SaidSoFar /\ StepOfProgram /\ OneRow /\ Dated /\ SettledRecorded
        /\ EndsWhenDone
    BY DEF Init, RowsTyped, UnaskedSilent, SaidSoFar, StepOfProgram, OneRow, Dated, SettledRecorded,
           EndsWhenDone
  <2> QED BY <2>2, <2>3, InitOK DEF ShowInv
<1>2. ShowInv /\ [Next]_vars => ShowInv'
  <2> SUFFICES ASSUME ShowInv, [Next]_vars PROVE ShowInv'
    OBVIOUS
  <2>1. IInv'
    BY StepOK DEF ShowInv
  <2>2. CASE UNCHANGED vars
    <3>1. UNCHANGED <<cache, arp, stats, pool, heard, program, pc, cur, txn, todo, run, settled>>
      BY <2>2 DEF vars, tables, control, ghosts, words
    <3>2. RowsTyped' /\ UnaskedSilent' /\ SaidSoFar' /\ StepOfProgram' /\ OneRow' /\ EndsWhenDone'
      BY <3>1 DEF RowsTyped, UnaskedSilent, SaidSoFar, StepOfProgram, OneRow, EndsWhenDone, ShowInv
    <3>3. \A n \in Nases : OfProgram(n)'
      BY <3>1 DEF OfProgram, ShowInv
    <3>4. \A n : Reached(n) => Reached(n)'
      BY <3>1 DEF Reached, Working
    <3>5. Dated' /\ SettledRecorded'
      BY <3>1, <3>4 DEF Dated, SettledRecorded, Recorded, ShowInv
    <3> QED BY <2>1, <3>2, <3>3, <3>5 DEF ShowInv
  <2>3. CASE Next
    BY <2>1, <2>3, QuietActions, SecretActions, ArpActions, TrackingActions, BetweenNases DEF Next
  <2> QED BY <2>2, <2>3
<1> QED BY <1>1, <1>2, PTL DEF Spec

(* What is recorded is shown: the pages take the NAS's own secret, the one row of an  *)
(* ARP entry, and the newest snapshot of the pool.                                    *)
LEMMA RecordedIsShown ==
  ASSUME ShowInv, NEW n \in Nases, Recorded(n)
  PROVE  Shown(n)
<1>1. \A u \in Users : heard[n].secrets[u] # Null => Identities(n, u) = {heard[n].secrets[u]}
  BY DEF Recorded, Identities
<1>2. ASSUME ArpFits(n), NEW e \in heard[n].arp, NEW held, held = {r \in StaticArp(n) : r.ip = e.ip /\ r.mac = e.mac}
      PROVE  /\ \E r \in held : r.last = run /\ r.iface = e.iface
             /\ e.mac # Null => Cardinality(held) = 1
  <2>1. PICK r \in arp : r.nas = n /\ r.ip = e.ip /\ r.mac = e.mac /\ r.last = run /\ r.iface = e.iface
    BY DEF Recorded
  <2>2. r \in held
    BY <1>2, <2>1 DEF StaticArp, ArpFits
  <2>3. e.mac # Null => held = {r}
    BY <1>2, <2>1, <2>2 DEF StaticArp, ArpFits, ShowInv, OneRow
  <2> QED BY <2>1, <2>2, <2>3, FS_Singleton
<1>3. heard[n].pool # {} => PoolShown(n) = heard[n].pool
  <2> SUFFICES ASSUME heard[n].pool # {} PROVE PoolShown(n) = heard[n].pool
    OBVIOUS
  <2> DEFINE newest == {x \in pool : x.nas = n /\ x.ts = run}
  <2>1. heard[n].pool = {r.ip : r \in newest}
    BY DEF Recorded
  <2>2. \A x \in pool : x.ts \in Nat /\ x.ts <= run /\ run \in Nat
    BY DEF ShowInv, RowsTyped, PoolRow, Dated
  <2>3. PICK y \in pool : y.nas = n /\ y.ts = run
    BY <2>1
  <2>4. newest = {x \in pool : x.nas = n /\ \A z \in pool : z.nas = n => z.ts <= x.ts}
    BY <2>2, <2>3
  <2> QED BY <2>1, <2>4 DEF PoolShown
<1> QED BY <1>1, <1>2, <1>3 DEF Shown, Recorded

(* As long as no statement fails, each NAS a program is to poll is asked, whatever     *)
(* the others are or say, and what it has told is what the pages show: the upserts and *)
(* the queries of app.py that read them.                                               *)
THEOREM WhatIsToldIsShown == Spec => []ToldIsShown
<1>1. ShowInv => ToldIsShown
  BY RecordedIsShown DEF ToldIsShown, ShowInv, RowsTyped, SettledRecorded, EndsWhenDone
<1> QED BY <1>1, ShowInvInvariance, PTL

-----------------------------------------------------------------------------
(* Partitions, retention and the guard.                                        *)

(* The partitions reach from the day before the first to Ahead days after the *)
(* last maintenance that went through, but for those that have expired.       *)
Covered ==
  ~late => /\ today < ensured + Ahead
           /\ \A d \in First - 1 .. ensured + Ahead : Cutoff <= d => d \in parts

(* A maintenance under way has created the partitions up to the reach'th; it   *)
(* began no earlier than the last one that went through.                       *)
InProgress ==
  /\ ensured <= today /\ day <= today
  /\ phase = "ensure" =>
       /\ ensured <= day /\ reach <= Ahead
       /\ ~late => \A d \in day .. day + reach - 1 : Cutoff <= d => d \in parts

(* What is to be dropped has expired.                                          *)
OnlyExpired == \A d \in expired : d < Cutoff

StorageInv == TypeOK /\ Covered /\ InProgress /\ OnlyExpired /\ NoFallbackUnlessSkewed

LEMMA DayIsInt == Days \subseteq Int
BY StorageAssumption DEF Days

LEMMA TypeInit == StorageInit => TypeOK
<1> SUFFICES ASSUME StorageInit PROVE TypeOK
  OBVIOUS
<1>1. First - 1 .. First + Ahead \subseteq Days
  BY StorageAssumption DEF Days
<1>2. /\ today \in First..Last /\ day \in First..Last /\ reach \in 0..Ahead + 1
      /\ guard \in 0..Batches /\ ensured \in First..Last /\ ran \in First - 1..Last
      /\ logs \in 0..MaxLogs /\ older = 0
  BY StorageAssumption DEF StorageInit
<1>3. /\ parts \subseteq Days /\ inPart = {} /\ inDefault = {}
      /\ expired \subseteq Days /\ skewed \subseteq Days
  BY <1>1 DEF StorageInit
<1>4. phase \in {"idle", "ensure", "list", "drop"} /\ purge \in {"none", "udp", "old"} /\ late \in BOOLEAN /\ missed \in BOOLEAN
  BY Zenon DEF StorageInit
<1> QED
  BY <1>2, <1>3, <1>4 DEF TypeOK

(* Each variable keeps its type.                                                *)
LEMMA TypeStep == TypeOK /\ [StorageNext]_storageVars => TypeOK'
<1> SUFFICES ASSUME TypeOK, [StorageNext]_storageVars PROVE TypeOK'
  OBVIOUS
<1> USE StorageAssumption
<1>1. CASE NextDay
  BY <1>1 DEF TypeOK, NextDay, rows, maint, operator, Days
<1>2. ASSUME NEW r \in Row, Ingest(r) PROVE TypeOK'
  <2>1. r.day \in Days
    BY DEF Row
  <2> QED
    BY <1>2, <2>1 DEF TypeOK, Ingest, rows, maint, operator
<1>3. CASE StartMaintenance
  BY <1>3 DEF TypeOK, StartMaintenance, rows, operator, hist
<1>4. CASE EnsurePartition
  <2>1. day + reach \in Days
    BY <1>4 DEF TypeOK, EnsurePartition, Days
  <2> QED
    <3>1. \A r \in inDefault : r.day # day + reach
      BY <1>4 DEF TypeOK, EnsurePartition, HasFallback, On
    <3> QED
      BY <1>4, <2>1, <3>1 DEF TypeOK, EnsurePartition, operator
<1>5. CASE PartitionRefused
  BY <1>5 DEF TypeOK, PartitionRefused, rows, operator
<1>6. CASE ListExpired
  BY <1>6 DEF TypeOK, ListExpired, rows, operator, hist
<1>7. CASE DropPartition
  BY <1>7 DEF TypeOK, DropPartition, On, operator, hist
<1>8. CASE EndMaintenance
  BY <1>8 DEF TypeOK, EndMaintenance, rows, operator
<1>9. CASE MaintenanceDies
  BY <1>9 DEF TypeOK, MaintenanceDies, rows, operator, hist
<1>10. CASE GuardStarts
  BY <1>10 DEF TypeOK, GuardStarts, rows, maint, operator, hist
<1>11. CASE GuardDeletes
  BY <1>11 DEF TypeOK, GuardDeletes, Remove, maint, operator, hist
<1>12. CASE GuardDeletesNothing
  BY <1>12 DEF TypeOK, GuardDeletesNothing, rows, maint, operator, hist
<1>13. CASE PurgeBatch
  BY <1>13 DEF TypeOK, PurgeBatch, Remove, maint, operator, hist
<1>14. CASE PurgeStarts \/ PurgeEnds
  BY <1>14 DEF TypeOK, PurgeStarts, PurgeEnds, rows, maint, hist
<1>15. CASE PageDeletes
  BY <1>15 DEF TypeOK, PageDeletes, Remove, maint, hist
<1>16. CASE UNCHANGED storageVars
  BY <1>16 DEF TypeOK, storageVars, rows, maint, operator, hist
<1> QED
  BY <1>1, <1>2, <1>3, <1>4, <1>5, <1>6, <1>7, <1>8, <1>9, <1>10, <1>11, <1>12, <1>13, <1>14, <1>15, <1>16
  DEF StorageNext, Maintenance

LEMMA InvInit == StorageInit => StorageInv
<1> SUFFICES ASSUME StorageInit PROVE StorageInv
  OBVIOUS
<1>1. TypeOK
  BY TypeInit
<1>2. Covered /\ InProgress /\ OnlyExpired /\ NoFallbackUnlessSkewed
  BY StorageAssumption DEF StorageInit, Covered, InProgress, OnlyExpired, NoFallbackUnlessSkewed, Cutoff
<1> QED
  BY <1>1, <1>2 DEF StorageInv

(* The reach of the partitions survives every step: midnight moves both ends of *)
(* what is needed, a drop takes only what has expired, and a maintenance that    *)
(* goes through joins its days to those of the one before, unless it came late.  *)
LEMMA CoveredStep == StorageInv /\ [StorageNext]_storageVars => Covered'
<1> SUFFICES ASSUME StorageInv, [StorageNext]_storageVars PROVE Covered'
  OBVIOUS
<1> USE StorageAssumption DEF StorageInv, Covered
<1>1. CASE NextDay
  <2>1. ~late' => ~late /\ ~(today + 1 >= ensured + Ahead)
    BY <1>1, Zenon DEF NextDay
  <2>2. today' = today + 1 /\ parts' = parts /\ ensured' = ensured
    BY <1>1 DEF NextDay, rows
  <2> QED
    BY <2>1, <2>2 DEF TypeOK, Cutoff
<1>2. CASE EnsurePartition
  <2>1. CASE reach + 1 > Ahead
    <3>1. ensured' = day /\ late' = late /\ today' = today /\ parts' = parts \cup {day + reach}
      BY <1>2, <2>1 DEF EnsurePartition
    <3>2. phase = "ensure" /\ reach = Ahead /\ ensured <= day /\ day \in Int /\ ensured \in Int
      BY <1>2, <2>1 DEF TypeOK, InProgress, EnsurePartition
    <3>3. ~late => today < day + Ahead
      BY <3>2 DEF TypeOK
    <3>4. ASSUME ~late, NEW d \in First - 1 .. day + Ahead, Cutoff <= d
          PROVE  d \in parts'
      <4>1. CASE d <= ensured + Ahead
        BY <3>1, <3>2, <3>4, <4>1
      <4>2. CASE d > ensured + Ahead
        <5>1. d \in day .. day + reach - 1 \/ d = day + reach
          BY <3>2, <3>4, <4>2 DEF TypeOK, InProgress
        <5> QED
          BY <3>1, <3>2, <3>4, <5>1 DEF InProgress
      <4> QED
        BY <4>1, <4>2, <3>2
    <3> QED
      BY <3>1, <3>3, <3>4 DEF Cutoff
  <2>2. CASE ~(reach + 1 > Ahead)
    BY <1>2, <2>2 DEF TypeOK, EnsurePartition, Cutoff
  <2> QED
    BY <2>1, <2>2
<1>3. CASE DropPartition
  BY <1>3 DEF TypeOK, DropPartition, hist, OnlyExpired, Cutoff
<1>4. ASSUME UNCHANGED <<today, parts, ensured, late>> PROVE Covered'
  BY <1>4 DEF Cutoff
<1> QED
  BY <1>1, <1>2, <1>3, <1>4
  DEF StorageNext, Maintenance, Ingest, StartMaintenance, PartitionRefused, ListExpired, EndMaintenance,
      MaintenanceDies, GuardStarts, GuardDeletes, GuardDeletesNothing, PurgeStarts, PurgeBatch, PageDeletes,
      PurgeEnds, Remove, storageVars, rows, maint, hist

LEMMA InProgressStep == StorageInv /\ [StorageNext]_storageVars => InProgress'
<1> SUFFICES ASSUME StorageInv, [StorageNext]_storageVars PROVE InProgress'
  OBVIOUS
<1> USE StorageAssumption DEF StorageInv, InProgress
<1>1. CASE NextDay
  BY <1>1 DEF TypeOK, NextDay, rows, maint, Cutoff
<1>2. CASE StartMaintenance
  BY <1>2 DEF TypeOK, StartMaintenance, rows, hist, Cutoff
<1>3. CASE EnsurePartition
  <2>1. CASE reach + 1 > Ahead
    BY <1>3, <2>1 DEF TypeOK, EnsurePartition
  <2>2. CASE ~(reach + 1 > Ahead)
    <3>1. /\ reach' = reach + 1 /\ reach' <= Ahead
          /\ UNCHANGED <<phase, today, day, ensured, late>> /\ phase = "ensure" /\ parts' = parts \cup {day + reach}
      BY <1>3, <2>2 DEF TypeOK, EnsurePartition
    <3>2. ~late => \A d \in day .. day + reach' - 1 : Cutoff <= d => d \in parts'
      <4> SUFFICES ASSUME ~late, NEW d \in day .. day + reach' - 1, Cutoff <= d PROVE d \in parts'
        OBVIOUS
      <4>1. d \in day .. day + reach - 1 \/ d = day + reach
        BY <3>1 DEF TypeOK
      <4> QED
        BY <3>1, <4>1
    <3> QED
      BY <3>1, <3>2 DEF Cutoff
  <2> QED
    BY <2>1, <2>2
<1>4. CASE DropPartition
  BY <1>4 DEF TypeOK, DropPartition, hist
<1>5. CASE PartitionRefused \/ ListExpired \/ EndMaintenance \/ MaintenanceDies
  BY <1>5 DEF TypeOK, PartitionRefused, ListExpired, EndMaintenance, MaintenanceDies, rows, hist
<1>6. ASSUME UNCHANGED <<today, parts, maint, ensured, late>> PROVE InProgress'
  BY <1>6 DEF maint, Cutoff
<1> QED
  BY <1>1, <1>2, <1>3, <1>4, <1>5, <1>6
  DEF StorageNext, Maintenance, Ingest, GuardStarts, GuardDeletes, GuardDeletesNothing, PurgeStarts,
      PurgeBatch, PageDeletes, PurgeEnds, Remove, storageVars, rows, hist

LEMMA OnlyExpiredStep == StorageInv /\ [StorageNext]_storageVars => OnlyExpired'
<1> SUFFICES ASSUME StorageInv, [StorageNext]_storageVars PROVE OnlyExpired'
  OBVIOUS
<1> USE StorageAssumption DEF StorageInv, OnlyExpired, Cutoff
<1>1. CASE NextDay
  BY <1>1, DayIsInt DEF TypeOK, NextDay, maint
<1>2. CASE ListExpired
  BY <1>2 DEF ListExpired
<1>3. CASE DropPartition
  BY <1>3 DEF DropPartition
<1>4. CASE MaintenanceDies
  BY <1>4 DEF MaintenanceDies
<1>5. ASSUME UNCHANGED <<today, expired>> PROVE OnlyExpired'
  BY <1>5
<1> QED
  BY <1>1, <1>2, <1>3, <1>4, <1>5
  DEF StorageNext, Maintenance, Ingest, StartMaintenance, EnsurePartition, PartitionRefused, EndMaintenance,
      GuardStarts, GuardDeletes, GuardDeletesNothing, PurgeStarts, PurgeBatch, PageDeletes, PurgeEnds,
      storageVars, maint

LEMMA NoFallbackStep == StorageInv /\ [StorageNext]_storageVars => NoFallbackUnlessSkewed'
<1> SUFFICES ASSUME StorageInv, [StorageNext]_storageVars, skewed' = {}, ~late' PROVE inDefault' = {}
  BY DEF NoFallbackUnlessSkewed
<1> USE StorageAssumption DEF StorageInv, NoFallbackUnlessSkewed
<1>1. ASSUME NEW r \in Row, Ingest(r) PROVE inDefault' = {}
  <2> DEFINE d == r.day
  <2>1. d \in today - 1 .. today + 1 /\ ~late /\ skewed = {}
    BY <1>1 DEF Ingest
  <2>2. d \in First - 1 .. ensured + Ahead /\ Cutoff <= d
    BY <2>1 DEF TypeOK, Covered, Cutoff
  <2> QED
    BY <1>1, <2>1, <2>2 DEF Covered, Ingest
<1>2. CASE NextDay
  BY <1>2 DEF NextDay, rows
<1>3. CASE Maintenance
  BY <1>3 DEF Maintenance, StartMaintenance, EnsurePartition, PartitionRefused, ListExpired,
              DropPartition, EndMaintenance, MaintenanceDies, rows, hist
<1>4. CASE \/ GuardStarts \/ GuardDeletes \/ GuardDeletesNothing
           \/ PurgeStarts \/ PurgeBatch \/ PageDeletes \/ PurgeEnds
  BY <1>4 DEF GuardStarts, GuardDeletes, GuardDeletesNothing, PurgeStarts, PurgeBatch, PageDeletes, PurgeEnds,
              Remove, rows, hist
<1>5. CASE UNCHANGED storageVars
  BY <1>5 DEF storageVars, rows, hist
<1> QED
  BY <1>1, <1>2, <1>3, <1>4, <1>5 DEF StorageNext

LEMMA StorageInvariance == StorageSpec => []StorageInv
<1>1. StorageInit => StorageInv
  BY InvInit
<1>2. StorageInv /\ [StorageNext]_storageVars => StorageInv'
  BY TypeStep, CoveredStep, InProgressStep, OnlyExpiredStep, NoFallbackStep DEF StorageInv
<1> QED
  BY <1>1, <1>2, PTL DEF StorageSpec

(* Every variable keeps its type: in particular no day has both a partition and *)
(* rows in DEFAULT, which PostgreSQL would refuse.                               *)
THEOREM StorageTypeCorrect == StorageSpec => []TypeOK
<1>1. StorageInv => TypeOK
  BY DEF StorageInv
<1> QED
  BY <1>1, StorageInvariance, PTL

(* Ingest never falls back to DEFAULT, as long as the routers' clocks are right   *)
(* to a day and maintenance goes through often enough.                            *)
THEOREM NeverFallsBack == StorageSpec => []NoFallbackUnlessSkewed
<1>1. StorageInv => NoFallbackUnlessSkewed
  BY DEF StorageInv
<1> QED
  BY <1>1, StorageInvariance, PTL

(* What maintenance and guard take has expired or is the oldest there is; a purge  *)
(* takes what its operator asked for, and nothing else.                            *)
THEOREM EvidenceGoesOldestFirst == StorageSpec => LostExpiredOrOldest
<1>1. StorageInv /\ [StorageNext]_storageVars
        => [\A r \in Stored \ Stored' :
              r.day < Cutoff \/ AskedFor(r) \/ \A e \in Stored' : r.day < e.day]_storageVars
  <2> SUFFICES ASSUME StorageInv, [StorageNext]_storageVars, NEW r \in Stored \ Stored'
               PROVE  r.day < Cutoff \/ AskedFor(r) \/ \A e \in Stored' : r.day < e.day
    OBVIOUS
  <2> USE DEF Stored
  <2>1. CASE DropPartition
    BY <2>1 DEF DropPartition, On, StorageInv, OnlyExpired
  <2>2. CASE GuardDeletes
    <3>1. PICK q \in Stored : (\A e \in Stored : q.day <= e.day) /\ Remove(On(q.day))
      BY <2>2 DEF GuardDeletes
    <3>2. Stored' = Stored \ On(q.day)
      BY <3>1 DEF Remove
    <3>3. \A e \in Stored : e \in Row /\ e.day \in Int
      BY DayIsInt DEF StorageInv, TypeOK, Row
    <3>4. r.day = q.day /\ \A e \in Stored' : e \in Stored /\ e.day # q.day
      BY <3>2, <3>3 DEF On
    <3> QED
      BY <3>1, <3>3, <3>4
  <2>3. CASE PurgeBatch
    BY <2>3 DEF PurgeBatch, Remove
  <2>4. CASE \E x \in Row : Ingest(x)
    BY <2>4 DEF Ingest
  <2>5. CASE PageDeletes
    <3>1. r.day \in Int /\ today \in Int /\ older \in Int
      <4>1. r \in Row /\ today \in First..Last
        BY DEF StorageInv, TypeOK
      <4>2. r.day \in Days
        BY <4>1 DEF Row
      <4>3. older \in PageDays
        BY <2>5 DEF PageDeletes
      <4>4. r.day \in Int
        BY <4>2, DayIsInt, Zenon
      <4>5. today \in Int
        BY <4>1, StorageAssumption
      <4>6. older \in Int
        BY <4>3, StorageAssumption, Zenon
      <4> QED
        BY <4>4, <4>5, <4>6
    <3>2. r.day < today - older \/ r \in On(today - older)
      BY <2>5 DEF PageDeletes, Remove
    <3> QED
      BY <2>5, <3>1, <3>2 DEF PageDeletes, On, AskedFor
  <2>6. ASSUME UNCHANGED <<inPart, inDefault>> PROVE FALSE
    BY <2>6
  <2> QED
    BY <2>1, <2>2, <2>3, <2>4, <2>5, <2>6
    DEF StorageNext, Maintenance, NextDay, StartMaintenance, EnsurePartition, PartitionRefused, ListExpired,
        EndMaintenance, MaintenanceDies, GuardStarts, GuardDeletesNothing, PurgeStarts, PurgeEnds,
        storageVars, rows
<1> QED
  BY <1>1, StorageInvariance, PTL DEF StorageSpec, LostExpiredOrOldest
=============================================================================
