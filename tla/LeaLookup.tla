----------------------------- MODULE LeaLookup ------------------------------
(***************************************************************************)
(* "Who held <public_ip>:<port> at time T?"  The lookups over              *)
(* mikrotik_translations: the LEA page and the API over                    *)
(* scripts/mikrotik_lea.py, the pasted request, the tuple lookup and       *)
(* scripts/lea_resolve.py, each with a query of its own.  Connections      *)
(* begin and end on the network meanwhile; the router logs each as it      *)
(* begins, and its row is in the table once the ingest daemon commits it.  *)
(*                                                                         *)
(* A lookup only reads (its audit entry aside), by one SELECT, so each is  *)
(* an operator: the set of answers the table may give at this moment.  The *)
(* customer's name and phone, joined in by user name, are left out.        *)
(*                                                                         *)
(* clock is the time of the world.  A row's log_time is the wall clock of  *)
(* the router that logged it, stored as it is; each form has its own way   *)
(* to bring the moment it is asked about to that scale.                    *)
(***************************************************************************)
EXTENDS LeaRequests, FiniteSets

CONSTANTS
  Subscribers,
  NasOf, KeyOf,  (* by subscriber: its NAS and what is stored as username:
                    the PPPoE name, or the interface of routed and DHCP
                    subscribers, who share it                               *)
  Ips, Ports,    (* public addresses and ports                              *)
  Dests,         (* destinations, each an address and a port                *)
  ZoneOf,        (* by NAS: its wall clock less UTC                         *)
  SessionZone,   (* the time zone of the database session                   *)
  EpochZone,     (* LEA_EPOCH_TZ of lea_resolve: 0 for utc, 5 h for pkt     *)
  Window,        (* 300 s either side of T                                  *)
  ResolveWindow, (* LEA_WINDOW_SECONDS of lea_resolve                       *)
  WindowMin, WindowMax, (* what the page lets an officer choose: 60 s to 6 h *)
  Asked,         (* windows officers ask for                                *)
  ListLimit, TupleLimit, (* LIMIT 25, LIMIT 50                              *)
  Stamps,        (* times officers ask about, as they write them            *)
  Texts,         (* requests that are pasted, a sequence                    *)
  StatedPorts,   (* ports they state, used or not                           *)
  Null,          (* no end yet; no destination asked for; no row            *)
  MaxClock, MaxConns (* bounds on time and connections                      *)

DestIps   == {d[1] : d \in Dests}
DestPorts == {d[2] : d \in Dests}

(* What an authority states of one piece of evidence, and a request.          *)
Element ==
  [ip : Ips \cup {Missing}, port : StatedPorts \cup {Missing},
   dip : DestIps \cup {Missing}, dport : DestPorts \cup {Missing},
   stamp : [wall : Int \cup {Missing}, offset : Int \cup {Missing}] \cup {Missing}]

Request == [tcpdump : Seq(Element), acns : Seq(Element), netflow : Seq(Element),
            keyvalue : Seq(Element), incident : Seq(Element), plain : Seq(Element)]

ASSUME LeaAssumption ==
  /\ {Window, WindowMin, WindowMax, MaxClock, MaxConns} \subseteq Nat
  /\ WindowMin <= WindowMax
  /\ {SessionZone, EpochZone, ResolveWindow} \subseteq Int
  /\ \A s \in Subscribers : ZoneOf[NasOf[s]] \in Int
  /\ Null \notin DestIps
  /\ Asked \subseteq Int
  /\ Stamps \subseteq [wall : Int, offset : Int \cup {Missing}]
  /\ ListLimit \in Nat \ {0} /\ TupleLimit \in Nat \ {0}
  /\ Texts \in Seq(Request)

VARIABLES
  clock,   (* the time, UTC                                                 *)
  conns,   (* external: the connections, in the order they began            *)
  stored   (* how many of them have their row in mikrotik_translations      *)

leaVars == <<clock, conns, stored>>

LeaInit == clock = 0 /\ conns = <<>> /\ stored = 0

-----------------------------------------------------------------------------
(* The network and the ingest daemon.                                        *)

TimePasses ==
  /\ clock < MaxClock
  /\ clock' = clock + 1
  /\ UNCHANGED <<conns, stored>>

(* The NAT gives an address and a port to one connection per destination.     *)
Open(s, ip, port, dest) ==
  /\ Len(conns) < MaxConns
  /\ \A c \in Range(conns) : c.ended = Null => <<c.ip, c.port, c.dest>> # <<ip, port, dest>>
  /\ conns' = Append(conns, [sub |-> s, ip |-> ip, port |-> port, dest |-> dest,
                             began |-> clock, ended |-> Null])
  /\ UNCHANGED <<clock, stored>>

Close(i) ==
  /\ conns[i].ended = Null
  /\ conns' = [conns EXCEPT ![i].ended = clock]
  /\ UNCHANGED <<clock, stored>>

(* A batch is committed, in the order of the log.                             *)
Ingest ==
  /\ stored < Len(conns)
  /\ \E n \in stored + 1..Len(conns) : stored' = n
  /\ UNCHANGED <<clock, conns>>

-----------------------------------------------------------------------------
(* One question, and what the queries make of the table.  t is the moment the *)
(* query compares with log_time.                                              *)

Question(ip, port, dip, dport, t, w) ==
  [ip |-> ip, port |-> port, dip |-> dip, dport |-> dport, t |-> t, w |-> w]

Key(i)  == KeyOf[conns[i].sub]
Name(i) == <<Key(i), NasOf[conns[i].sub]>>
Zone(i) == ZoneOf[NasOf[conns[i].sub]]

(* log_time: the stamp of the router, by its own clock.                       *)
LogTime(i) == conns[i].began + Zone(i)

Delta(i, t) == IF LogTime(i) < t THEN t - LogTime(i) ELSE LogTime(i) - t

(* WHERE public_ip, public_port                                               *)
Of(q) == {i \in 1..stored : conns[i].ip = q.ip /\ conns[i].port = q.port}

(* Mutant: the window has no end.                                             *)
WithinSince(i, q) == q.t - q.w <= LogTime(i)

(* log_time BETWEEN T - window AND T + window                                 *)
Within(i, q) == q.t - q.w <= LogTime(i) /\ LogTime(i) <= q.t + q.w

InWindow(q) == {i \in Of(q) : Within(i, q)}

(* What a page says: whether there is a row, the name of the first and how far  *)
(* it is from T, the names listed, those whose destination confirms the        *)
(* request, the port_reuse flag; and whether LIMIT cut the list.               *)
NotFound == [found |-> FALSE, first |-> Null, delta |-> Null, names |-> {}, confirmed |-> {},
             reuse |-> FALSE, cut |-> FALSE]

(* Mutant: candidates are told apart by user name alone.                      *)
DistinctUsers(S) == {Name(i) : i \in {x \in S : \A j \in S : Key(j) = Key(x) => x <= j}}

(* distinct: a candidate is a (username, nas_id).                              *)
Distinct(S) == {Name(i) : i \in S}

(* mikrotik_lea.lookup: all rows of the window, the closest in time first, and *)
(* of these the earliest; each (username, nas_id) is listed once.              *)
LookupResults(q) ==
  LET S == InWindow(q)
      Precedes(i, j) == \/ Delta(i, q.t) < Delta(j, q.t)
                        \/ Delta(i, q.t) = Delta(j, q.t) /\ LogTime(i) <= LogTime(j)
  IN  IF S = {} THEN {NotFound}
      ELSE {[found |-> TRUE, first |-> Name(i), delta |-> Delta(i, q.t), names |-> Distinct(S),
             confirmed |-> {}, reuse |-> Cardinality(Distinct(S)) > 1, cut |-> FALSE]
              : i \in {x \in S : \A j \in S : Precedes(x, j)}}

(* ORDER BY |log_time - T| LIMIT: which of several rows as close comes first   *)
(* is up to the database.                                                      *)
ShortLists(S, t, limit) ==
  {L \in SUBSET S : /\ Cardinality(L) = IF Cardinality(S) < limit THEN Cardinality(S) ELSE limit
                    /\ \A i \in L, j \in S \ L : Delta(i, t) <= Delta(j, t)}

(* The pasted request, the tuple lookup and lea_resolve flag by user name,     *)
(* among the rows they list; the rows of C confirm.                            *)
ListResults(S, C, t, limit) ==
  IF S = {} THEN {NotFound}
  ELSE UNION {{[found |-> TRUE, first |-> Name(i), delta |-> Delta(i, t), names |-> {Name(j) : j \in L},
                confirmed |-> {Name(j) : j \in L \cap C},
                reuse |-> Cardinality({Key(j) : j \in L}) > 1, cut |-> L # S]
                 : i \in {x \in L : \A j \in L : Delta(x, t) <= Delta(j, t)}}
              : L \in ShortLists(S, t, limit)}

(* Mutant: the destination is always in the WHERE clause.                      *)
ToDestAlways(q) == {i \in InWindow(q) : conns[i].dest = <<q.dip, q.dport>>}

(* The tuple lookup looks only at rows of the address, and of the port, of the *)
(* destination that it is given.                                               *)
ToDest(q) == {i \in InWindow(q) : q.dip \in {Null, conns[i].dest[1]} /\ q.dport \in {Null, conns[i].dest[2]}}

(* A pasted item and a tcpdump line confirm a row by both parts of the         *)
(* destination, the tuple lookup by the address alone if no port is given, and *)
(* never by the port alone.                                                    *)
ListConfirms(q)  == {i \in InWindow(q) : conns[i].dest = <<q.dip, q.dport>>}
TupleConfirms(q) == {i \in ToDest(q) : q.dip # Null}

Results(form, q) ==
  CASE form \in {"page", "api"}      -> LookupResults(q)
    [] form = "tuple"                -> ListResults(ToDest(q), TupleConfirms(q), q.t, TupleLimit)
    [] form \in {"paste", "resolve"} -> ListResults(InWindow(q), ListConfirms(q), q.t, ListLimit)

-----------------------------------------------------------------------------
(* The pages, the API and the command: the answers a question may get.         *)

(* A time with an offset is compared in the zone of the database session by    *)
(* the page and the API, which keep its offset, and made UTC by the tuple      *)
(* lookup and the pasted request; lea_resolve is given an instant, and makes   *)
(* it a wall clock of its own zone.  A time without an offset is taken as it   *)
(* is.                                                                         *)
FormZone == [page |-> SessionZone, api |-> SessionZone, tuple |-> 0, paste |-> 0, resolve |-> EpochZone]

Moment(form, s) == IF s.offset = Missing THEN s.wall ELSE s.wall - s.offset + FormZone[form]

Answers(form, q) == {[form |-> form, q |-> q, result |-> r] : r \in Results(form, q)}

Clamp(w) == IF w < WindowMin THEN WindowMin ELSE IF w > WindowMax THEN WindowMax ELSE w

LeaQuery(ip, port, s, w) ==
  Answers("page", Question(ip, port, Null, Null, Moment("page", s), Clamp(w)))

ApiLookup(ip, port, s) ==
  Answers("api", Question(ip, port, Null, Null, Moment("api", s), Window))

(* The window is taken as it is asked for: below zero it holds nothing.         *)
TupleLookup(ip, port, dip, dport, s, w) ==
  Answers("tuple", Question(ip, port, dip, dport, Moment("tuple", s), w))

(* One line of tcpdump: its epoch is a stamp with an offset.                   *)
Resolve(ip, port, dip, dport, s) ==
  Answers("resolve", Question(ip, port, dip, dport, Moment("resolve", s), ResolveWindow))

Parsed == [n \in DOMAIN Texts |-> Parse(Texts[n])]

(* Each item of the text is looked up by a query of its own.                   *)
PasteRequest(n) ==
  LET given(x)      == IF x = Missing THEN Null ELSE x
      answersTo(it) == Answers("paste", Question(it.ip, it.port, given(it.dip), given(it.dport), it.when, Window))
  IN  [i \in DOMAIN Parsed[n] |-> answersTo(Parsed[n][i])]

LeaNext ==
  \/ TimePasses
  \/ \E s \in Subscribers, ip \in Ips, port \in Ports, dest \in Dests : Open(s, ip, port, dest)
  \/ \E i \in DOMAIN conns : Close(i)
  \/ Ingest

LeaSpec == LeaInit /\ [][LeaNext]_leaVars

-----------------------------------------------------------------------------
(* Properties.                                                                 *)

(* The truth an officer asks for.  A time with an offset is an instant; one    *)
(* without is meant by the clock of the router in question, the one whose NAS  *)
(* connection i runs over.                                                     *)
Instant(s, i) == IF s.offset = Missing THEN s.wall - Zone(i) ELSE s.wall - s.offset

(* Connection i had the address and port at that instant.                      *)
Held(i, ip, port, s) ==
  /\ conns[i].ip = ip /\ conns[i].port = port
  /\ conns[i].began <= Instant(s, i)
  /\ conns[i].ended = Null \/ Instant(s, i) <= conns[i].ended

(* The zone a form takes log_time to be in is the zone of this NAS.            *)
ZoneFits(form, s, i) == s.offset = Missing \/ FormZone[form] = Zone(i)

(* Whoever held the address and port at the time asked about, by a connection  *)
(* that began within the window and is stored, is named by the answer: first,  *)
(* if the answer flags no reuse, and else among the names, and among those     *)
(* confirmed if his destination is the one asked for, address and port.  A     *)
(* tuple lookup for another destination and a list that was cut may miss him,  *)
(* and so does a form that takes log_time to be in another zone; a list with   *)
(* the same user name on two NASes names the user, but first perhaps on the    *)
(* other NAS.                                                                  *)
NamesHolder(a, ip, port, s) ==
  \A i \in 1..stored :
    /\ Held(i, ip, port, s) /\ Instant(s, i) - a.q.w <= conns[i].began
    /\ ZoneFits(a.form, s, i)
    /\ a.form = "tuple" => i \in ToDest(a.q)
    /\ ~a.result.cut
    =>
    /\ a.result.found
    /\ Name(i) \in a.result.names
    /\ ~a.result.reuse =>
         IF a.form \in {"page", "api"} THEN a.result.first = Name(i) ELSE a.result.first[1] = Key(i)
    /\ a.form \notin {"page", "api"} /\ conns[i].dest = <<a.q.dip, a.q.dport>> =>
         Name(i) \in a.result.confirmed

(* What a text asks for: each complete element with a time that can be read,   *)
(* in an ACNS report as long as none before it leaves a field out, and plain   *)
(* lines if there is nothing else.                                             *)
States(e) == Missing \notin {e.ip, e.port, e.stamp}

Readable(e) == States(e) /\ e.stamp.wall # Missing

Evidence(text) ==
  LET firsts == {els \in {text.keyvalue, text.incident} : els # <<>> /\ Readable(els[1])}
      listed == {n \in DOMAIN text.acns : Readable(text.acns[n]) /\ \A i \in 1..n : States(text.acns[i])}
      others == {e \in Range(text.tcpdump) \cup Range(text.netflow) : Readable(e)}
                \cup {text.acns[k] : k \in listed} \cup {els[1] : els \in firsts}
  IN  IF Parse([text EXCEPT !.plain = <<>>]) = <<>> THEN {e \in Range(text.plain) : Readable(e)} ELSE others

EvidenceOf == [n \in DOMAIN Texts |-> Evidence(Texts[n])]

(* Whichever form a question takes, the holder is in the answer.                *)
HolderNamed ==
  \A ip \in Ips, port \in Ports, s \in Stamps :
    LET named(answers) == \A a \in answers : NamesHolder(a, ip, port, s)
    IN  /\ named(ApiLookup(ip, port, s))
        /\ \A w \in Asked : named(LeaQuery(ip, port, s, w))
        /\ \A w \in Asked, dip \in DestIps \cup {Null}, dport \in DestPorts \cup {Null} :
              named(TupleLookup(ip, port, dip, dport, s, w))
        /\ s.offset # Missing =>
             \A dip \in DestIps, dport \in DestPorts : named(Resolve(ip, port, dip, dport, s))

(* From the text an officer has in hand to the subscriber named: each piece of *)
(* evidence is looked up, and its holder is in the answer.                     *)
PastedHolderNamed ==
  \A n \in DOMAIN Texts : \A e \in EvidenceOf[n] : \E k \in DOMAIN Parsed[n] :
    \A a \in PasteRequest(n)[k] : NamesHolder(a, e.ip, e.port, e.stamp)

Forms == {"page", "api", "tuple", "paste", "resolve"}

(* Everything of the window is in the table.                                   *)
WindowSettled(t, w) ==
  /\ \A s \in Subscribers : clock + ZoneOf[NasOf[s]] > t + w
  /\ \A i \in stored + 1..Len(conns) : LogTime(i) > t + w

(* The moments the forms make of the times asked about.                         *)
Moments == {Moment(form, s) : form \in Forms, s \in Stamps}

(* An answer given once the whole window is in the table is what the same      *)
(* question gets from then on, as long as the rows are kept (module Storage    *)
(* drops and purges them), whoever asks: the API and the page have one query,  *)
(* and so have the pasted request and lea_resolve.                             *)
SettledAnswersStand ==
  [][\A t \in Moments, w \in Asked \cup {Window} :
       WindowSettled(t, w) =>
         /\ WindowSettled(t, w)'
         /\ \A form \in {"page", "tuple", "paste"}, ip \in Ips, port \in Ports,
               dip \in DestIps \cup {Null}, dport \in DestPorts \cup {Null} :
              LET q == Question(ip, port, dip, dport, t, w)
              IN  Results(form, q)' = Results(form, q)]_leaVars

(* A time names the same moment to the page and to another form if it has no   *)
(* offset, or if the form's zone is the zone of the database session;          *)
(* lea_resolve is given no times without an offset, and has its own window.    *)
Alike(form, s) ==
  /\ s.offset = Missing \/ FormZone[form] = SessionZone
  /\ form = "resolve" => s.offset # Missing /\ ResolveWindow = Window

(* Asked alike, the page and a form with a list agree: found or not found; the *)
(* first row is as close to the time, even of a list that was cut; a list      *)
(* names nobody the page does not name, and everybody unless it is cut, and    *)
(* never flags a reuse the page does not flag.  A cut list may hide a          *)
(* subscriber, and with him the flag.                                          *)
FormsAgree ==
  \A form \in {"tuple", "paste", "resolve"}, ip \in Ips, port \in Ports, s \in Stamps :
    LET ask(f) == Results(f, Question(ip, port, Null, Null, Moment(f, s), Window))
    IN  Alike(form, s) =>
          \A full \in ask("page"), short \in ask(form) :
            /\ short.found = full.found
            /\ short.delta = full.delta
            /\ short.names \subseteq full.names
            /\ ~short.cut => short.names = full.names
            /\ short.reuse => full.reuse

(* "stored log_time is naive and equals the UTC wall-clock [...].  So every      *)
(* input is normalised to naive-UTC": evidence whose time states its offset is    *)
(* looked up where the rows of that instant are, whatever the clock of the NAS.   *)
NormalisedAsStored ==
  \A n \in DOMAIN Texts : \A e \in EvidenceOf[n] : e.stamp.offset # Missing =>
    \E k \in DOMAIN Parsed[n] : \A a \in PasteRequest(n)[k], i \in 1..stored :
      /\ Held(i, e.ip, e.port, e.stamp) /\ Instant(e.stamp, i) - a.q.w <= conns[i].began /\ ~a.result.cut
      => Name(i) \in a.result.names

(* "If more than one DISTINCT subscriber (username) held that public IP:port   *)
(* in the window, return ALL of them flagged": two subscribers whose stored    *)
(* connections began in the window are never shown as one.                     *)
CollisionFlagged ==
  \A ip \in Ips, port \in Ports, s \in Stamps : \A a \in ApiLookup(ip, port, s) :
    Cardinality({conns[i].sub : i \in InWindow(a.q)}) > 1 => a.result.reuse
=============================================================================
