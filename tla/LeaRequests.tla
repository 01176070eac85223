---------------------------- MODULE LeaRequests -----------------------------
(***************************************************************************)
(* The request parser (scripts/lea_request_parser.py): what an authority   *)
(* pastes becomes a list of (address, port, time) to look up.  A text is   *)
(* given by what each of the parser's patterns finds in it, in the order   *)
(* of the text; whether a pattern matches a given wording is left out.  An *)
(* element is one piece of the authority's evidence, Missing where it does *)
(* not state a field; only tcpdump and netflow lines and key and value     *)
(* reports state a destination.                                            *)
(***************************************************************************)
EXTENDS Integers, SequencesExt

CONSTANT Missing  (* no such field in the text; Python's None *)

ASSUME RequestAssumption == Missing \notin Int

(* A stamp: a wall clock, Missing if it is found but cannot be read, and its    *)
(* offset from UTC, Missing if it states none.                                *)
Stamp(wall, offset) == [wall |-> wall, offset |-> offset]

(* _parse_any_time and _to_stored: a stamp with an offset is made UTC, one      *)
(* without is kept as it is, and one that cannot be read is no time.           *)
ToStored(s) == IF Missing \in {s.wall, s.offset} THEN s.wall ELSE s.wall - s.offset

Item(ip, port, stamp, dip, dport) ==
  [ip |-> ip, port |-> port, dip |-> dip, dport |-> dport,
   when |-> IF stamp = Missing THEN Missing ELSE ToStored(stamp)]

(* _add: an item without address, port or time is not added.                  *)
Complete(it) == Missing \notin {it.ip, it.port, it.when}

AddComplete(items, it) == IF Complete(it) THEN Append(items, it) ELSE items

Added(items) == FoldLeft(AddComplete, <<>>, items)

(* Patterns that find a whole element on a line.                              *)
LineItems(els) ==
  Added([i \in DOMAIN els |-> Item(els[i].ip, els[i].port, els[i].stamp, els[i].dip, els[i].dport)])

(* findall: what the elements state of a field, in order.                     *)
AddStated(column, value) == IF value = Missing THEN column ELSE Append(column, value)

Column(els, field) == FoldLeft(AddStated, <<>>, [i \in DOMAIN els |-> els[i][field]])

(* ports[i] if i < len(ports) else (ports[0] if ports else None)              *)
NthOrFirst(col, i) ==
  IF i <= Len(col) THEN col[i] ELSE IF col # <<>> THEN col[1] ELSE Missing

(* ACNS: the addresses, ports and times are three lists, joined by position; a  *)
(* time that cannot be read keeps its place, and its item is not added.        *)
AcnsItems(els) ==
  LET ips    == Column(els, "ip")
      ports  == Column(els, "port")
      stamps == Column(els, "stamp")
  IN  Added([i \in 1..(IF Len(ips) > Len(ports) THEN Len(ips) ELSE Len(ports)) |->
              Item(NthOrFirst(ips, i), NthOrFirst(ports, i), NthOrFirst(stamps, i),
                   Missing, Missing)])

(* Key and value, and the incident report: the first of each field in the      *)
(* whole text make one item, whichever element stated them.                    *)
KeyValueItems(els) ==
  LET first(field) == NthOrFirst(Column(els, field), 1)
  IN  Added(<<Item(first("ip"), first("port"), first("stamp"), first("dip"), first("dport"))>>)

(* Mutant: requests for one address and port are one, whatever their times.    *)
SameAddress(x, y) == x.ip = y.ip /\ x.port = y.port

SameRequest(x, y) == x.ip = y.ip /\ x.port = y.port /\ x.when = y.when

AddUnseen(items, it) ==
  IF \E x \in Range(items) : SameRequest(x, it) THEN items ELSE Append(items, it)

(* parse: plain "IP:port time" lines count only if nothing else was found.    *)
Parse(text) ==
  LET found == LineItems(text.tcpdump) \o AcnsItems(text.acns) \o LineItems(text.netflow)
               \o KeyValueItems(text.keyvalue) \o KeyValueItems(text.incident)
  IN  FoldLeft(AddUnseen, <<>>, IF found = <<>> THEN LineItems(text.plain) ELSE found)
=============================================================================
