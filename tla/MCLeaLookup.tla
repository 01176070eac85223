---------------------------- MODULE MCLeaLookup -----------------------------
(* Instances of LeaLookup for TLC: a PPPoE subscriber and two behind           *)
(* interfaces of the same name, on two NASes or on one.  The clock of n1 is    *)
(* an hour ahead of UTC, as is the database session; that of n2 is UTC.          *)
EXTENDS LeaLookup

CONSTANTS a, d, e, n1, n2, x1, p1, p2, s1, s2, t1, t2

TheSubscribers == {a, d, e}
TheKeys        == [x \in TheSubscribers |-> IF x = a THEN "b169" ELSE "bridge"]
OnTwoNases     == [x \in TheSubscribers |-> IF x = e THEN n2 ELSE n1]
OnOneNas       == [x \in TheSubscribers |-> n1]
TheZones       == [n \in {n1, n2} |-> IF n = n1 THEN 1 ELSE 0]
TheDests       == {<<s1, t1>>, <<s2, t2>>}

Naive(w) == Stamp(w, Missing)

(* A moment in the middle of the instance, and one so early that windows around *)
(* it are settled at its end.                                                   *)
TheStamps == {Naive(0), Stamp(2, 1)}

Piece(port, stamp, dip, dport) == [ip |-> x1, port |-> port, stamp |-> stamp, dip |-> dip, dport |-> dport]

Source(port, stamp) == Piece(port, stamp, Missing, Missing)

NoText ==
  [tcpdump |-> <<>>, acns |-> <<>>, netflow |-> <<>>, keyvalue |-> <<>>, incident |-> <<>>, plain |-> <<>>]

(* An ACNS report with a time that cannot be read, and whose fourth element    *)
(* states no port, so that the fifth moves up; a mixed text, with times of     *)
(* another zone and of none, one request for two destinations, a flow without  *)
(* a time and a report of a destination without its port; plain lines.         *)
TheTexts ==
  <<[NoText EXCEPT !.acns = <<Source(p2, Stamp(1, 0)), Source(p1, Naive(Missing)), Source(p1, Stamp(2, 0)),
                             Source(Missing, Stamp(0, 0)), Source(p1, Stamp(0, 0))>>],
    [NoText EXCEPT !.tcpdump = <<Piece(p1, Stamp(1, 0), s1, t1), Piece(p1, Stamp(1, 0), s2, t2)>>,
                  !.netflow = <<Piece(p1, Missing, s2, t2), Piece(p1, Stamp(2, 1), s2, t2), Piece(p1, Naive(2), s1, t1)>>,
                  !.keyvalue = <<Piece(p1, Naive(3), s1, Missing)>>],
    [NoText EXCEPT !.keyvalue = <<Source(p1, Naive(Missing)), Source(p1, Stamp(1, 0))>>,
                  !.plain = <<Source(p1, Stamp(2, 0)), Source(p1, Stamp(1, 1))>>]>>
=============================================================================
