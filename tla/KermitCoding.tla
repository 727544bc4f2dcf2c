---------------------------- MODULE KermitCoding ----------------------------
(***************************************************************************)
(* How kermit.c cuts a file into data fields and puts it together again:   *)
(* getpkt() and encode() at the sender, decode() at the receiver, with     *)
(* control, eighth-bit and repeat prefixes.  A byte is known by what       *)
(* encode() asks of it: its class and its eighth bit.                      *)
(***************************************************************************)
EXTENDS Naturals, Sequences
CONSTANTS TEXTS,       \* the files that may be coded, sequences of bytes
          MAXL,        \* s_maxlen, the longest packet the other end takes
          BCT,         \* block check lengths that may be in use, of 1..3
          RPTMAX       \* the longest run a prefix counts (94)
Classes == {"control", "letter", "plain", "#", "&", "~"}
Bytes == [class : Classes, high : BOOLEAN, n : {0}]
Wire  == [class : Classes \cup {"count"}, high : BOOLEAN, n : Nat]   \* a count has its n
ASSUME CodingAssumption == /\ RPTMAX \in Nat /\ RPTMAX > 2 /\ BCT \subseteq 1..3
                           /\ MAXL \in Nat /\ MAXL > 7 /\ TEXTS \subseteq Seq(Bytes)

VARIABLES text,        \* what is left of the input after the byte in hand
          hand,        \* c of getpkt(), the byte read ahead
          more,        \* s_first > -1: the end of the input is not seen
          run, remain, \* s_rpt, s_remain
          how,         \* what was negotiated: rptflg, ebqflg, bct
          fields,      \* the data fields sent
          original     \* the input
codevars == <<text, hand, more, run, remain, how, fields, original>>

Byte(class, high) == [class |-> class, high |-> high, n |-> 0]
Sign(class) == Byte(class, FALSE)
EOF == Sign("end")
tochar(n) == [class |-> "count", high |-> FALSE, n |-> n]

(* One byte, prefixed as it must be.                                        *)
ctl(b) == [b EXCEPT !.class = IF b.class = "control" THEN "letter" ELSE "control"]
Prefixed(b) == \/ b.class = "#"
               \/ how.ebq /\ b.class = "&"
               \/ how.rpt /\ b.class = "~"
Coded(b) ==
  LET low == [b EXCEPT !.high = b.high /\ ~how.ebq]
  IN (IF how.ebq /\ b.high THEN <<Sign("&")>> ELSE <<>>)
     \o (IF b.class = "control" THEN <<Sign("#"), ctl(low)>>
         ELSE IF Prefixed(b) THEN <<Sign("#"), low>> ELSE <<low>>)

(* encode(): field x of size x, run s_rpt.  A run broken at two is sent as  *)
(* two bytes, and the first of them may close the packet.                   *)
maxlen == MAXL - how.bct - 3
Boundary == MAXL - 4
Field(x, osize, rpt) == [x |-> x, osize |-> osize, rpt |-> rpt]
Repeated(a, n) == <<Sign("~"), tochar(n)>> \o Coded(a)
encode_lost(x, rpt, a, next) ==
  IF how.rpt /\ a = next
  THEN Field(IF rpt + 1 < RPTMAX THEN x ELSE x \o Repeated(a, RPTMAX), Len(x), (rpt + 1) % RPTMAX)
  ELSE Field(x \o (IF rpt > 0 THEN Repeated(a, rpt) ELSE Coded(a)), Len(x), 0)
encode(x, rpt, a, next) ==
  IF how.rpt /\ a = next
  THEN Field(IF rpt + 1 < RPTMAX THEN x ELSE x \o Repeated(a, RPTMAX), Len(x), (rpt + 1) % RPTMAX)
  ELSE IF rpt = 1
  THEN LET one == x \o Coded(a)
       IN Field(one \o Coded(a), IF Len(one) <= Boundary THEN Len(one) ELSE Len(x), 0)
  ELSE Field(x \o (IF rpt > 1 THEN Repeated(a, rpt + 1) ELSE Coded(a)), Len(x), 0)

(* getpkt()'s loop: the byte in hand and those of rest after it, up to the  *)
(* one that fills the field or the last.  A field past full is cut.         *)
Filled(x, rpt, c, rest) ==
  LET next(k) == IF k < Len(rest) THEN rest[k + 1] ELSE EOF
      taken[k \in 0 .. Len(rest)] ==
        IF k = 0 THEN [n |-> 0, e |-> encode(x, rpt, c, next(0))]
        ELSE LET s == taken[k - 1]
             IN IF Len(s.e.x) >= maxlen THEN s
                ELSE [n |-> k, e |-> encode(s.e.x, s.e.rpt, rest[k], next(k))]
      at == taken[Len(rest)].n
      e == taken[Len(rest)].e
      end == IF Len(e.x) > maxlen THEN e.osize ELSE Len(e.x)
  IN [field |-> SubSeq(e.x, 1, end), remain |-> SubSeq(e.x, end + 1, Len(e.x)), run |-> e.rpt,
      hand |-> next(at), text |-> SubSeq(rest, at + 2, Len(rest)), more |-> at < Len(rest)]

Coding(t, h) ==
            /\ original = t
            /\ hand = IF original = <<>> THEN EOF ELSE Head(original)
            /\ text = IF original = <<>> THEN <<>> ELSE Tail(original)
            /\ more = (original # <<>>) /\ run = 0 /\ remain = <<>> /\ fields = <<>>
            /\ how = h
CodeInit == \E t \in TEXTS, h \in [rpt : BOOLEAN, ebq : BOOLEAN, bct : BCT] : Coding(t, h)

(* One call of getpkt() that sends something, with the bytes it leaves.     *)
getpkt == /\ more
          /\ LET f == Filled(remain, run, hand, text)
             IN /\ fields' = Append(fields, f.field)
                /\ remain' = f.remain /\ run' = f.run /\ hand' = f.hand
                /\ text' = f.text /\ more' = f.more
          /\ UNCHANGED <<how, original>>
Leftover == /\ ~more /\ remain # <<>>
            /\ fields' = Append(fields, remain) /\ remain' = <<>>
            /\ UNCHANGED <<text, hand, more, run, how, original>>
CodeNext == getpkt \/ Leftover
CodeSpec == CodeInit /\ [][CodeNext]_codevars
-----------------------------------------------------------------------------
(* decode(): a repeat count, then an eighth-bit prefix, then a control      *)
(* prefix, then the byte; a count of nothing is one.                        *)
Uncontrolled(b) == IF b.class \in {"letter", "control"} THEN ctl(b) ELSE b
Unit(h, s) ==
  LET at1 == IF h.rpt /\ s[1] = Sign("~") THEN 3 ELSE 1
      at2 == IF h.ebq /\ s[at1] = Sign("&") THEN at1 + 1 ELSE at1
      at3 == IF s[at2] = Sign("#") THEN at2 + 1 ELSE at2
      b   == IF at3 = at2 THEN s[at3] ELSE Uncontrolled(s[at3])
  IN [n |-> IF at1 = 3 /\ s[2].n # 0 THEN s[2].n ELSE 1, len |-> at3,
      byte |-> [b EXCEPT !.high = b.high \/ at2 # at1]]
decode_fields(h, field) ==
  LET from[s \in Seq(Wire)] ==
        IF s = <<>> THEN <<>>
        ELSE [i \in 1 .. Unit(h, s).n |-> Unit(h, s).byte]
             \o from[SubSeq(s, Unit(h, s).len + 1, Len(s))]
  IN from[field]
Arrived(h, fs) ==
  LET upto[i \in 0 .. Len(fs)] == IF i = 0 THEN <<>> ELSE upto[i - 1] \o decode_fields(h, fs[i])
  IN upto[Len(fs)]

(* "Every byte that went out came back": each field is decoded on its own,  *)
(* whatever prefixes fall at its edge, and the file is what they make.      *)
AllSent == ~more /\ remain = <<>>
RoundTrip == AllSent => Arrived(how, fields) = original

(* A field leaves room for the length, sequence number, type and check of   *)
(* a packet the other end takes: readpkt() drops one "longer than           *)
(* negotiated".                                                             *)
PacketFits == \A i \in DOMAIN fields : Len(fields[i]) <= maxlen

(* What overruns a field waits in s_remain[6], with the NUL that ends it.   *)
RemainFits == Len(remain) < 6
=============================================================================
