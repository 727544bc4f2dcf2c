---------------------------- MODULE DialogProofs ----------------------------
(***************************************************************************)
(* A file over a line that loses, spoils and repeats packets, for every    *)
(* number of sequence numbers above two, every file, disk, retry limit and *)
(* number of faults; the keys typed at a console, for every set of         *)
(* programs and consoles; the row a line is edited on, for every width and *)
(* every length of line; and the fields a file is cut into, for every      *)
(* file, packet length and longest run.                                    *)
(***************************************************************************)
EXTENDS Kermit, ConIn, LineEdit, KermitCoding, SequenceTheorems, WellFoundedInduction, TLAPS

-----------------------------------------------------------------------------
(* Types.                                                                  *)
Seqs    == 0 .. SEQNOS - 1
Datas   == {0} \cup UNION {{f[i] : i \in DOMAIN f} : f \in FILES}
Sending == {"S", "F", "A", "D", "Z", "B"}
Packets == [type : Sending \cup {"none", "Y", "N", "E", "bad", "runt"}, seq : Seqs, data : Datas]
Engine  == {"X_OK", "X_DONE", "X_ERROR"}

Receivers == [state : {"R_WAIT", "R_FILE", "R_ATTR", "R_DATA"}, seq : Seqs, rtr : Nat, slot : Nat,
              out : Packets, idle : Nat, started : BOOLEAN, status : Engine]
Senders   == [state : {"S_INIT", "S_FILE", "S_ATTR", "S_DATA", "S_EOF", "S_EOT"}, seq : Seqs,
              rtr : Nat, slot : Nat, out : Packets, next : Nat, left : BOOLEAN, found : BOOLEAN,
              at : BOOLEAN, status : Engine]
Dests     == [text : Seq(Datas), obuf : Seq(Datas), room : Nat, closed : BOOLEAN]

Typed(s, k, lr, ls, d) ==
  /\ s \in Senders /\ k \in Receivers /\ d \in Dests
  /\ lr \in Seq(Packets) /\ ls \in Seq(Packets)

-----------------------------------------------------------------------------
(* A line that carries two generations of packets: none of B follows one   *)
(* of C.  Others are what the line makes of a packet, and the last words   *)
(* of an end.                                                              *)
Others == {q \in Packets : q.type \in {"bad", "runt", "E"}}
InTurn(wire, B, C) ==
  /\ \A i \in DOMAIN wire : wire[i] \in Others \cup B \cup C
  /\ \A i, j \in DOMAIN wire : i < j /\ wire[i] \in C => wire[j] \notin B

(* What a sender with sequence number n sent before; what it sends.        *)
Back(n) == (n + SEQNOS - 1) % SEQNOS
Stale(n) == {q \in Packets : q.type \in Sending /\ q.seq = Back(n)}

Kind(state) == CASE state = "S_INIT" -> "S" [] state = "S_FILE" -> "F" [] state = "S_ATTR" -> "A"
                 [] state = "S_DATA" -> "D" [] state = "S_EOF" -> "Z" [] OTHER -> "B"
Current(k) == Packet(Kind(k.state), k.seq, IF k.state = "S_DATA" THEN file[k.next - 1] ELSE 0)

(* What a receiver answers while it expects n.                             *)
Answers(n) == {Packet("Y", Back(n), 0), Packet("N", n, 0)}

(* The lines, before the receiver has accepted the packet the sender is at *)
(* and after: lr is what is on its way to the receiver, ls to the sender.  *)
Before(s, k, lr, ls) ==
  /\ k.seq = s.seq
  /\ InTurn(lr, Stale(s.seq), {Current(s)}) /\ InTurn(ls, {}, Answers(s.seq))
Accepted(s, k, lr, ls) ==
  /\ k.seq = After(s.seq)
  /\ InTurn(lr, {}, {Current(s)}) /\ InTurn(ls, Answers(s.seq), Answers(k.seq))
Outs(s, k) ==
  /\ Engaged(s) => s.out = Current(s)
  /\ Engaged(k) => k.out \in Answers(k.seq) \cup {NoPacket}

-----------------------------------------------------------------------------
(* How far the receiver is.                                                *)
Holds(d, n) == d.text \o d.obuf = SubSeq(file, 1, n)
Got(d) == \E n \in 0 .. Len(file) : Holds(d, n)

(* The sender, by itself.                                                  *)
SenderAt(s) ==
  /\ s.left <=> s.state = "S_INIT"
  /\ s.state \in {"S_INIT", "S_FILE"} => s.next = 1
  /\ s.state \in {"S_ATTR", "S_EOF", "S_EOT"} => s.next = Len(file) + 1
  /\ s.state = "S_DATA" => s.next \in 2 .. Len(file) + 1

Delivered(d) == d.closed /\ (d.text = file \/ Len(file) > d.room)

(* A receiver that waits for what the sender is at; one that has it.       *)
Awaiting(s, k, d) ==
  /\ s.state = "S_INIT" => k.state = "R_WAIT"
  /\ s.state = "S_FILE" => k.state = "R_FILE"
  /\ s.state = "S_ATTR" => k.state = "R_ATTR"
  /\ s.state = "S_DATA" => \/ k.state = "R_ATTR" /\ s.next = 2
                           \/ k.state = "R_DATA" /\ Holds(d, s.next - 2)
  /\ s.state = "S_EOF" => \/ k.state = "R_ATTR"
                          \/ k.state = "R_DATA" /\ Holds(d, Len(file))
  /\ s.state = "S_EOT" => k.state = "R_FILE" /\ Delivered(d)

Advanced(s, k, d) ==
  /\ s.state = "S_INIT" => k.state = "R_FILE"
  /\ s.state \in {"S_FILE", "S_ATTR"} => k.state = "R_ATTR"
  /\ s.state = "S_DATA" => k.state = "R_DATA" /\ Holds(d, s.next - 1)
  /\ s.state = "S_EOF" => k.state = "R_FILE" /\ Delivered(d)

Step(s, k, lr, ls, d) ==
  \/ Before(s, k, lr, ls) /\ (Engaged(k) => Awaiting(s, k, d))
  \/ /\ Accepted(s, k, lr, ls) /\ (Engaged(k) => Advanced(s, k, d))
     /\ s.state = "S_EOT" => k.status = "X_DONE" /\ Delivered(d)

EndedWell(s, k) == s.status = "X_DONE" => s.state = "S_EOT" /\ k.seq = After(s.seq)

Good(s, k, lr, ls, d) ==
  /\ Typed(s, k, lr, ls, d) /\ Outs(s, k) /\ SenderAt(s) /\ Step(s, k, lr, ls, d)
  /\ Got(d) /\ EndedWell(s, k)
KInv == file \in FILES /\ Good(snd, rcv, toR, toS, dest)

-----------------------------------------------------------------------------
(* Numbers and packets.                                                    *)
LEMMA Numbers ==
  /\ \A n \in Seqs : /\ After(n) \in Seqs /\ Back(n) \in Seqs
                     /\ After(n) # n /\ Back(n) # n /\ Back(n) # After(n)
                     /\ Back(After(n)) = n /\ After(Back(n)) = n
  /\ 0 \in Seqs /\ SEQNOS \in Nat /\ SEQNOS > 2
  <1>1. SEQNOS \in Nat /\ SEQNOS > 2
    BY KermitAssumption
  <1>2. ASSUME NEW n \in Seqs
        PROVE  After(n) = IF n = SEQNOS - 1 THEN 0 ELSE n + 1
    BY <1>1 DEF Seqs, After
  <1>3. ASSUME NEW n \in Seqs
        PROVE  Back(n) = IF n = 0 THEN SEQNOS - 1 ELSE n - 1
    BY <1>1 DEF Seqs, Back
  <1>4. \A n \in Seqs : After(n) \in Seqs /\ Back(n) \in Seqs
    BY <1>1, <1>2, <1>3 DEF Seqs
  <1>5. \A n \in Seqs : After(n) # n /\ Back(n) # n /\ Back(n) # After(n)
    BY <1>1, <1>2, <1>3 DEF Seqs
  <1>6. \A n \in Seqs : Back(After(n)) = n /\ After(Back(n)) = n
    BY <1>1, <1>2, <1>3, <1>4 DEF Seqs
  <1>7. QED BY <1>1, <1>4, <1>5, <1>6 DEF Seqs

LEMMA FileIs == ASSUME file \in FILES PROVE file \in Seq(Datas) /\ Len(file) \in Nat
  <1>1. file \in Seq({file[i] : i \in DOMAIN file})
    BY KermitAssumption
  <1>2. {file[i] : i \in DOMAIN file} \subseteq Datas
    BY DEF Datas
  <1>3. file \in Seq(Datas)
    BY <1>1, <1>2, SeqMonotonic
  <1>4. QED BY <1>3

LEMMA AnswersAre ==
  ASSUME NEW n \in Seqs
  PROVE  /\ Answers(n) \in SUBSET Packets
         /\ Answers(n) \cap Others = {} /\ NoPacket \notin Others /\ NoPacket \notin Answers(n)
         /\ \A m \in Seqs : m # n => Answers(n) \cap Answers(m) = {}
  <1>1. Back(n) \in Seqs /\ 0 \in Datas
    BY Numbers DEF Datas
  <1>2. Answers(n) \in SUBSET Packets
    BY <1>1 DEF Answers, Packets, Packet
  <1>3. Answers(n) \cap Others = {} /\ NoPacket \notin Others /\ NoPacket \notin Answers(n)
    BY DEF Answers, Others, Packet, NoPacket
  <1>4. ASSUME NEW m \in Seqs, m # n PROVE Answers(n) \cap Answers(m) = {}
    <2>1. Back(n) # Back(m)
      BY <1>4, Numbers
    <2>2. QED BY <1>4, <2>1 DEF Answers, Packet
  <1>5. QED BY <1>2, <1>3, <1>4

LEMMA CurrentIs ==
  ASSUME file \in FILES, NEW k \in Senders, SenderAt(k)
  PROVE  /\ Current(k) \in Packets /\ Current(k).seq = k.seq /\ Current(k).type \in Sending
         /\ Current(k) \notin Others /\ Current(k) \notin Stale(k.seq)
         /\ Current(k).type = Kind(k.state)
         /\ k.state = "S_DATA" => Current(k).data = file[k.next - 1]
         /\ Current(k) # NoPacket
  <1>1. k.seq \in Seqs /\ 0 \in Datas
    BY DEF Senders, Datas
  <1>2. k.state = "S_DATA" => file[k.next - 1] \in Datas
    <2>1. k.state = "S_DATA" => k.next - 1 \in 1 .. Len(file)
      BY FileIs DEF SenderAt
    <2>2. QED BY <2>1, FileIs, ElementOfSeq
  <1>3. Kind(k.state) \in Sending
    BY DEF Kind, Sending
  <1>4. PICK data \in Datas : data = IF k.state = "S_DATA" THEN file[k.next - 1] ELSE 0
    BY <1>1, <1>2
  <1>5. Current(k) = [type |-> Kind(k.state), seq |-> k.seq, data |-> data]
    BY <1>4 DEF Current, Packet
  <1>6. Current(k) \in Packets
    BY <1>1, <1>3, <1>5 DEF Packets
  <1>7. k.seq # Back(k.seq)
    BY <1>1, Numbers
  <1>8. QED BY <1>3, <1>4, <1>5, <1>6, <1>7 DEF Others, Stale, Sending, NoPacket

-----------------------------------------------------------------------------
(* Lines.                                                                  *)
LEMMA TailInTurn ==
  ASSUME NEW wire \in Seq(Packets), wire # <<>>, NEW B, NEW C, InTurn(wire, B, C)
  PROVE  /\ Tail(wire) \in Seq(Packets) /\ Head(wire) \in Packets
         /\ InTurn(Tail(wire), B, C)
         /\ Head(wire) \in Others \cup B \cup C
         /\ Head(wire) \in C => InTurn(Tail(wire), {}, C)
  <1>1. /\ Tail(wire) \in Seq(Packets) /\ Len(Tail(wire)) = Len(wire) - 1
        /\ \A i \in 1 .. Len(Tail(wire)) : Tail(wire)[i] = wire[i + 1]
    BY HeadTailProperties
  <1>2. Len(wire) \in Nat \ {0} /\ DOMAIN wire = 1 .. Len(wire)
        /\ DOMAIN Tail(wire) = 1 .. Len(Tail(wire))
    BY <1>1, EmptySeq, LenProperties
  <1>3. Head(wire) = wire[1]
    BY <1>2
  <1>4. PICK t : t = Tail(wire)
    OBVIOUS
  <1>5. \A i \in DOMAIN t : i \in Nat /\ i + 1 \in DOMAIN wire /\ t[i] = wire[i + 1] /\ 1 < i + 1
    BY <1>1, <1>2, <1>4
  <1>6. \A i \in DOMAIN t : t[i] \in Others \cup B \cup C
    BY <1>5 DEF InTurn
  <1>7. \A i, j \in DOMAIN t : i < j /\ t[i] \in C => t[j] \notin B
    <2>1. TAKE i \in DOMAIN t, j \in DOMAIN t
    <2>2. i < j => i + 1 < j + 1
      BY <1>5
    <2>3. QED BY <1>5, <2>2 DEF InTurn
  <1>8. InTurn(t, B, C)
    BY <1>6, <1>7 DEF InTurn
  <1>9. 1 \in DOMAIN wire
    BY <1>2
  <1>10. Head(wire) \in Others \cup B \cup C /\ Head(wire) \in Packets
    BY <1>3, <1>9, <1>2, ElementOfSeq DEF InTurn
  <1>11. ASSUME Head(wire) \in C PROVE InTurn(t, {}, C)
    <2>1. \A i \in DOMAIN t : t[i] \notin B
      BY <1>3, <1>5, <1>9, <1>11 DEF InTurn
    <2>2. QED BY <1>6, <2>1 DEF InTurn
  <1>12. QED BY <1>1, <1>4, <1>8, <1>10, <1>11

LEMMA PutInTurn ==
  ASSUME NEW wire \in Seq(Packets), NEW B, NEW C, InTurn(wire, B, C),
         NEW q \in Packets, q \in Others \cup C, q \notin B
  PROVE  /\ wire \o <<q>> \in Seq(Packets) /\ InTurn(wire \o <<q>>, B, C)
  <1>1. <<q>> \in Seq(Packets) /\ Len(<<q>>) = 1 /\ <<q>>[1] = q
    OBVIOUS
  <1>2. /\ wire \o <<q>> \in Seq(Packets) /\ Len(wire \o <<q>>) = Len(wire) + 1
        /\ \A i \in 1 .. Len(wire) + 1 :
             (wire \o <<q>>)[i] = IF i <= Len(wire) THEN wire[i] ELSE <<q>>[i - Len(wire)]
    BY <1>1, ConcatProperties
  <1>3. PICK t : t = wire \o <<q>>
    OBVIOUS
  <1>4. Len(wire) \in Nat /\ DOMAIN wire = 1 .. Len(wire) /\ DOMAIN t = 1 .. Len(wire) + 1
    BY <1>2, <1>3, LenProperties
  <1>5. \A i \in DOMAIN t : \/ i \in DOMAIN wire /\ t[i] = wire[i]
                            \/ i = Len(wire) + 1 /\ t[i] = q
    BY <1>1, <1>2, <1>3, <1>4
  <1>6. \A i \in DOMAIN t : t[i] \in Others \cup B \cup C
    BY <1>5 DEF InTurn
  <1>7. \A i, j \in DOMAIN t : i < j /\ t[i] \in C => t[j] \notin B
    <2>1. TAKE i \in DOMAIN t, j \in DOMAIN t
    <2>2. i < j /\ j \in DOMAIN wire => i \in DOMAIN wire
      BY <1>4
    <2>3. CASE t[j] = q
      BY <2>3
    <2>4. CASE j \in DOMAIN wire /\ t[j] = wire[j]
      BY <1>4, <1>5, <2>2, <2>4 DEF InTurn
    <2>5. QED BY <1>5, <2>3, <2>4
  <1>8. QED BY <1>2, <1>3, <1>6, <1>7 DEF InTurn

(* The end has nothing to say, one packet of the newer generation, or its  *)
(* last word.                                                              *)
Says(C) == {<<>>} \cup {<<q>> : q \in C \cup {e \in Packets : e.type = "E"}}

LEMMA SaysInTurn ==
  ASSUME NEW wire \in Seq(Packets), NEW B, NEW C \in SUBSET Packets, InTurn(wire, B, C),
         B \cap C = {}, B \cap Others = {}, NEW tx \in Says(C)
  PROVE  wire \o tx \in Seq(Packets) /\ InTurn(wire \o tx, B, C)
  <1>1. CASE tx = <<>>
    BY <1>1, ConcatEmptySeq
  <1>2. CASE tx # <<>>
    <2>1. PICK q \in C \cup {e \in Packets : e.type = "E"} : tx = <<q>>
      BY <1>2 DEF Says
    <2>2. q \in Packets /\ q \in Others \cup C
      BY <2>1 DEF Others
    <2>3. q \notin B
      BY <2>2
    <2>4. QED BY <2>1, <2>2, <2>3, PutInTurn
  <1>3. QED BY <1>1, <1>2

LEMMA SpoiltInTurn ==
  ASSUME NEW wire \in Seq(Packets), wire # <<>>, NEW B, NEW C, InTurn(wire, B, C),
         Others \cap (B \cup C) = {}, NEW t \in Fault(wire)
  PROVE  t \in Seq(Packets) /\ InTurn(t, B, C)
  <1>1. CASE t = Tail(wire)
    BY <1>1, TailInTurn
  <1>2. CASE t # Tail(wire)
    <2>1. PICK p \in Spoiled : t = <<p>> \o Tail(wire)
      BY <1>2 DEF Fault
    <2>2. p \in Packets /\ p \in Others
      BY <2>1, Numbers DEF Spoiled, Packet, Packets, Others, Datas
    <2>3. /\ Tail(wire) \in Seq(Packets) /\ InTurn(Tail(wire), B, C)
      BY TailInTurn
    <2>4. PICK u \in Seq(Packets) : u = Tail(wire) /\ InTurn(u, B, C)
      BY <2>3
    <2>5. /\ t \in Seq(Packets) /\ Len(t) = 1 + Len(u)
          /\ \A i \in 1 .. 1 + Len(u) : t[i] = IF i <= 1 THEN p ELSE u[i - 1]
      <3>1. <<p>> \in Seq(Packets) /\ Len(<<p>>) = 1 /\ <<p>>[1] = p
        BY <2>2
      <3>2. \A i \in 1 .. 1 + Len(u) : i <= 1 => i = 1
        OBVIOUS
      <3>3. QED BY <2>1, <2>4, <3>1, <3>2, ConcatProperties
    <2>6. Len(u) \in Nat /\ DOMAIN u = 1 .. Len(u) /\ DOMAIN t = 1 .. 1 + Len(u)
      BY <2>5, LenProperties
    <2>7. \A i \in DOMAIN t : \/ i = 1 /\ t[i] = p
                              \/ i - 1 \in DOMAIN u /\ t[i] = u[i - 1]
      <3>1. TAKE i \in DOMAIN t
      <3>2. i \in 1 .. 1 + Len(u)
        BY <2>6
      <3>3. CASE i = 1
        BY <2>5, <3>2, <3>3
      <3>4. CASE i # 1
        <4>1. i - 1 \in 1 .. Len(u)
          BY <2>6, <3>2, <3>4
        <4>2. t[i] = u[i - 1]
          BY <2>5, <2>6, <3>2, <3>4
        <4>3. QED BY <2>6, <4>1, <4>2
      <3>5. QED BY <3>3, <3>4
    <2>8. \A i \in DOMAIN t : t[i] \in Others \cup B \cup C
      BY <2>2, <2>4, <2>7 DEF InTurn
    <2>9. \A i, j \in DOMAIN t : i < j /\ t[i] \in C => t[j] \notin B
      <3>1. TAKE i \in DOMAIN t, j \in DOMAIN t
      <3>2. i < j => i - 1 < j - 1
        BY <2>6
      <3>3. QED BY <2>2, <2>4, <2>7, <3>2 DEF InTurn
    <2>10. QED BY <2>5, <2>8, <2>9 DEF InTurn
  <1>3. QED BY <1>1, <1>2

LEMMA NextGeneration ==
  ASSUME NEW wire, NEW C, NEW D, InTurn(wire, {}, C), C \cap D = {}, Others \cap D = {}
  PROVE  InTurn(wire, C, D)
  BY DEF InTurn

-----------------------------------------------------------------------------
(* The receiver's turn when what it is told is not what it waits for: its  *)
(* place and its file stay, and it says what it has said, or asks again.   *)
Answering(k) == /\ k \in Receivers /\ k.status = "X_OK"
                /\ k.out \in Answers(k.seq) \cup {NoPacket}
Stays(k, d, r) ==
  /\ r.k \in Receivers /\ r.k.seq = k.seq /\ r.k.state = k.state
  /\ r.k.status \in {"X_OK", "X_ERROR"} /\ r.dest = d
  /\ r.tx \in Says(Answers(k.seq))
  /\ Engaged(r.k) => r.k.out \in Answers(k.seq) \cup {NoPacket}

LEMMA EndPackets ==
  /\ Packet("E", 0, 0) \in Packets /\ Packet("E", 0, 0).type = "E"
  /\ \A n \in Seqs : Packet("N", n, 0) \in Packets /\ Packet("Y", n, 0) \in Packets
  /\ \A C : <<>> \in Says(C) /\ <<Packet("E", 0, 0)>> \in Says(C) /\ \A q \in C : <<q>> \in Says(C)
  <1>1. Packet("E", 0, 0) \in Packets /\ Packet("E", 0, 0).type = "E"
    BY Numbers DEF Packet, Packets, Datas
  <1>2. \A n \in Seqs : Packet("N", n, 0) \in Packets /\ Packet("Y", n, 0) \in Packets
    BY DEF Packet, Packets, Datas
  <1>3. \A C : <<>> \in Says(C) /\ <<Packet("E", 0, 0)>> \in Says(C) /\ \A q \in C : <<q>> \in Says(C)
    BY <1>1, Zenon DEF Says
  <1>4. QED BY <1>1, <1>2, <1>3

LEMMA EpktStays ==
  ASSUME NEW k \in Receivers, NEW d, NEW r, r = epkt(k, d)
  PROVE  Stays(k, d, r) /\ r.k.status = "X_ERROR"
  <1>1. PICK e \in Packets : e = Packet("E", 0, 0) /\ <<e>> \in Says(Answers(k.seq))
    BY EndPackets
  <1>2. /\ r.k = [k EXCEPT !.out = e, !.status = "X_ERROR"] /\ r.tx = <<e>> /\ r.dest = d
    BY <1>1 DEF epkt, Result, Ended, spkt
  <1>3. /\ r.k \in Receivers /\ r.k.seq = k.seq /\ r.k.state = k.state /\ r.k.status = "X_ERROR"
    BY <1>2 DEF Receivers, Engine
  <1>4. QED BY <1>1, <1>2, <1>3 DEF Stays, Engaged

LEMMA NakStays ==
  ASSUME NEW k, Answering(k), NEW d
  PROVE  Stays(k, d, nak(k, d)) /\ Stays(k, d, Naked(k, d))
         /\ Stays(k, d, [nak(k, d) EXCEPT !.k = Leaked(@)])
  <1>1. k \in Receivers /\ k.seq \in Seqs
    BY DEF Answering, Receivers
  <1>2. PICK n \in Packets : n = Packet("N", k.seq, 0)
    BY <1>1, EndPackets
  <1>3. n \in Answers(k.seq) /\ <<n>> \in Says(Answers(k.seq))
    BY <1>2, EndPackets DEF Answers
  <1>16. k.rtr + 1 \in Nat /\ k.slot + 1 \in Nat
    BY <1>1 DEF Receivers
  <1>4. PICK m : m = [k EXCEPT !.out = n, !.rtr = k.rtr + 1]
    OBVIOUS
  <1>5. /\ m \in Receivers /\ m.seq = k.seq /\ m.state = k.state /\ m.status = "X_OK" /\ m.out = n
        /\ m.slot = k.slot
    <2>1. PICK c \in Nat : c = k.rtr + 1
      BY <1>16
    <2>2. m = [k EXCEPT !.out = n, !.rtr = c]
      BY <1>4, <2>1
    <2>3. QED BY <1>1, <2>2 DEF Receivers, Answering
  <1>6. Naked(k, d) = [k |-> m, tx |-> <<n>>, dest |-> d]
    BY <1>1, <1>2, <1>4 DEF Naked, Counted, spkt, Result, Receivers
  <1>7. Stays(k, d, Naked(k, d))
    BY <1>3, <1>5, <1>6 DEF Stays
  <1>8. PICK x : /\ nak(k, d) = [k |-> x, tx |-> <<n>>, dest |-> d]
                 /\ x = m \/ x = [m EXCEPT !.status = "X_ERROR"]
    <2>1. PICK q : q = Naked(k, d)
      OBVIOUS
    <2>2. nak(k, d) = q \/ nak(k, d) = [q EXCEPT !.k = Ended(q.k, "X_ERROR")]
      BY <2>1 DEF nak
    <2>3. q = [k |-> m, tx |-> <<n>>, dest |-> d] /\ q.k = m
      BY <1>6, <2>1
    <2>4. [q EXCEPT !.k = Ended(q.k, "X_ERROR")]
            = [k |-> [m EXCEPT !.status = "X_ERROR"], tx |-> <<n>>, dest |-> d]
      BY <2>3 DEF Ended
    <2>5. QED BY <2>2, <2>3, <2>4
  <1>9. /\ x.slot = k.slot
        /\ x \in Receivers /\ x.seq = k.seq /\ x.state = k.state /\ x.status \in {"X_OK", "X_ERROR"}
        /\ x.out = n
    BY <1>5, <1>8 DEF Receivers, Engine
  <1>10. Stays(k, d, nak(k, d))
    BY <1>3, <1>8, <1>9 DEF Stays
  <1>11. PICK y : y = Leaked(x)
    OBVIOUS
  <1>12. /\ y \in Receivers /\ y.seq = k.seq /\ y.state = k.state /\ y.status \in {"X_OK", "X_ERROR"}
         /\ y.out = n
    <2>1. PICK c \in Nat : c = x.slot + 1
      BY <1>9, <1>16
    <2>2. PICK t \in {"X_OK", "X_ERROR"} : t = IF c = WSLOTS THEN "X_ERROR" ELSE x.status
      BY <1>9
    <2>3. y = [x EXCEPT !.slot = c, !.rtr = 0, !.status = t]
      BY <1>11, <2>1, <2>2 DEF Leaked
    <2>4. QED BY <1>9, <2>3 DEF Receivers, Engine
  <1>13. [nak(k, d) EXCEPT !.k = Leaked(@)] = [k |-> y, tx |-> <<n>>, dest |-> d]
    BY <1>8, <1>11
  <1>14. Stays(k, d, [nak(k, d) EXCEPT !.k = Leaked(@)])
    BY <1>3, <1>12, <1>13 DEF Stays
  <1>15. QED BY <1>7, <1>10, <1>14

LEMMA AgainStays ==
  ASSUME NEW k, Answering(k), NEW d
  PROVE  Stays(k, d, Again(k, d))
  <1>1. k \in Receivers /\ k.seq \in Seqs
    BY DEF Answering, Receivers
  <1>2. PICK m : m = Counted(k)
    OBVIOUS
  <1>3. /\ m \in Receivers /\ m.seq = k.seq /\ m.state = k.state /\ m.status = "X_OK" /\ m.out = k.out
    BY <1>1, <1>2 DEF Counted, Receivers, Answering
  <1>4. CASE Again(k, d) = epkt(m, d)
    <2>1. Stays(m, d, epkt(m, d))
      BY <1>3, EpktStays
    <2>2. QED BY <1>3, <1>4, <2>1 DEF Stays
  <1>5. CASE Again(k, d) = resend(m, d)
    <2>1. PICK tx : /\ resend(m, d) = [k |-> m, tx |-> tx, dest |-> d]
                    /\ tx = IF m.out = NoPacket THEN <<>> ELSE <<m.out>>
      BY DEF resend, Result
    <2>2. tx \in Says(Answers(k.seq))
      BY <1>3, <2>1, EndPackets DEF Answering
    <2>3. QED BY <1>3, <1>5, <2>1, <2>2 DEF Stays, Answering
  <1>6. QED BY <1>2, <1>4, <1>5 DEF Again

LEMMA ReceiverStays ==
  ASSUME NEW k, Answering(k), NEW d, NEW p \in Others \cup Stale(k.seq)
  PROVE  Stays(k, d, R_packet(k, d, p))
  <1>1. k \in Receivers /\ k.seq \in Seqs
    BY DEF Answering, Receivers
  <1>2. CASE p.type = "runt"
    BY <1>2, NakStays DEF R_packet
  <1>3. CASE p.type = "bad"
    BY <1>3, NakStays DEF R_packet
  <1>4. CASE p.type = "E"
    <2>1. PICK m : m = [k EXCEPT !.status = "X_ERROR"]
      OBVIOUS
    <2>2. R_packet(k, d, p) = [k |-> m, tx |-> <<>>, dest |-> d]
      BY <1>4, <2>1 DEF R_packet, Result, Ended
    <2>3. m \in Receivers /\ m.seq = k.seq /\ m.state = k.state /\ m.status = "X_ERROR"
      BY <1>1, <2>1 DEF Receivers, Engine
    <2>4. QED BY <2>2, <2>3, EndPackets DEF Stays, Engaged
  <1>5. CASE p \in Stale(k.seq)
    <2>1. p.type \in Sending /\ p.seq = Back(k.seq) /\ Back(k.seq) # k.seq
      BY <1>1, <1>5, Numbers DEF Stale
    <2>2. R_packet(k, d, p) = R_numbered(k, d, p)
      BY <2>1 DEF R_packet, Sending
    <2>3. R_numbered(k, d, p) = Again(k, d)
      BY <2>1 DEF R_numbered, Expected, prev, Back
    <2>4. QED BY <2>2, <2>3, AgainStays
  <1>6. QED BY <1>2, <1>3, <1>4, <1>5 DEF Others

LEMMA SilenceStays ==
  ASSUME NEW k, Answering(k), NEW d
  PROVE  Stays(k, d, R_silence(k, d))
  <1>1. k \in Receivers
    BY DEF Answering
  <1>2. CASE k.started
    BY <1>2, NakStays DEF R_silence
  <1>3. CASE ~ k.started
    <2>1. PICK m : m = [k EXCEPT !.idle = k.idle + 1,
                                 !.status = IF k.idle = IDLES THEN "X_ERROR" ELSE k.status]
      OBVIOUS
    <2>2. R_silence(k, d) = [k |-> m, tx |-> <<>>, dest |-> d]
      BY <1>3, <2>1 DEF R_silence, Result
    <2>3. /\ m \in Receivers /\ m.seq = k.seq /\ m.state = k.state /\ m.out = k.out
          /\ m.status \in {"X_OK", "X_ERROR"}
      <3>1. PICK c \in Nat : c = k.idle + 1
        BY <1>1 DEF Receivers
      <3>2. PICK t \in {"X_OK", "X_ERROR"} : t = IF k.idle = IDLES THEN "X_ERROR" ELSE k.status
        BY DEF Answering
      <3>3. m = [k EXCEPT !.idle = c, !.status = t]
        BY <2>1, <3>1, <3>2
      <3>4. QED BY <1>1, <3>3 DEF Receivers, Engine
    <2>4. QED BY <2>2, <2>3, EndPackets DEF Stays, Answering
  <1>4. QED BY <1>2, <1>3

-----------------------------------------------------------------------------
(* The receiver's file.                                                    *)
LEMMA Lengthened ==
  ASSUME NEW S, NEW t \in Seq(S), NEW o \in Seq(S), NEW b \in S
  PROVE  t \o Append(o, b) = (t \o o) \o <<b>>
  <1>1. PICK z \in Seq(S) : z = <<b>>
    <2>1. <<b>> \in Seq(S)
      OBVIOUS
    <2>2. QED BY <2>1, Zenon
  <1>2. Append(o, b) = o \o z
    BY <1>1, AppendIsConcat, Zenon
  <1>3. (t \o o) \o z = t \o (o \o z)
    BY ConcatAssociative
  <1>4. t \o Append(o, b) = t \o (o \o z)
    BY <1>2, Zenon
  <1>5. (t \o o) \o <<b>> = (t \o o) \o z
    BY <1>1, Zenon
  <1>6. QED BY <1>3, <1>4, <1>5, Zenon

LEMMA HoldsMore ==
  ASSUME file \in FILES, NEW d \in Dests, NEW n \in 0 .. Len(file) - 1, Holds(d, n),
         NEW e, e = Deposited(d, file[n + 1])
  PROVE  /\ e \in Dests /\ Holds(e, n + 1)
         /\ e.room = d.room /\ e.text = d.text /\ Len(e.obuf) = Len(d.obuf) + 1
  <1>1. file \in Seq(Datas) /\ Len(file) \in Nat
    BY FileIs
  <1>2. PICK b \in Datas : b = file[n + 1]
    BY <1>1, ElementOfSeq
  <1>3. d.text \in Seq(Datas) /\ d.obuf \in Seq(Datas) /\ <<b>> \in Seq(Datas)
    BY DEF Dests
  <1>4. PICK o \in Seq(Datas) : /\ o = Append(d.obuf, b) /\ o = d.obuf \o <<b>>
                                /\ Len(o) = Len(d.obuf) + 1
    <2>1. Append(d.obuf, b) \in Seq(Datas) /\ Len(Append(d.obuf, b)) = Len(d.obuf) + 1
      BY <1>3, AppendProperties
    <2>2. Append(d.obuf, b) = d.obuf \o <<b>>
      BY <1>3, AppendIsConcat, Zenon
    <2>3. QED BY <2>1, <2>2, Zenon
  <1>5. e = [d EXCEPT !.obuf = o]
    BY <1>2, <1>4 DEF Deposited
  <1>6. e \in Dests /\ e.obuf = o /\ e.text = d.text /\ e.room = d.room
    BY <1>5 DEF Dests
  <1>7. d.text \o o = (d.text \o d.obuf) \o <<b>>
    <2>1. PICK x \in Seq(Datas), y \in Seq(Datas) : x = d.text /\ y = d.obuf
      BY <1>3
    <2>2. x \o Append(y, b) = (x \o y) \o <<b>>
      BY Lengthened
    <2>3. o = Append(y, b)
      BY <1>4, <2>1, Zenon
    <2>4. QED BY <2>1, <2>2, <2>3, Zenon
  <1>8. SubSeq(file, 1, n + 1) = SubSeq(file, 1, n) \o <<b>>
    <2>1. 1 \in 1 .. Len(file) /\ n + 1 \in 1 .. Len(file) /\ (n + 1) - 1 = n
      BY <1>1
    <2>2. QED BY <1>1, <1>2, <2>1, SubSeqRecursiveSecond
  <1>9. QED BY <1>4, <1>6, <1>7, <1>8 DEF Holds

LEMMA WrittenIs ==
  ASSUME file \in FILES, NEW d \in Dests, NEW n \in 0 .. Len(file), Holds(d, n),
         NEW w, w = writef(d)
  PROVE  /\ w \in Dests /\ w.room = d.room /\ Got(w)
         /\ HasRoom(d) => Holds(w, n) /\ w.text = SubSeq(file, 1, n)
         /\ ~ HasRoom(d) => d.room < n
  <1>1. file \in Seq(Datas) /\ Len(file) \in Nat
    BY FileIs
  <1>2. d.text \in Seq(Datas) /\ d.obuf \in Seq(Datas) /\ d.room \in Nat /\ <<>> \in Seq(Datas)
    BY DEF Dests
  <1>3. PICK all : all = SubSeq(file, 1, n)
    OBVIOUS
  <1>4. all \in Seq(Datas) /\ Len(all) = n
    <2>1. \A i \in 1 .. n : file[i] \in Datas
      BY <1>1, ElementOfSeq
    <2>2. QED BY <1>1, <1>3, <2>1, SubSeqProperties
  <1>5. d.text \o d.obuf = all /\ Len(d.text) + Len(d.obuf) = n
    BY <1>2, <1>3, <1>4, ConcatProperties DEF Holds
  <1>6. PICK t : t = IF HasRoom(d) THEN all ELSE SubSeq(all, 1, d.room)
    OBVIOUS
  <1>7. w = [d EXCEPT !.obuf = <<>>, !.text = t]
    BY <1>5, <1>6 DEF writef
  <1>8. ASSUME ~ HasRoom(d)
        PROVE  /\ d.room < n
               /\ t = SubSeq(file, 1, d.room) /\ t \in Seq(Datas)
    <2>1. d.room < n
      <3>1. Len(d.text) \in Nat /\ Len(d.obuf) \in Nat
        BY <1>2, LenProperties
      <3>2. PICK x \in Nat : x = Len(d.text)
        BY <3>1
      <3>3. PICK y \in Nat : y = Len(d.obuf)
        BY <3>1
      <3>4. PICK z \in Nat : z = d.room
        BY <1>2
      <3>5. ~ (x + y <= z)
        BY <1>8, <3>2, <3>3, <3>4 DEF HasRoom
      <3>6. x + y = n
        BY <1>5, <3>2, <3>3
      <3>7. z < x + y
        BY <3>5
      <3>8. QED BY <3>4, <3>6, <3>7
    <2>2. t = SubSeq(file, 1, d.room)
      <3>1. CASE d.room = 0
        BY <1>6, <1>8, <3>1, SubSeqEmpty
      <3>2. CASE d.room # 0
        <4>1. /\ 1 \in 1 .. Len(file) /\ n \in 1 .. Len(file)
              /\ 1 \in 1 .. n - 1 + 1 /\ d.room \in 1 .. n - 1 + 1
              /\ 1 + 1 - 1 = 1 /\ 1 + d.room - 1 = d.room
          BY <1>1, <1>2, <2>1, <3>2
        <4>2. SubSeq(SubSeq(file, 1, n), 1, d.room) = SubSeq(file, 1 + 1 - 1, 1 + d.room - 1)
          BY <1>1, <4>1, SubSeqOfSubSeq
        <4>3. QED BY <1>3, <1>6, <1>8, <4>1, <4>2
      <3>3. QED BY <3>1, <3>2
    <2>3. t \in Seq(Datas)
      <3>1. \A i \in 1 .. d.room : file[i] \in Datas
        BY <1>1, <1>2, <2>1, ElementOfSeq
      <3>2. QED BY <1>1, <1>2, <2>2, <3>1, SubSeqProperties
    <2>4. QED BY <2>1, <2>2, <2>3
  <1>9. t \in Seq(Datas)
    BY <1>4, <1>6, <1>8
  <1>10. w \in Dests /\ w.text = t /\ w.obuf = <<>> /\ w.room = d.room
    BY <1>2, <1>7, <1>9 DEF Dests
  <1>11. w.text \o w.obuf = t
    BY <1>9, <1>10, ConcatEmptySeq
  <1>12. HasRoom(d) => Holds(w, n) /\ w.text = SubSeq(file, 1, n)
    BY <1>3, <1>6, <1>10, <1>11 DEF Holds
  <1>13. ~ HasRoom(d) => Holds(w, d.room) /\ d.room \in 0 .. Len(file)
    BY <1>1, <1>2, <1>8, <1>11 DEF Holds
  <1>14. Got(w)
    BY <1>12, <1>13 DEF Got
  <1>15. QED BY <1>8, <1>10, <1>12, <1>14

LEMMA OpenedIs ==
  ASSUME file \in FILES, NEW d \in Dests, NEW o, o = openfile(d)
  PROVE  o \in Dests /\ Holds(o, 0) /\ Got(o) /\ o.room = d.room
  <1>1. o = [d EXCEPT !.text = <<>>, !.obuf = <<>>, !.closed = FALSE] /\ <<>> \in Seq(Datas)
    BY DEF openfile
  <1>2. o \in Dests /\ o.text = <<>> /\ o.obuf = <<>> /\ o.room = d.room
    BY <1>1 DEF Dests
  <1>3. Holds(o, 0)
    <2>1. <<>> \o <<>> = <<>>
      BY <1>1, ConcatEmptySeq
    <2>2. SubSeq(file, 1, 0) = <<>>
      BY SubSeqEmpty
    <2>3. QED BY <1>2, <2>1, <2>2 DEF Holds
  <1>4. QED BY <1>2, <1>3, FileIs DEF Got

LEMMA FlushedIs ==
  ASSUME file \in FILES, NEW d \in Dests, NEW n \in 0 .. Len(file), Holds(d, n),
         NEW e, e = Flushed(d)
  PROVE  e \in Dests /\ Got(e) /\ (n = Len(file) => Delivered(e))
  <1>1. PICK w : w = writef(d)
    OBVIOUS
  <1>2. /\ w \in Dests /\ w.room = d.room /\ Got(w)
        /\ HasRoom(d) => w.text = SubSeq(file, 1, n)
        /\ ~ HasRoom(d) => d.room < n
    BY <1>1, WrittenIs
  <1>3. e = [w EXCEPT !.closed = TRUE]
    BY <1>1 DEF Flushed
  <1>4. e \in Dests /\ e.closed /\ e.text = w.text /\ e.obuf = w.obuf /\ e.room = w.room
    BY <1>2, <1>3 DEF Dests
  <1>5. Got(e)
    BY <1>2, <1>4 DEF Got, Holds
  <1>6. n = Len(file) => Delivered(e)
    BY <1>2, <1>4, FileIs, SubSeqFull DEF Delivered
  <1>7. QED BY <1>4, <1>5, <1>6
-----------------------------------------------------------------------------
(* The receiver's turn when it is told what it waits for.                  *)
Acks(k, d, r) ==
  /\ r.k \in Receivers /\ r.k.seq = After(k.seq) /\ r.k.state = k.state
  /\ r.k.out = Packet("Y", k.seq, 0) /\ r.tx = <<Packet("Y", k.seq, 0)>> /\ r.dest = d

LEMMA AckIs ==
  ASSUME NEW k \in Receivers, NEW d
  PROVE  /\ Acks(k, d, ack(k, d)) /\ ack(k, d).k.status = k.status
         /\ \A t \in Engine : Acks(k, d, Stop(ack(k, d), t)) /\ Stop(ack(k, d), t).k.status = t
  <1>1. k.seq \in Seqs /\ After(k.seq) \in Seqs
    BY Numbers DEF Receivers
  <1>2. PICK y \in Packets : y = Packet("Y", k.seq, 0)
    BY <1>1, EndPackets
  <1>3. PICK m : m = [k EXCEPT !.out = y, !.seq = After(k.seq)]
    OBVIOUS
  <1>4. /\ m \in Receivers /\ m.seq = After(k.seq) /\ m.state = k.state /\ m.out = y
        /\ m.status = k.status
    BY <1>1, <1>3 DEF Receivers
  <1>5. ack(k, d) = [k |-> m, tx |-> <<y>>, dest |-> d]
    BY <1>2, <1>3 DEF ack, spkt, Result
  <1>6. Acks(k, d, ack(k, d)) /\ ack(k, d).k.status = k.status
    BY <1>2, <1>4, <1>5 DEF Acks
  <1>7. ASSUME NEW t \in Engine
        PROVE  Acks(k, d, Stop(ack(k, d), t)) /\ Stop(ack(k, d), t).k.status = t
    <2>1. PICK x : x = [m EXCEPT !.status = t]
      OBVIOUS
    <2>2. Stop(ack(k, d), t) = [k |-> x, tx |-> <<y>>, dest |-> d]
      BY <1>5, <2>1 DEF Stop, Ended
    <2>3. /\ x \in Receivers /\ x.seq = After(k.seq) /\ x.state = k.state /\ x.out = y
          /\ x.status = t
      BY <1>4, <2>1 DEF Receivers
    <2>4. QED BY <1>2, <2>2, <2>3 DEF Acks
  <1>8. QED BY <1>6, <1>7

LEMMA DecodeIs ==
  ASSUME file \in FILES, NEW k \in Receivers, NEW d \in Dests,
         NEW n \in 0 .. Len(file) - 1, Holds(d, n), NEW r, r = decode(k, d, file[n + 1])
  PROVE  /\ r.dest \in Dests /\ Got(r.dest)
         /\ \/ Acks(k, r.dest, r) /\ r.k.status = k.status /\ Holds(r.dest, n + 1)
            \/ r = epkt(k, r.dest)
  <1>1. PICK e : e = Deposited(d, file[n + 1])
    OBVIOUS
  <1>2. e \in Dests /\ Holds(e, n + 1)
    BY <1>1, HoldsMore
  <1>3. n + 1 \in 0 .. Len(file)
    BY FileIs
  <1>4. Got(e)
    BY <1>2, <1>3 DEF Got
  <1>5. CASE r = ack(k, e)
    <2>1. Acks(k, e, r) /\ r.k.status = k.status
      BY <1>5, AckIs
    <2>2. QED BY <1>2, <1>4, <2>1 DEF Acks
  <1>6. PICK w : w = writef(e)
    OBVIOUS
  <1>7. w \in Dests /\ Got(w) /\ (HasRoom(e) => Holds(w, n + 1))
    BY <1>2, <1>3, <1>6, WrittenIs
  <1>8. CASE HasRoom(e) /\ r = ack(k, w)
    <2>1. Acks(k, w, r) /\ r.k.status = k.status
      BY <1>8, AckIs
    <2>2. QED BY <1>7, <1>8, <2>1 DEF Acks
  <1>9. CASE r = epkt(k, w)
    <2>1. r.dest = w
      BY <1>9 DEF epkt, Result
    <2>2. QED BY <1>7, <1>9, <2>1
  <1>10. QED BY <1>1, <1>5, <1>6, <1>8, <1>9 DEF decode

(* What the receiver makes of the packet the sender s is at.               *)
Takes(s, k, r) ==
  /\ r.k \in Receivers /\ r.dest \in Dests /\ Got(r.dest)
  /\ \/ r.k.seq = k.seq /\ r.k.status = "X_ERROR" /\ r.tx \in Says({})
     \/ /\ r.k.seq = After(k.seq) /\ r.k.out = Packet("Y", k.seq, 0)
        /\ r.tx = <<Packet("Y", k.seq, 0)>>
        /\ Engaged(r.k) => Advanced(s, r.k, r.dest)
        /\ s.state = "S_EOT" => r.k.status = "X_DONE" /\ Delivered(r.dest)

LEMMA RefusalTakes ==
  ASSUME NEW s, NEW k \in Receivers, NEW m \in Receivers, m.seq = k.seq,
         NEW d \in Dests, Got(d), NEW r, r = epkt(m, d)
  PROVE  Takes(s, k, r)
  <1>1. Stays(m, d, r) /\ r.k.status = "X_ERROR"
    BY EpktStays
  <1>2. r.tx = <<Packet("E", 0, 0)>>
    BY DEF epkt, Result
  <1>3. QED BY <1>1, <1>2, EndPackets DEF Stays, Takes

LEMMA ReceiverTakes ==
  ASSUME file \in FILES, NEW s \in Senders, SenderAt(s), NEW k, Answering(k),
         NEW d \in Dests, Got(d), k.seq = s.seq, Awaiting(s, k, d),
         NEW r, r = R_packet(k, d, Current(s))
  PROVE  Takes(s, k, r)
  <1>1. k \in Receivers /\ k.status = "X_OK"
    BY DEF Answering
  <1>2. PICK p \in Packets : p = Current(s)
    BY CurrentIs
  <1>3. /\ p.type = Kind(s.state) /\ p.seq = k.seq /\ p.type \in Sending
        /\ s.state = "S_DATA" => p.data = file[s.next - 1]
    BY <1>2, CurrentIs
  <1>4. PICK m : m = [k EXCEPT !.rtr = 0]
    OBVIOUS
  <1>5. m \in Receivers /\ m.seq = k.seq /\ m.state = k.state /\ m.status = "X_OK"
    BY <1>1, <1>4 DEF Receivers
  <1>6. r = R_expected(m, d, p)
    <2>1. r = R_numbered(k, d, p)
      BY <1>2, <1>3 DEF R_packet, Sending
    <2>2. QED BY <1>3, <1>4, <2>1 DEF R_numbered, Expected
  <1>7. \A state \in {"R_WAIT", "R_FILE", "R_ATTR", "R_DATA"} :
          /\ In(m, state) \in Receivers /\ In(m, state).seq = k.seq
          /\ In(m, state).state = state /\ In(m, state).status = "X_OK"
    BY <1>5 DEF In, Receivers
  <1>8. CASE s.state = "S_INIT"
    <2>1. k.state = "R_WAIT" /\ p.type = "S"
      BY <1>3, <1>8 DEF Awaiting, Kind
    <2>2. r = ack(In(m, "R_FILE"), d)
      BY <1>5, <1>6, <2>1 DEF R_expected
    <2>3. Acks(In(m, "R_FILE"), d, r) /\ r.k.status = "X_OK"
      BY <1>7, <2>2, AckIs
    <2>4. QED BY <1>7, <1>8, <2>3 DEF Acks, Takes, Advanced
  <1>9. CASE s.state = "S_FILE"
    <2>1. k.state = "R_FILE" /\ p.type = "F"
      BY <1>3, <1>9 DEF Awaiting, Kind
    <2>2. r = ack(In(m, "R_ATTR"), d)
      BY <1>5, <1>6, <2>1 DEF R_expected
    <2>3. Acks(In(m, "R_ATTR"), d, r) /\ r.k.status = "X_OK"
      BY <1>7, <2>2, AckIs
    <2>4. QED BY <1>7, <1>9, <2>3 DEF Acks, Takes, Advanced
  <1>10. CASE s.state = "S_ATTR"
    <2>1. k.state = "R_ATTR" /\ p.type = "A"
      BY <1>3, <1>10 DEF Awaiting, Kind
    <2>2. r = ack(m, d)
      BY <1>5, <1>6, <2>1 DEF R_expected
    <2>3. Acks(m, d, r) /\ r.k.status = "X_OK"
      BY <1>5, <2>2, AckIs
    <2>4. QED BY <1>5, <1>10, <2>1, <2>3 DEF Acks, Takes, Advanced
  <1>11. CASE s.state = "S_DATA"
    <2>1. p.type = "D" /\ s.next \in 2 .. Len(file) + 1 /\ p.data = file[s.next - 1]
      BY <1>3, <1>11 DEF Kind, SenderAt
    <2>2. PICK n : n = s.next - 2
      OBVIOUS
    <2>3. n \in 0 .. Len(file) - 1 /\ n + 1 = s.next - 1 /\ p.data = file[n + 1]
      BY <2>1, <2>2, FileIs
    <2>4. ASSUME NEW x \in Receivers, x.seq = k.seq, x.state = "R_DATA", x.status = "X_OK",
                 NEW c \in Dests, Holds(c, n), r = decode(x, c, p.data)
          PROVE  Takes(s, k, r)
      <3>1. /\ r.dest \in Dests /\ Got(r.dest)
            /\ \/ Acks(x, r.dest, r) /\ r.k.status = x.status /\ Holds(r.dest, n + 1)
               \/ r = epkt(x, r.dest)
        BY <2>3, <2>4, DecodeIs
      <3>2. CASE r = epkt(x, r.dest)
        BY <1>1, <2>4, <3>1, <3>2, RefusalTakes
      <3>3. CASE Acks(x, r.dest, r) /\ Holds(r.dest, n + 1)
        BY <1>11, <2>3, <2>4, <3>1, <3>3 DEF Acks, Takes, Advanced
      <3>4. QED BY <3>1, <3>2, <3>3
    <2>5. CASE k.state = "R_ATTR" /\ d.room = 0
      <3>1. r = epkt(m, d)
        BY <1>5, <1>6, <2>1, <2>5 DEF R_expected
      <3>2. QED BY <1>1, <1>5, <3>1, RefusalTakes
    <2>6. CASE k.state = "R_ATTR" /\ s.next = 2 /\ d.room # 0
      <3>1. d.room > 0
        BY <2>6 DEF Dests
      <3>2. r = decode(In(m, "R_DATA"), openfile(d), p.data)
        BY <1>5, <1>6, <2>1, <2>6, <3>1 DEF R_expected
      <3>3. n = 0
        BY <2>2, <2>6
      <3>4. openfile(d) \in Dests /\ Holds(openfile(d), n)
        BY <3>3, OpenedIs
      <3>5. QED BY <1>7, <2>4, <3>2, <3>4
    <2>7. CASE k.state = "R_DATA" /\ Holds(d, s.next - 2)
      <3>1. r = decode(m, d, p.data)
        BY <1>5, <1>6, <2>1, <2>7 DEF R_expected
      <3>2. QED BY <1>5, <2>2, <2>4, <2>7, <3>1
    <2>8. QED BY <1>11, <2>5, <2>6, <2>7 DEF Awaiting
  <1>12. CASE s.state = "S_EOF"
    <2>1. p.type = "Z"
      BY <1>3, <1>12 DEF Kind
    <2>2. CASE k.state = "R_ATTR" /\ d.room = 0
      <3>1. r = epkt(m, d)
        BY <1>5, <1>6, <2>1, <2>2 DEF R_expected
      <3>2. QED BY <1>1, <1>5, <3>1, RefusalTakes
    <2>3. CASE k.state = "R_ATTR" /\ d.room # 0
      <3>1. d.room > 0
        BY <2>3 DEF Dests
      <3>2. PICK o : o = openfile(d)
        OBVIOUS
      <3>3. o \in Dests /\ Holds(o, 0) /\ 0 \in 0 .. Len(file)
        BY <3>2, OpenedIs, FileIs
      <3>4. PICK e : e = Flushed(o)
        OBVIOUS
      <3>5. e \in Dests /\ Got(e)
        BY <3>3, <3>4, FlushedIs
      <3>6. r = Stop(ack(In(m, "R_FILE"), e), "X_ERROR")
        BY <1>5, <1>6, <2>1, <2>3, <3>1, <3>2, <3>4 DEF R_expected
      <3>7. Acks(In(m, "R_FILE"), e, r) /\ r.k.status = "X_ERROR"
        BY <1>7, <3>6, AckIs DEF Engine
      <3>8. QED BY <1>7, <1>12, <3>5, <3>7 DEF Acks, Takes, Engaged
    <2>4. CASE k.state = "R_DATA" /\ Holds(d, Len(file))
      <3>1. PICK e : e = Flushed(d)
        OBVIOUS
      <3>2. e \in Dests /\ Got(e) /\ Delivered(e)
        BY <2>4, <3>1, FlushedIs, FileIs
      <3>3. r = ack(In(m, "R_FILE"), e)
        BY <1>5, <1>6, <2>1, <2>4, <3>1 DEF R_expected
      <3>4. Acks(In(m, "R_FILE"), e, r) /\ r.k.status = "X_OK"
        BY <1>7, <3>3, AckIs
      <3>5. QED BY <1>7, <1>12, <3>2, <3>4 DEF Acks, Takes, Advanced
    <2>5. QED BY <1>12, <2>2, <2>3, <2>4 DEF Awaiting
  <1>13. CASE s.state = "S_EOT"
    <2>1. k.state = "R_FILE" /\ p.type = "B" /\ Delivered(d)
      BY <1>3, <1>13 DEF Awaiting, Kind
    <2>2. r = Stop(ack(m, d), "X_DONE")
      BY <1>5, <1>6, <2>1 DEF R_expected
    <2>3. Acks(m, d, r) /\ r.k.status = "X_DONE"
      BY <1>5, <2>2, AckIs DEF Engine
    <2>4. QED BY <1>5, <2>1, <2>3 DEF Acks, Takes, Engaged
  <1>14. QED BY <1>8, <1>9, <1>10, <1>11, <1>12, <1>13 DEF Senders
-----------------------------------------------------------------------------
(* The sender's turn when it is not told that its packet has come: it says *)
(* it again, or ends.                                                      *)
Asking(k) == /\ k \in Senders /\ SenderAt(k) /\ k.status = "X_OK" /\ k.out = Current(k)
Repeats(k, r) ==
  /\ r.k \in Senders /\ SenderAt(r.k) /\ r.k.seq = k.seq /\ r.k.state = k.state
  /\ r.k.next = k.next
  /\ Current(r.k) = Current(k) /\ r.k.status \in {"X_OK", "X_ERROR"}
  /\ r.tx \in Says({Current(k)})
  /\ Engaged(r.k) => r.k.out = Current(r.k)

(* Nothing of the sender that its packet is made of has changed.           *)
Alike(k, m) ==
  /\ m \in Senders /\ m.seq = k.seq /\ m.state = k.state /\ m.next = k.next
  /\ m.left = k.left /\ m.found = k.found /\ m.at = k.at

LEMMA AlikeRepeats ==
  ASSUME NEW k, Asking(k), NEW m, Alike(k, m), m.status \in {"X_OK", "X_ERROR"},
         m.out = k.out \/ m.status = "X_ERROR",
         NEW tx \in Says({Current(k)}), NEW d, NEW r, r = [k |-> m, tx |-> tx, dest |-> d]
  PROVE  Repeats(k, r)
  <1>1. SenderAt(m)
    BY DEF SenderAt, Asking, Alike
  <1>2. Current(m) = Current(k)
    BY DEF Current, Alike
  <1>3. QED BY <1>1, <1>2 DEF Asking, Alike, Repeats, Engaged

LEMMA ResendRepeats ==
  ASSUME file \in FILES, NEW k, Asking(k), NEW m, Alike(k, m), m.status = "X_OK", m.out = k.out
  PROVE  /\ Repeats(k, resend(m, dest)) /\ Repeats(k, epkt(m, dest))
         /\ Repeats(k, [resend(m, dest) EXCEPT !.k = Leaked(@)])
  <1>1. k \in Senders /\ SenderAt(k) /\ k.out = Current(k)
    BY DEF Asking
  <1>2. PICK c \in Packets : c = Current(k) /\ c # NoPacket
    BY <1>1, CurrentIs
  <1>3. resend(m, dest) = [k |-> m, tx |-> <<c>>, dest |-> dest] /\ <<c>> \in Says({Current(k)})
    BY <1>1, <1>2, EndPackets DEF resend, Result
  <1>4. Repeats(k, resend(m, dest))
    BY <1>3, AlikeRepeats
  <1>5. PICK e \in Packets : e = Packet("E", 0, 0) /\ <<e>> \in Says({Current(k)})
    BY EndPackets
  <1>6. Repeats(k, epkt(m, dest))
    <2>1. PICK x : x = [m EXCEPT !.out = e, !.status = "X_ERROR"]
      OBVIOUS
    <2>2. epkt(m, dest) = [k |-> x, tx |-> <<e>>, dest |-> dest]
      BY <1>5, <2>1 DEF epkt, Result, Ended, spkt
    <2>3. Alike(k, x) /\ x.status = "X_ERROR"
      BY <2>1 DEF Alike, Senders, Engine
    <2>4. QED BY <1>5, <2>2, <2>3, AlikeRepeats
  <1>7. Repeats(k, [resend(m, dest) EXCEPT !.k = Leaked(@)])
    <2>1. PICK x : x = Leaked(m)
      OBVIOUS
    <2>2. Alike(k, x) /\ x.status \in {"X_OK", "X_ERROR"} /\ x.out = k.out
      <3>1. PICK n \in Nat : n = m.slot + 1
        BY DEF Alike, Senders
      <3>2. PICK t \in {"X_OK", "X_ERROR"} : t = IF n = WSLOTS THEN "X_ERROR" ELSE m.status
        OBVIOUS
      <3>3. x = [m EXCEPT !.slot = n, !.rtr = 0, !.status = t]
        BY <2>1, <3>1, <3>2 DEF Leaked
      <3>4. QED BY <3>3 DEF Alike, Senders, Engine
    <2>3. [resend(m, dest) EXCEPT !.k = Leaked(@)] = [k |-> x, tx |-> <<c>>, dest |-> dest]
      BY <1>3, <2>1
    <2>4. QED BY <1>3, <2>2, <2>3, AlikeRepeats
  <1>8. QED BY <1>4, <1>6, <1>7

LEMMA AskingAlike == ASSUME NEW k, Asking(k)
                     PROVE  /\ Alike(k, k) /\ Alike(k, [k EXCEPT !.rtr = 0])
                            /\ \A n \in Nat : Alike(k, [k EXCEPT !.rtr = n])
  BY DEF Asking, Alike, Senders

LEMMA SenderRepeats ==
  ASSUME file \in FILES, NEW k, Asking(k), NEW n \in Seqs, n = k.seq,
         NEW p \in Others \cup Answers(n) \cup Answers(After(n)), p # Packet("Y", n, 0)
  PROVE  Repeats(k, S_packet(k, p))
  <1>1. k.status = "X_OK" /\ k \in Senders
    BY DEF Asking
  <1>2. CASE p.type = "runt"
    BY <1>1, <1>2, ResendRepeats, AskingAlike DEF S_packet
  <1>3. CASE p.type = "bad"
    BY <1>1, <1>3, ResendRepeats, AskingAlike DEF S_packet
  <1>4. CASE p.type = "E"
    <2>1. PICK m : m = [k EXCEPT !.status = "X_ERROR"]
      OBVIOUS
    <2>2. S_packet(k, p) = [k |-> m, tx |-> <<>>, dest |-> dest]
      BY <1>4, <2>1 DEF S_packet, Result, Ended
    <2>3. Alike(k, m) /\ m.status = "X_ERROR"
      BY <1>1, <2>1 DEF Alike, Senders, Engine
    <2>4. QED BY <2>2, <2>3, EndPackets, AlikeRepeats
  <1>5. CASE p.type \in {"Y", "N"}
    <2>1. S_packet(k, p) = S_numbered(k, p)
      BY <1>5 DEF S_packet
    <2>2. CASE p.seq = n
      <3>1. p.type # "Y"
        <4>1. p = Packet("Y", Back(n), 0) \/ p = Packet("Y", Back(After(n)), 0) \/ p.type = "N"
          BY <1>5 DEF Answers, Others, Packet
        <4>2. Back(n) # n /\ Back(After(n)) = n
          BY Numbers
        <4>3. QED BY <2>2, <4>1, <4>2 DEF Packet
      <3>2. PICK m : m = [k EXCEPT !.rtr = 0]
        OBVIOUS
      <3>3. Alike(k, m) /\ m.status = "X_OK" /\ m.out = k.out
        BY <1>1, <3>2, AskingAlike DEF Senders
      <3>4. S_numbered(k, p) = resend(m, dest)
        BY <2>2, <3>1, <3>2 DEF S_numbered, Expected
      <3>5. QED BY <2>1, <3>3, <3>4, ResendRepeats
    <2>3. CASE S_numbered(k, p) = resend(k, dest)
      BY <1>1, <2>1, <2>3, AskingAlike, ResendRepeats
    <2>4. CASE S_numbered(k, p) = Again(k, dest)
      <3>1. PICK c \in Nat : c = k.rtr + 1
        BY <1>1 DEF Senders
      <3>2. PICK m : m = [k EXCEPT !.rtr = c]
        OBVIOUS
      <3>3. Alike(k, m) /\ m.status = "X_OK" /\ m.out = k.out
        BY <1>1, <3>2, AskingAlike DEF Senders
      <3>4. Again(k, dest) \in {epkt(m, dest), resend(m, dest)}
        BY <3>1, <3>2 DEF Again, Counted
      <3>5. QED BY <2>1, <2>4, <3>3, <3>4, ResendRepeats
    <2>5. QED BY <2>2, <2>3, <2>4 DEF S_numbered, Expected
  <1>6. QED BY <1>2, <1>3, <1>4, <1>5 DEF Others, Answers, Packet

-----------------------------------------------------------------------------
(* The sender's turn when its packet has come.                             *)
Moves(k, r) ==
  \/ Repeats(k, r) /\ r.k.status = "X_ERROR" /\ r.tx = <<>>
  \/ /\ k.state = "S_EOT" /\ Alike(k, r.k) /\ r.k.status = "X_DONE" /\ r.tx = <<>>
  \/ /\ r.k \in Senders /\ SenderAt(r.k) /\ r.k.seq = After(k.seq) /\ r.k.status = "X_OK"
     /\ r.k.out = Current(r.k) /\ r.tx = <<Current(r.k)>>
     /\ \A q, d : Advanced(k, q, d) => Awaiting(r.k, q, d)

(* What Sent leaves, whatever the packet.                                  *)
SentAs(k, r, type, data) ==
  /\ r.k \in Senders /\ r.k.seq = After(k.seq) /\ r.k.state = k.state /\ r.k.next = k.next
  /\ r.k.left = k.left /\ r.k.status = k.status
  /\ r.k.out = Packet(type, After(k.seq), data) /\ r.tx = <<Packet(type, After(k.seq), data)>>

LEMMA SentIs ==
  ASSUME NEW k \in Senders, NEW type \in Sending, NEW data \in Datas
  PROVE  SentAs(k, Sent(k, type, data), type, data)
  <1>1. k.seq \in Seqs /\ After(k.seq) \in Seqs
    BY Numbers DEF Senders
  <1>2. PICK p \in Packets : p = Packet(type, After(k.seq), data) /\ p.seq = After(k.seq)
    <2>1. PICK q : q = [type |-> type, seq |-> After(k.seq), data |-> data]
      OBVIOUS
    <2>2. q \in Packets /\ q.seq = After(k.seq)
      BY <1>1, <2>1 DEF Packets
    <2>3. QED BY <2>1, <2>2 DEF Packet
  <1>3. PICK m : m = [k EXCEPT !.out = p, !.seq = After(k.seq)]
    OBVIOUS
  <1>4. Sent(k, type, data) = [k |-> m, tx |-> <<p>>, dest |-> dest]
    BY <1>2, <1>3 DEF Sent, spkt, Result
  <1>5. /\ m \in Senders /\ m.seq = After(k.seq) /\ m.state = k.state /\ m.next = k.next
        /\ m.left = k.left /\ m.status = k.status /\ m.out = p
    BY <1>1, <1>3 DEF Senders
  <1>6. QED BY <1>2, <1>4, <1>5 DEF SentAs

LEMMA SdataMoves ==
  ASSUME file \in FILES, NEW k \in Senders, k.left = FALSE, k.status = "X_OK",
         k.next \in 1 .. Len(file) + 1, NEW r, r = sdata(k)
  PROVE  /\ r.k \in Senders /\ SenderAt(r.k) /\ r.k.seq = After(k.seq) /\ r.k.status = "X_OK"
         /\ r.k.out = Current(r.k) /\ r.tx = <<Current(r.k)>>
         /\ \/ r.k.state = "S_EOF" /\ k.next = Len(file) + 1
            \/ r.k.state = "S_DATA" /\ r.k.next = k.next + 1
  <1>1. file \in Seq(Datas) /\ Len(file) \in Nat
    BY FileIs
  <1>2. PICK n \in Nat : n = k.next /\ n \in 1 .. Len(file) + 1
    BY <1>1
  <1>3. CASE n > Len(file)
    <2>1. PICK m : m = In(k, "S_EOF")
      OBVIOUS
    <2>2. m \in Senders /\ m.seq = k.seq /\ m.state = "S_EOF" /\ m.next = n /\ m.left = FALSE /\ m.status = "X_OK"
      BY <1>2, <2>1 DEF In, Senders
    <2>3. r = Sent(m, "Z", 0)
      BY <1>2, <1>3, <2>1 DEF sdata
    <2>4. SentAs(m, r, "Z", 0)
      BY <2>2, <2>3, SentIs DEF Sending, Datas
    <2>5. n = Len(file) + 1
      BY <1>1, <1>2, <1>3
    <2>6. Current(r.k) = Packet("Z", After(k.seq), 0)
      BY <2>2, <2>4 DEF Current, Kind, SentAs
    <2>7. QED BY <1>2, <2>2, <2>4, <2>5, <2>6 DEF SentAs, SenderAt
  <1>4. CASE ~ (n > Len(file))
    <2>1. n \in 1 .. Len(file) /\ n + 1 \in 2 .. Len(file) + 1 /\ n + 1 \in Nat /\ (n + 1) - 1 = n
      BY <1>1, <1>2, <1>4
    <2>2. PICK b \in Datas : b = file[n]
      BY <1>1, <2>1, ElementOfSeq
    <2>3. PICK c \in Nat : c = n + 1 /\ c - 1 = n
      BY <2>1
    <2>4. PICK m : m = [k EXCEPT !.state = "S_DATA", !.next = c]
      OBVIOUS
    <2>5. m \in Senders /\ m.seq = k.seq /\ m.state = "S_DATA" /\ m.next = c /\ m.left = FALSE /\ m.status = "X_OK"
      BY <2>4 DEF Senders
    <2>6. r = Sent(m, "D", b)
      BY <1>2, <1>4, <2>2, <2>3, <2>4 DEF sdata, In
    <2>7. SentAs(m, r, "D", b)
      BY <2>5, <2>6, SentIs DEF Sending
    <2>8. Current(r.k) = Packet("D", After(k.seq), b)
      BY <2>2, <2>3, <2>5, <2>7 DEF Current, Kind, SentAs
    <2>9. QED BY <1>2, <2>1, <2>3, <2>5, <2>7, <2>8 DEF SentAs, SenderAt
  <1>5. QED BY <1>3, <1>4

LEMMA SenderMoves ==
  ASSUME file \in FILES, NEW k, Asking(k), NEW r, r = S_packet(k, Packet("Y", k.seq, 0))
  PROVE  Moves(k, r)
  <1>1. k \in Senders /\ SenderAt(k) /\ k.status = "X_OK" /\ 0 \in Datas
    BY DEF Asking, Datas
  <1>2. PICK m : m = [k EXCEPT !.rtr = 0]
    OBVIOUS
  <1>3. Alike(k, m) /\ m \in Senders /\ m.status = "X_OK" /\ m.out = k.out
    BY <1>1, <1>2, AskingAlike DEF Senders, Alike
  <1>4. r = S_expected(m)
    BY <1>2 DEF S_packet, S_numbered, Expected, Packet
  <1>5. CASE k.state = "S_EOT"
    <2>1. PICK x : x = [m EXCEPT !.status = "X_DONE"]
      OBVIOUS
    <2>2. r = [k |-> x, tx |-> <<>>, dest |-> dest]
      BY <1>3, <1>4, <1>5, <2>1 DEF S_expected, Ended, Result, Alike
    <2>3. Alike(k, x) /\ x.status = "X_DONE"
      BY <1>3, <2>1 DEF Alike, Senders, Engine
    <2>4. QED BY <1>5, <2>2, <2>3 DEF Moves
  <1>6. CASE k.state \in {"S_INIT", "S_EOF"} /\ k.left /\ ~ k.found
    <2>1. PICK x : x = [m EXCEPT !.status = "X_ERROR"]
      OBVIOUS
    <2>2. r = [k |-> x, tx |-> <<>>, dest |-> dest]
      BY <1>3, <1>4, <1>6, <2>1 DEF S_expected, Ended, Result, Alike
    <2>3. Alike(k, x) /\ x.status = "X_ERROR"
      BY <1>3, <2>1 DEF Alike, Senders, Engine
    <2>4. Repeats(k, r)
      BY <2>2, <2>3, EndPackets, AlikeRepeats
    <2>5. QED BY <2>2, <2>3, <2>4 DEF Moves
  <1>7. CASE k.state \in {"S_INIT", "S_EOF"} /\ k.left /\ k.found
    <2>1. k.state = "S_INIT" /\ k.next = 1
      BY <1>1, <1>7 DEF SenderAt
    <2>2. PICK x : x = [m EXCEPT !.state = "S_FILE", !.left = FALSE]
      OBVIOUS
    <2>3. r = Sent(x, "F", 0)
      BY <1>3, <1>4, <1>7, <2>2 DEF S_expected, In, Alike
    <2>4. x \in Senders /\ x.seq = k.seq /\ x.state = "S_FILE" /\ x.left = FALSE /\ x.next = 1 /\ x.status = "X_OK"
      BY <1>3, <2>1, <2>2 DEF Alike, Senders
    <2>5. SentAs(x, r, "F", 0)
      BY <1>1, <2>3, <2>4, SentIs DEF Sending
    <2>6. Current(r.k) = Packet("F", After(k.seq), 0)
      BY <2>4, <2>5 DEF Current, Kind, SentAs
    <2>7. SenderAt(r.k)
      BY <2>4, <2>5 DEF SentAs, SenderAt
    <2>8. \A q, d : Advanced(k, q, d) => Awaiting(r.k, q, d)
      BY <2>1, <2>4, <2>5 DEF SentAs, Advanced, Awaiting
    <2>9. QED BY <2>4, <2>5, <2>6, <2>7, <2>8 DEF SentAs, Moves
  <1>8. CASE k.state \in {"S_INIT", "S_EOF"} /\ ~ k.left
    <2>1. k.state = "S_EOF" /\ k.next = Len(file) + 1
      BY <1>1, <1>8 DEF SenderAt
    <2>2. PICK x : x = [m EXCEPT !.state = "S_EOT"]
      OBVIOUS
    <2>3. r = Sent(x, "B", 0)
      BY <1>3, <1>4, <1>8, <2>2 DEF S_expected, In, Alike
    <2>4. x \in Senders /\ x.seq = k.seq /\ x.state = "S_EOT" /\ ~ x.left /\ x.next = k.next /\ x.status = "X_OK"
      BY <1>3, <1>8, <2>2 DEF Alike, Senders
    <2>5. SentAs(x, r, "B", 0)
      BY <1>1, <2>3, <2>4, SentIs DEF Sending
    <2>6. Current(r.k) = Packet("B", After(k.seq), 0)
      BY <2>4, <2>5 DEF Current, Kind, SentAs
    <2>7. SenderAt(r.k)
      BY <2>1, <2>4, <2>5 DEF SentAs, SenderAt
    <2>8. \A q, d : Advanced(k, q, d) => Awaiting(r.k, q, d)
      BY <2>1, <2>4, <2>5 DEF SentAs, Advanced, Awaiting
    <2>9. QED BY <2>4, <2>5, <2>6, <2>7, <2>8 DEF SentAs, Moves
  <1>9. CASE k.state = "S_FILE" /\ k.at
    <2>1. ~ k.left
      BY <1>1, <1>9 DEF SenderAt
    <2>2. PICK n \in Nat : n = Len(file) + 1
      BY FileIs
    <2>3. PICK x : x = [m EXCEPT !.next = n, !.state = "S_ATTR"]
      OBVIOUS
    <2>4. r = Sent(x, "A", 0)
      BY <1>3, <1>4, <1>9, <2>2, <2>3 DEF S_expected, In, fileinfo, Alike
    <2>5. x \in Senders /\ x.seq = k.seq /\ x.state = "S_ATTR" /\ ~ x.left /\ x.next = n /\ x.status = "X_OK"
      BY <1>3, <2>1, <2>3 DEF Alike, Senders
    <2>6. SentAs(x, r, "A", 0)
      BY <1>1, <2>4, <2>5, SentIs DEF Sending
    <2>7. Current(r.k) = Packet("A", After(k.seq), 0)
      BY <2>5, <2>6 DEF Current, Kind, SentAs
    <2>8. SenderAt(r.k)
      BY <2>2, <2>5, <2>6 DEF SentAs, SenderAt
    <2>9. \A q, d : Advanced(k, q, d) => Awaiting(r.k, q, d)
      BY <1>9, <2>5, <2>6 DEF SentAs, Advanced, Awaiting
    <2>10. QED BY <2>5, <2>6, <2>7, <2>8, <2>9 DEF SentAs, Moves
  <1>10. CASE (k.state = "S_FILE" /\ ~ k.at) \/ k.state \in {"S_ATTR", "S_DATA"}
    <2>1. k.left = FALSE /\ k.next \in 1 .. Len(file) + 1
      BY <1>1, <1>10, FileIs DEF SenderAt, Senders
    <2>2. r = sdata(m)
      BY <1>3, <1>4, <1>10 DEF S_expected, Alike
    <2>3. /\ r.k \in Senders /\ SenderAt(r.k) /\ r.k.seq = After(k.seq) /\ r.k.status = "X_OK"
          /\ r.k.out = Current(r.k) /\ r.tx = <<Current(r.k)>>
          /\ \/ r.k.state = "S_EOF" /\ k.next = Len(file) + 1
             \/ r.k.state = "S_DATA" /\ r.k.next = k.next + 1
      BY <1>3, <2>1, <2>2, SdataMoves DEF Alike
    <2>4. \A q, d : Advanced(k, q, d) => Awaiting(r.k, q, d)
      <3>1. TAKE q, d
      <3>2. HAVE Advanced(k, q, d)
      <3>3. CASE k.state = "S_DATA"
        <4>1. q.state = "R_DATA" /\ Holds(d, k.next - 1)
          BY <3>2, <3>3 DEF Advanced
        <4>2. CASE r.k.state = "S_EOF" /\ k.next = Len(file) + 1
          <5>1. k.next - 1 = Len(file)
            BY <4>2, FileIs
          <5>2. QED BY <4>1, <4>2, <5>1 DEF Awaiting
        <4>3. CASE r.k.state = "S_DATA" /\ r.k.next = k.next + 1
          <5>1. r.k.next - 2 = k.next - 1
            BY <2>1, <4>3, FileIs
          <5>2. QED BY <4>1, <4>3, <5>1 DEF Awaiting
        <4>4. QED BY <2>3, <4>2, <4>3
      <3>4. CASE k.state \in {"S_FILE", "S_ATTR"}
        <4>1. q.state = "R_ATTR"
          BY <3>2, <3>4 DEF Advanced
        <4>2. r.k.state = "S_DATA" => r.k.next = 2
          <5>1. HAVE r.k.state = "S_DATA"
          <5>2. r.k.next = k.next + 1
            BY <2>3, <5>1
          <5>3. CASE k.state = "S_FILE"
            BY <1>1, <5>2, <5>3 DEF SenderAt
          <5>4. CASE k.state = "S_ATTR"
            <6>1. k.next = Len(file) + 1
              BY <1>1, <5>4 DEF SenderAt
            <6>2. r.k.next \in 2 .. Len(file) + 1
              BY <2>3, <5>1 DEF SenderAt
            <6>3. QED BY <5>2, <6>1, <6>2, FileIs
          <5>5. QED BY <3>4, <5>3, <5>4
        <4>3. QED BY <2>3, <4>1, <4>2 DEF Awaiting
      <3>5. QED BY <1>10, <3>3, <3>4
    <2>5. QED BY <2>3, <2>4 DEF Moves
  <1>11. QED BY <1>1, <1>5, <1>6, <1>7, <1>8, <1>9, <1>10 DEF Senders
-----------------------------------------------------------------------------
(* The lines and the ends together.                                        *)
LEMMA LinesApart ==
  ASSUME file \in FILES, NEW s \in Senders, SenderAt(s)
  PROVE  /\ s.seq \in Seqs /\ After(s.seq) \in Seqs /\ After(s.seq) # s.seq
         /\ {Current(s)} \in SUBSET Packets /\ Stale(s.seq) \cap {Current(s)} = {}
         /\ Stale(s.seq) \cap Others = {} /\ {Current(s)} \cap Others = {}
         /\ Answers(s.seq) \in SUBSET Packets /\ Answers(After(s.seq)) \in SUBSET Packets
         /\ Answers(s.seq) \cap Answers(After(s.seq)) = {}
         /\ Answers(s.seq) \cap Others = {} /\ Answers(After(s.seq)) \cap Others = {}
         /\ Current(s) \in Stale(After(s.seq))
  <1>1. s.seq \in Seqs /\ After(s.seq) \in Seqs /\ After(s.seq) # s.seq /\ Back(After(s.seq)) = s.seq
    BY Numbers DEF Senders
  <1>2. /\ Current(s) \in Packets /\ Current(s) \notin Others /\ Current(s) \notin Stale(s.seq)
        /\ Current(s).seq = s.seq /\ Current(s).type \in Sending
    BY CurrentIs
  <1>3. Stale(s.seq) \cap Others = {}
    BY DEF Stale, Others, Sending
  <1>4. Current(s) \in Stale(After(s.seq))
    BY <1>1, <1>2 DEF Stale
  <1>5. /\ Answers(s.seq) \in SUBSET Packets /\ Answers(After(s.seq)) \in SUBSET Packets
        /\ Answers(s.seq) \cap Answers(After(s.seq)) = {}
        /\ Answers(s.seq) \cap Others = {} /\ Answers(After(s.seq)) \cap Others = {}
    BY <1>1, AnswersAre
  <1>6. QED BY <1>1, <1>2, <1>3, <1>4, <1>5

LEMMA ReceiverHolds ==
  ASSUME file \in FILES, NEW s, NEW k, NEW lr, NEW ls, NEW d, Good(s, k, lr, ls, d), Engaged(k),
         NEW m, Answering(m), m.seq = k.seq, m.state = k.state,
         NEW r, Stays(m, d, r),
         NEW wire \in Seq(Packets), \A B, C : InTurn(lr, B, C) => InTurn(wire, B, C)
  PROVE  Good(s, r.k, wire, ls \o r.tx, r.dest)
  <1>1. Typed(s, k, lr, ls, d) /\ SenderAt(s)
    BY DEF Good
  <1>2. /\ r.k \in Receivers /\ r.k.seq = k.seq /\ r.k.state = k.state
        /\ r.k.status \in {"X_OK", "X_ERROR"} /\ r.dest = d
        /\ r.tx \in Says(Answers(k.seq))
        /\ Engaged(r.k) => r.k.out \in Answers(k.seq) \cup {NoPacket}
    BY DEF Stays
  <1>3. PICK n \in Seqs : n = s.seq
    BY <1>1, LinesApart DEF Typed
  <1>4. CASE Before(s, k, lr, ls) /\ Awaiting(s, k, d)
    <2>1. k.seq = n /\ InTurn(ls, {}, Answers(n))
      BY <1>3, <1>4 DEF Before
    <2>2. ls \o r.tx \in Seq(Packets) /\ InTurn(ls \o r.tx, {}, Answers(n))
      <3>1. Answers(n) \in SUBSET Packets
        BY <1>3, <1>1, LinesApart DEF Typed
      <3>2. {} \cap Answers(n) = {} /\ {} \cap Others = {}
        OBVIOUS
      <3>3. QED BY <1>1, <1>2, <2>1, <3>1, <3>2, SaysInTurn DEF Typed
    <2>3. Before(s, r.k, wire, ls \o r.tx)
      BY <1>2, <1>3, <1>4, <2>2 DEF Before
    <2>4. Awaiting(s, r.k, r.dest)
      BY <1>2, <1>4 DEF Awaiting
    <2>5. QED BY <1>1, <1>2, <2>2, <2>3, <2>4 DEF Good, Typed, Outs, Step, EndedWell
  <1>5. CASE Accepted(s, k, lr, ls) /\ Advanced(s, k, d) /\ s.state # "S_EOT"
    <2>1. k.seq = After(n) /\ InTurn(ls, Answers(n), Answers(After(n)))
      BY <1>3, <1>5 DEF Accepted
    <2>2. ls \o r.tx \in Seq(Packets) /\ InTurn(ls \o r.tx, Answers(n), Answers(After(n)))
      <3>1. /\ Answers(After(n)) \in SUBSET Packets /\ Answers(n) \cap Answers(After(n)) = {}
            /\ Answers(n) \cap Others = {}
        BY <1>3, <1>1, LinesApart DEF Typed
      <3>2. QED BY <1>1, <1>2, <2>1, <3>1, SaysInTurn DEF Typed
    <2>3. Accepted(s, r.k, wire, ls \o r.tx)
      BY <1>2, <1>3, <1>5, <2>1, <2>2 DEF Accepted
    <2>4. Advanced(s, r.k, r.dest)
      BY <1>2, <1>5 DEF Advanced
    <2>5. QED BY <1>1, <1>2, <1>5, <2>2, <2>3, <2>4 DEF Good, Typed, Outs, Step, EndedWell
  <1>6. QED BY <1>4, <1>5 DEF Good, Step, Engaged

LEMMA ReceiverGains ==
  ASSUME file \in FILES, NEW s, NEW k, NEW lr, NEW ls, NEW d, Good(s, k, lr, ls, d),
         Before(s, k, lr, ls), NEW m, m.seq = k.seq, NEW r, Takes(s, m, r),
         NEW wire \in Seq(Packets), InTurn(wire, Stale(s.seq), {Current(s)}),
         InTurn(wire, {}, {Current(s)})
  PROVE  Good(s, r.k, wire, ls \o r.tx, r.dest)
  <1>1. Typed(s, k, lr, ls, d) /\ SenderAt(s) /\ k.seq = s.seq /\ s.status # "X_DONE"
    <2>1. Typed(s, k, lr, ls, d) /\ SenderAt(s) /\ k.seq = s.seq /\ EndedWell(s, k)
      BY DEF Good, Before
    <2>2. After(s.seq) # s.seq
      BY <2>1, LinesApart DEF Typed
    <2>3. QED BY <2>1, <2>2 DEF EndedWell
  <1>2. PICK n \in Seqs : n = s.seq /\ n = k.seq /\ n = m.seq
    BY <1>1, LinesApart DEF Typed
  <1>3. InTurn(ls, {}, Answers(n))
    BY <1>2 DEF Before
  <1>4. r.k \in Receivers /\ r.dest \in Dests /\ Got(r.dest)
    BY DEF Takes
  <1>5. CASE r.k.seq = n /\ r.k.status = "X_ERROR" /\ r.tx \in Says({})
    <2>1. r.tx \in Says(Answers(n))
      BY <1>5 DEF Says
    <2>2. ls \o r.tx \in Seq(Packets) /\ InTurn(ls \o r.tx, {}, Answers(n))
      <3>1. Answers(n) \in SUBSET Packets
        BY <1>1, <1>2, LinesApart DEF Typed
      <3>2. {} \cap Answers(n) = {} /\ {} \cap Others = {}
        OBVIOUS
      <3>3. QED BY <1>1, <1>3, <2>1, <3>1, <3>2, SaysInTurn DEF Typed
    <2>3. Before(s, r.k, wire, ls \o r.tx)
      BY <1>2, <1>5, <2>2 DEF Before
    <2>4. QED BY <1>1, <1>4, <1>5, <2>2, <2>3 DEF Good, Typed, Outs, Step, EndedWell, Engaged
  <1>6. CASE /\ r.k.seq = After(n) /\ r.k.out = Packet("Y", n, 0) /\ r.tx = <<Packet("Y", n, 0)>>
             /\ Engaged(r.k) => Advanced(s, r.k, r.dest)
             /\ s.state = "S_EOT" => r.k.status = "X_DONE" /\ Delivered(r.dest)
    <2>1. /\ Answers(After(n)) \in SUBSET Packets /\ Answers(n) \cap Answers(After(n)) = {}
          /\ Answers(n) \cap Others = {} /\ Answers(After(n)) \cap Others = {}
      BY <1>1, <1>2, LinesApart DEF Typed
    <2>2. PICK y \in Packets : y = Packet("Y", n, 0)
      BY EndPackets
    <2>3. y \in Answers(After(n)) /\ y \notin Answers(n)
      BY <2>1, <2>2, Numbers DEF Answers
    <2>4. InTurn(ls, Answers(n), Answers(After(n)))
      BY <1>3, <2>1, NextGeneration
    <2>5. ls \o r.tx \in Seq(Packets) /\ InTurn(ls \o r.tx, Answers(n), Answers(After(n)))
      BY <1>1, <1>6, <2>2, <2>3, <2>4, PutInTurn DEF Typed
    <2>6. Accepted(s, r.k, wire, ls \o r.tx)
      BY <1>2, <1>6, <2>5 DEF Accepted
    <2>7. Outs(s, r.k)
      BY <1>6, <2>2, <2>3 DEF Good, Outs
    <2>8. QED BY <1>1, <1>4, <1>6, <2>5, <2>6, <2>7 DEF Good, Typed, Step, EndedWell
  <1>7. QED BY <1>2, <1>5, <1>6 DEF Takes
LEMMA SenderHolds ==
  ASSUME file \in FILES, NEW s, NEW k, NEW lr, NEW ls, NEW d, Good(s, k, lr, ls, d), Engaged(s),
         NEW r, Repeats(s, r),
         NEW wire \in Seq(Packets), \A B, C : InTurn(ls, B, C) => InTurn(wire, B, C)
  PROVE  Good(r.k, k, lr \o r.tx, wire, d)
  <1>1. Typed(s, k, lr, ls, d) /\ SenderAt(s) /\ Got(d) /\ Outs(s, k)
    BY DEF Good
  <1>2. /\ r.k \in Senders /\ SenderAt(r.k) /\ r.k.seq = s.seq /\ r.k.state = s.state
        /\ r.k.next = s.next /\ Current(r.k) = Current(s) /\ r.k.status \in {"X_OK", "X_ERROR"}
        /\ r.tx \in Says({Current(s)})
        /\ Engaged(r.k) => r.k.out = Current(r.k)
    BY DEF Repeats
  <1>3. /\ {Current(s)} \in SUBSET Packets /\ Stale(s.seq) \cap {Current(s)} = {}
        /\ Stale(s.seq) \cap Others = {}
    BY <1>1, LinesApart DEF Typed
  <1>4. CASE Before(s, k, lr, ls) /\ (Engaged(k) => Awaiting(s, k, d))
    <2>1. lr \o r.tx \in Seq(Packets) /\ InTurn(lr \o r.tx, Stale(s.seq), {Current(s)})
      BY <1>1, <1>2, <1>3, <1>4, SaysInTurn DEF Typed, Before
    <2>2. Before(r.k, k, lr \o r.tx, wire)
      BY <1>2, <1>4, <2>1 DEF Before
    <2>3. Engaged(k) => Awaiting(r.k, k, d)
      BY <1>2, <1>4 DEF Awaiting
    <2>4. QED BY <1>1, <1>2, <2>1, <2>2, <2>3 DEF Good, Typed, Outs, Step, EndedWell
  <1>5. CASE /\ Accepted(s, k, lr, ls) /\ (Engaged(k) => Advanced(s, k, d))
             /\ s.state = "S_EOT" => k.status = "X_DONE" /\ Delivered(d)
    <2>1. lr \o r.tx \in Seq(Packets) /\ InTurn(lr \o r.tx, {}, {Current(s)})
      <3>1. {} \cap {Current(s)} = {} /\ {} \cap Others = {}
        OBVIOUS
      <3>2. QED BY <1>1, <1>2, <1>3, <1>5, <3>1, SaysInTurn DEF Typed, Accepted
    <2>2. Accepted(r.k, k, lr \o r.tx, wire)
      BY <1>2, <1>5, <2>1 DEF Accepted
    <2>3. Engaged(k) => Advanced(r.k, k, d)
      BY <1>2, <1>5 DEF Advanced
    <2>4. QED BY <1>1, <1>2, <1>5, <2>1, <2>2, <2>3 DEF Good, Typed, Outs, Step, EndedWell
  <1>6. QED BY <1>4, <1>5 DEF Good, Step

LEMMA Older ==
  ASSUME NEW wire, NEW c, InTurn(wire, {}, {c}), NEW B, c \in B, NEW D,
         D \cap B = {}, D \cap Others = {}
  PROVE  InTurn(wire, B, D)
  BY DEF InTurn

LEMMA SenderGains ==
  ASSUME file \in FILES, NEW s, NEW k, NEW lr, NEW ls, NEW d, Good(s, k, lr, ls, d), Engaged(s),
         Accepted(s, k, lr, ls), NEW r, Moves(s, r),
         NEW wire \in Seq(Packets), InTurn(wire, {}, Answers(k.seq)),
         \A B, C : InTurn(ls, B, C) => InTurn(wire, B, C)
  PROVE  Good(r.k, k, lr \o r.tx, wire, d)
  <1>1. Typed(s, k, lr, ls, d) /\ SenderAt(s) /\ Got(d) /\ Outs(s, k) /\ k.seq = After(s.seq)
    BY DEF Good, Accepted
  <1>2. /\ s.seq \in Seqs /\ After(s.seq) \in Seqs /\ After(s.seq) # s.seq
        /\ Current(s) \in Stale(After(s.seq))
    BY <1>1, LinesApart DEF Typed
  <1>3. /\ Engaged(k) => Advanced(s, k, d)
        /\ s.state = "S_EOT" => k.status = "X_DONE" /\ Delivered(d)
    BY <1>1, <1>2 DEF Good, Step, Before
  <1>4. CASE Repeats(s, r)
    BY <1>4, SenderHolds
  <1>5. CASE s.state = "S_EOT" /\ Alike(s, r.k) /\ r.k.status = "X_DONE" /\ r.tx = <<>>
    <2>1. r.k \in Senders /\ r.k.seq = s.seq /\ r.k.state = s.state /\ r.k.next = s.next /\ r.k.left = s.left
      BY <1>5 DEF Alike
    <2>2. Current(r.k) = Current(s) /\ SenderAt(r.k)
      BY <1>1, <2>1 DEF Current, SenderAt
    <2>3. lr \o r.tx = lr
      BY <1>1, <1>5, ConcatEmptySeq DEF Typed
    <2>4. Accepted(r.k, k, lr, wire)
      BY <2>1, <2>2 DEF Accepted
    <2>5. Engaged(k) => Advanced(r.k, k, d)
      BY <1>3, <2>1 DEF Advanced
    <2>6. EndedWell(r.k, k)
      BY <1>1, <1>5, <2>1 DEF EndedWell
    <2>7. Outs(r.k, k)
      BY <1>1, <1>5 DEF Outs, Engaged
    <2>8. QED BY <1>1, <1>3, <2>1, <2>2, <2>3, <2>4, <2>5, <2>6, <2>7 DEF Good, Typed, Step
  <1>6. CASE /\ r.k \in Senders /\ SenderAt(r.k) /\ r.k.seq = After(s.seq) /\ r.k.status = "X_OK"
             /\ r.k.out = Current(r.k) /\ r.tx = <<Current(r.k)>>
             /\ \A q, e : Advanced(s, q, e) => Awaiting(r.k, q, e)
    <2>1. PICK c \in Packets : c = Current(r.k)
      BY <1>6, CurrentIs
    <2>2. Stale(After(s.seq)) \cap {c} = {} /\ {c} \cap Others = {}
      BY <1>6, <2>1, LinesApart
    <2>3. InTurn(lr, Stale(After(s.seq)), {c})
      <3>1. InTurn(lr, {}, {Current(s)})
        BY DEF Accepted
      <3>2. QED BY <1>2, <2>2, <3>1, Older
    <2>4. lr \o r.tx \in Seq(Packets) /\ InTurn(lr \o r.tx, Stale(After(s.seq)), {c})
      BY <1>1, <1>6, <2>1, <2>2, <2>3, PutInTurn DEF Typed
    <2>5. Before(r.k, k, lr \o r.tx, wire)
      BY <1>1, <1>6, <2>1, <2>4 DEF Before
    <2>6. Engaged(k) => Awaiting(r.k, k, d)
      BY <1>3, <1>6
    <2>7. Outs(r.k, k) /\ EndedWell(r.k, k)
      BY <1>1, <1>6 DEF Outs, EndedWell
    <2>8. QED BY <1>1, <1>6, <2>4, <2>5, <2>6, <2>7 DEF Good, Typed, Step
  <1>7. QED BY <1>4, <1>5, <1>6 DEF Moves

-----------------------------------------------------------------------------
(* The steps.                                                              *)
LEMMA Primed == ASSUME file' = file, file \in FILES, Good(snd', rcv', toR', toS', dest')
                PROVE  KInv'
  <1>1. Current(snd)' = Current(snd')
    BY DEF Current, Packet, Kind
  <1>2. /\ Before(snd, rcv, toR, toS)' <=> Before(snd', rcv', toR', toS')
        /\ Accepted(snd, rcv, toR, toS)' <=> Accepted(snd', rcv', toR', toS')
    BY <1>1 DEF Before, Accepted
  <1>3. /\ Awaiting(snd, rcv, dest)' <=> Awaiting(snd', rcv', dest')
        /\ Advanced(snd, rcv, dest)' <=> Advanced(snd', rcv', dest')
        /\ Delivered(dest)' <=> Delivered(dest')
        /\ Got(dest)' <=> Got(dest')
        /\ SenderAt(snd)' <=> SenderAt(snd')
    BY DEF Awaiting, Advanced, Delivered, Got, Holds, SenderAt
  <1>4. QED BY <1>1, <1>2, <1>3 DEF KInv, Good, Typed, Outs, Step, EndedWell

LEMMA ReceiveStep == ASSUME KInv, Receive PROVE KInv'
  <1>1. /\ file \in FILES /\ Good(snd, rcv, toR, toS, dest)
        /\ Typed(snd, rcv, toR, toS, dest) /\ Outs(snd, rcv) /\ SenderAt(snd) /\ Got(dest)
    BY DEF KInv, Good
  <1>2. PICK k : k = [rcv EXCEPT !.started = TRUE, !.idle = 0]
    OBVIOUS
  <1>3. k.seq = rcv.seq /\ k.state = rcv.state /\ Answering(k)
    BY <1>1, <1>2 DEF Receive, Engaged, Outs, Typed, Receivers, Answering
  <1>4. PICK p : p = Head(toR)
    OBVIOUS
  <1>5. PICK r : r = R_packet(k, dest, p)
    OBVIOUS
  <1>6. /\ rcv' = r.k /\ toS' = toS \o r.tx /\ dest' = r.dest /\ snd' = snd /\ file' = file
        /\ toR' = Tail(toR) /\ toR # <<>> /\ Engaged(rcv)
    BY <1>2, <1>4, <1>5 DEF Receive, R_turn
  <1>7. toR' \in Seq(Packets) /\ p \in Packets
    <2>1. InTurn(toR, Packets, {})
      BY <1>1, ElementOfSeq, LenProperties DEF InTurn, Typed
    <2>2. QED BY <1>1, <1>4, <1>6, <2>1, TailInTurn DEF Typed
  <1>8. \A B, C : InTurn(toR, B, C) => InTurn(toR', B, C)
    BY <1>1, <1>6, TailInTurn DEF Typed
  <1>9. CASE p \in Others \cup Stale(k.seq)
    <2>1. Stays(k, dest, r)
      BY <1>3, <1>5, <1>9, ReceiverStays
    <2>2. Good(snd, r.k, toR', toS \o r.tx, r.dest)
      BY <1>1, <1>3, <1>6, <1>7, <1>8, <2>1, ReceiverHolds
    <2>3. QED BY <1>1, <1>6, <2>2, Primed
  <1>10. CASE Before(snd, rcv, toR, toS) /\ (Engaged(rcv) => Awaiting(snd, rcv, dest))
    <2>1. InTurn(toR, Stale(snd.seq), {Current(snd)}) /\ rcv.seq = snd.seq
      BY <1>10 DEF Before
    <2>2. p \in Others \cup Stale(snd.seq) \cup {Current(snd)}
          /\ (p = Current(snd) => InTurn(toR', {}, {Current(snd)}))
      BY <1>1, <1>4, <1>6, <2>1, TailInTurn DEF Typed
    <2>3. CASE p = Current(snd)
      <3>1. Awaiting(snd, k, dest)
        BY <1>3, <1>6, <1>10 DEF Awaiting
      <3>2. Takes(snd, k, r)
        BY <1>1, <1>3, <1>5, <2>1, <2>3, <3>1, ReceiverTakes DEF Typed
      <3>3. InTurn(toR', Stale(snd.seq), {Current(snd)}) /\ InTurn(toR', {}, {Current(snd)})
        BY <1>8, <2>1, <2>2, <2>3
      <3>4. Good(snd, r.k, toR', toS \o r.tx, r.dest)
        BY <1>1, <1>3, <1>7, <1>10, <3>2, <3>3, ReceiverGains
      <3>5. QED BY <1>1, <1>6, <3>4, Primed
    <2>4. QED BY <1>3, <1>9, <2>1, <2>2, <2>3
  <1>11. CASE Accepted(snd, rcv, toR, toS)
    <2>1. InTurn(toR, {}, {Current(snd)}) /\ rcv.seq = After(snd.seq)
      BY <1>11 DEF Accepted
    <2>2. p \in Others \cup {Current(snd)}
      BY <1>1, <1>4, <1>6, <2>1, TailInTurn DEF Typed
    <2>3. Current(snd) \in Stale(k.seq)
      BY <1>1, <1>3, <2>1, LinesApart DEF Typed
    <2>4. QED BY <1>9, <2>2, <2>3
  <1>12. QED BY <1>1, <1>10, <1>11 DEF Good, Step

LEMMA R_timeoutStep == ASSUME KInv, R_timeout PROVE KInv'
  <1>1. /\ file \in FILES /\ Good(snd, rcv, toR, toS, dest)
        /\ Typed(snd, rcv, toR, toS, dest) /\ Outs(snd, rcv)
    BY DEF KInv, Good
  <1>2. PICK r : r = R_silence(rcv, dest)
    OBVIOUS
  <1>3. /\ rcv' = r.k /\ toS' = toS \o r.tx /\ dest' = r.dest /\ snd' = snd /\ file' = file
        /\ toR' = toR /\ Engaged(rcv)
    BY <1>2 DEF R_timeout, R_turn
  <1>4. Answering(rcv)
    BY <1>1, <1>3 DEF Answering, Engaged, Outs, Typed
  <1>5. Stays(rcv, dest, r)
    BY <1>2, <1>4, SilenceStays
  <1>6. Good(snd, r.k, toR, toS \o r.tx, r.dest)
    BY <1>1, <1>3, <1>4, <1>5, ReceiverHolds DEF Typed
  <1>7. QED BY <1>1, <1>3, <1>6, Primed

LEMMA AckedStep == ASSUME KInv, Acked PROVE KInv'
  <1>1. /\ file \in FILES /\ Good(snd, rcv, toR, toS, dest)
        /\ Typed(snd, rcv, toR, toS, dest) /\ Outs(snd, rcv) /\ SenderAt(snd)
    BY DEF KInv, Good
  <1>2. PICK p : p = Head(toS)
    OBVIOUS
  <1>3. PICK r : r = S_packet(snd, p)
    OBVIOUS
  <1>4. /\ snd' = r.k /\ toR' = toR \o r.tx /\ toS' = Tail(toS) /\ toS # <<>> /\ Engaged(snd)
        /\ rcv' = rcv /\ dest' = dest /\ file' = file
    BY <1>2, <1>3 DEF Acked, S_turn
  <1>5. Asking(snd)
    BY <1>1, <1>4 DEF Asking, Engaged, Outs, Typed
  <1>6. PICK n \in Seqs : n = snd.seq
    BY <1>1, LinesApart DEF Typed
  <1>7. toS' \in Seq(Packets)
    <2>1. InTurn(toS, Packets, {})
      BY <1>1, ElementOfSeq, LenProperties DEF InTurn, Typed
    <2>2. QED BY <1>1, <1>4, <2>1, TailInTurn DEF Typed
  <1>8. \A B, C : InTurn(toS, B, C) => InTurn(toS', B, C)
    BY <1>1, <1>4, TailInTurn DEF Typed
  <1>9. CASE p \in Others \cup Answers(n) \cup Answers(After(n)) /\ p # Packet("Y", n, 0)
    <2>1. Repeats(snd, r)
      BY <1>1, <1>3, <1>5, <1>6, <1>9, SenderRepeats
    <2>2. Good(r.k, rcv, toR \o r.tx, toS', dest)
      BY <1>1, <1>4, <1>7, <1>8, <2>1, SenderHolds
    <2>3. QED BY <1>1, <1>4, <2>2, Primed
  <1>10. CASE Before(snd, rcv, toR, toS)
    <2>1. InTurn(toS, {}, Answers(n))
      BY <1>6, <1>10 DEF Before
    <2>2. p \in Others \cup Answers(n)
      BY <1>1, <1>2, <1>4, <2>1, TailInTurn DEF Typed
    <2>3. Packet("Y", n, 0) \notin Others \cup Answers(n)
      BY Numbers DEF Others, Answers, Packet
    <2>4. QED BY <1>9, <2>2, <2>3
  <1>11. CASE Accepted(snd, rcv, toR, toS)
    <2>1. InTurn(toS, Answers(n), Answers(After(n))) /\ rcv.seq = After(n)
      BY <1>6, <1>11 DEF Accepted
    <2>2. /\ p \in Others \cup Answers(n) \cup Answers(After(n))
          /\ p \in Answers(After(n)) => InTurn(toS', {}, Answers(After(n)))
      BY <1>1, <1>2, <1>4, <2>1, TailInTurn DEF Typed
    <2>3. CASE p = Packet("Y", n, 0)
      <3>1. p \in Answers(After(n))
        BY <2>3, Numbers DEF Answers
      <3>2. Moves(snd, r)
        BY <1>1, <1>3, <1>5, <1>6, <2>3, SenderMoves
      <3>3. Good(r.k, rcv, toR \o r.tx, toS', dest)
        BY <1>1, <1>4, <1>7, <1>8, <1>11, <2>1, <2>2, <3>1, <3>2, SenderGains
      <3>4. QED BY <1>1, <1>4, <3>3, Primed
    <2>4. QED BY <1>9, <2>2, <2>3
  <1>12. QED BY <1>1, <1>10, <1>11 DEF Good, Step

LEMMA S_timeoutStep == ASSUME KInv, S_timeout PROVE KInv'
  <1>1. /\ file \in FILES /\ Good(snd, rcv, toR, toS, dest)
        /\ Typed(snd, rcv, toR, toS, dest) /\ Outs(snd, rcv) /\ SenderAt(snd)
    BY DEF KInv, Good
  <1>2. PICK r : r = resend(snd, dest)
    OBVIOUS
  <1>3. /\ snd' = r.k /\ toR' = toR \o r.tx /\ toS' = toS /\ Engaged(snd)
        /\ rcv' = rcv /\ dest' = dest /\ file' = file
    BY <1>2 DEF S_timeout, S_turn
  <1>4. Asking(snd)
    BY <1>1, <1>3 DEF Asking, Engaged, Outs, Typed
  <1>5. Repeats(snd, r)
    BY <1>1, <1>2, <1>4, AskingAlike, ResendRepeats DEF Asking
  <1>6. Good(r.k, rcv, toR \o r.tx, toS, dest)
    BY <1>1, <1>3, <1>5, SenderHolds DEF Typed
  <1>7. QED BY <1>1, <1>3, <1>6, Primed

(* The line spoils a packet, or what is sent to an ended program is lost.  *)
LEMMA LineStep ==
  ASSUME KInv, UNCHANGED <<snd, rcv, dest, file>>,
         \/ toR' = toR
         \/ toR' = <<>>
         \/ toR # <<>> /\ toR' \in Fault(toR),
         \/ toS' = toS
         \/ toS' = <<>>
         \/ toS # <<>> /\ toS' \in Fault(toS)
  PROVE  KInv'
  <1>1. /\ file \in FILES /\ Good(snd, rcv, toR, toS, dest)
        /\ Typed(snd, rcv, toR, toS, dest) /\ SenderAt(snd)
    BY DEF KInv, Good
  <1>2. /\ Stale(snd.seq) \cap Others = {} /\ {Current(snd)} \cap Others = {}
        /\ Answers(snd.seq) \cap Others = {} /\ Answers(After(snd.seq)) \cap Others = {}
    BY <1>1, LinesApart DEF Typed
  <1>3. ASSUME NEW wire \in Seq(Packets), NEW t,
               \/ t = wire
               \/ t = <<>>
               \/ wire # <<>> /\ t \in Fault(wire),
               NEW B, NEW C, InTurn(wire, B, C), Others \cap (B \cup C) = {}
        PROVE  t \in Seq(Packets) /\ InTurn(t, B, C)
    <2>1. <<>> \in Seq(Packets) /\ InTurn(<<>>, B, C)
      BY DEF InTurn
    <2>2. CASE wire # <<>> /\ t \in Fault(wire)
      BY <1>3, <2>2, SpoiltInTurn
    <2>3. QED BY <1>3, <2>1, <2>2
  <1>4. CASE Before(snd, rcv, toR, toS) /\ (Engaged(rcv) => Awaiting(snd, rcv, dest))
    <2>1. toR' \in Seq(Packets) /\ InTurn(toR', Stale(snd.seq), {Current(snd)})
      BY <1>1, <1>2, <1>3, <1>4 DEF Before, Typed
    <2>2. toS' \in Seq(Packets) /\ InTurn(toS', {}, Answers(snd.seq))
      BY <1>1, <1>2, <1>3, <1>4 DEF Before, Typed
    <2>3. Good(snd, rcv, toR', toS', dest)
      BY <1>1, <1>4, <2>1, <2>2 DEF Good, Typed, Step, Before
    <2>4. QED BY <1>1, <2>3, Primed
  <1>5. CASE /\ Accepted(snd, rcv, toR, toS) /\ (Engaged(rcv) => Advanced(snd, rcv, dest))
             /\ snd.state = "S_EOT" => rcv.status = "X_DONE" /\ Delivered(dest)
    <2>1. toR' \in Seq(Packets) /\ InTurn(toR', {}, {Current(snd)})
      BY <1>1, <1>2, <1>3, <1>5 DEF Accepted, Typed
    <2>2. toS' \in Seq(Packets) /\ InTurn(toS', Answers(snd.seq), Answers(rcv.seq))
      BY <1>1, <1>2, <1>3, <1>5 DEF Accepted, Typed
    <2>3. Good(snd, rcv, toR', toS', dest)
      BY <1>1, <1>5, <2>1, <2>2 DEF Good, Typed, Step, Accepted
    <2>4. QED BY <1>1, <2>3, Primed
  <1>6. QED BY <1>1, <1>4, <1>5 DEF Good, Step

LEMMA KermitStep == ASSUME KInv, [KermitNext]_kervars PROVE KInv'
  <1>1. CASE Receiver
    BY <1>1, ReceiveStep, R_timeoutStep DEF Receiver
  <1>2. CASE Sender
    BY <1>2, AckedStep, S_timeoutStep DEF Sender
  <1>3. CASE LineToR
    BY <1>3, LineStep DEF LineToR
  <1>4. CASE LineToS
    BY <1>4, LineStep DEF LineToS
  <1>5. CASE Ignored
    BY <1>5, LineStep DEF Ignored
  <1>6. CASE UNCHANGED kervars
    BY <1>6, LineStep DEF kervars
  <1>7. QED BY <1>1, <1>2, <1>3, <1>4, <1>5, <1>6 DEF KermitNext

LEMMA KermitStarts == ASSUME KermitInit PROVE KInv
  <1>1. file \in FILES /\ 0 \in Seqs /\ 0 \in Datas /\ Len(file) \in Nat
    BY FileIs, Numbers DEF KermitInit, Datas
  <1>2. Packet("S", 0, 0) \in Packets /\ NoPacket \in Packets
    BY <1>1 DEF Packet, Packets, Sending, NoPacket
  <1>3. snd \in Senders
    <2>1. \A at \in CAP_AT : at \in BOOLEAN
      BY KermitAssumption
    <2>2. QED BY <1>1, <1>2, <2>1 DEF KermitInit, Senders, Engine
  <1>4. rcv \in Receivers
    BY <1>1, <1>2 DEF KermitInit, K_INIT, Receivers, Engine
  <1>5. dest \in Dests /\ dest.text = <<>> /\ dest.obuf = <<>>
    BY KermitAssumption DEF KermitInit, Dests
  <1>6. /\ snd.seq = 0 /\ snd.state = "S_INIT" /\ snd.next = 1 /\ snd.left /\ snd.status = "X_OK"
        /\ snd.out = Packet("S", 0, 0)
        /\ rcv.seq = 0 /\ rcv.state = "R_WAIT" /\ rcv.out = NoPacket
    BY DEF KermitInit, K_INIT
  <1>7. Current(snd) = Packet("S", 0, 0)
    BY <1>6 DEF Current, Kind
  <1>8. SenderAt(snd)
    BY <1>6 DEF SenderAt
  <1>9. Awaiting(snd, rcv, dest)
    BY <1>6 DEF Awaiting
  <1>10. Before(snd, rcv, toR, toS) /\ toR \in Seq(Packets) /\ toS \in Seq(Packets)
    <2>1. toR = <<Packet("S", 0, 0)>> /\ toS = <<>>
      BY DEF KermitInit
    <2>2. toR \in Seq(Packets) /\ toS \in Seq(Packets)
      BY <1>2, <2>1
    <2>3. InTurn(toR, Stale(snd.seq), {Current(snd)})
      BY <1>7, <2>1 DEF InTurn
    <2>4. InTurn(toS, {}, Answers(snd.seq))
      BY <2>1 DEF InTurn
    <2>5. QED BY <1>6, <2>2, <2>3, <2>4 DEF Before
  <1>11. Got(dest)
    <2>1. <<>> \o <<>> = <<>>
      BY ConcatEmptySeq
    <2>2. SubSeq(file, 1, 0) = <<>>
      BY SubSeqEmpty
    <2>3. Holds(dest, 0)
      BY <1>5, <2>1, <2>2 DEF Holds
    <2>4. QED BY <1>1, <2>3 DEF Got
  <1>12. Outs(snd, rcv) /\ EndedWell(snd, rcv)
    BY <1>6, <1>7 DEF Outs, EndedWell
  <1>13. QED BY <1>1, <1>3, <1>4, <1>5, <1>8, <1>9, <1>10, <1>11, <1>12 DEF KInv, Good, Typed, Step

-----------------------------------------------------------------------------
(* Whatever the line loses, spoils or doubles, the receiver's file is the  *)
(* sender's blocks from the first on, each once and in order: the engine   *)
(* of kermit.c counts a packet again as the one it has.                    *)
THEOREM ArrivesInOrder == KermitSpec => []InOrder
  <1>1. KermitInit => KInv
    BY KermitStarts
  <1>2. KInv /\ [KermitNext]_kervars => KInv'
    BY KermitStep
  <1>3. KInv => InOrder
    <2>1. SUFFICES ASSUME KInv PROVE InOrder
      OBVIOUS
    <2>2. file \in Seq(Datas) /\ Len(file) \in Nat
      BY <2>1, FileIs DEF KInv
    <2>3. PICK n \in 0 .. Len(file) : dest.text \o dest.obuf = SubSeq(file, 1, n)
      BY <2>1 DEF KInv, Good, Got, Holds
    <2>4. Len(SubSeq(file, 1, n)) = n
      <3>1. \A i \in 1 .. n : file[i] \in Datas
        BY <2>2, ElementOfSeq
      <3>2. QED BY <2>2, <3>1, SubSeqProperties
    <2>5. QED BY <2>2, <2>3, <2>4 DEF InOrder
  <1>4. QED BY <1>1, <1>2, <1>3, PTL DEF KermitSpec

(* A sender that ends well has been told of every packet it sent: the      *)
(* receiver has ended well too, and the file is closed at its end, whole   *)
(* unless the last blocks met a full disk.                                 *)
THEOREM DoneIsReallyDelivered == KermitSpec => []DoneIsDelivered
  <1>1. KermitInit => KInv
    BY KermitStarts
  <1>2. KInv /\ [KermitNext]_kervars => KInv'
    BY KermitStep
  <1>3. KInv => DoneIsDelivered
    <2>1. SUFFICES ASSUME KInv, snd.status = "X_DONE"
                   PROVE  rcv.status = "X_DONE" /\ dest.closed /\ Whole
      BY DEF DoneIsDelivered
    <2>2. snd.state = "S_EOT" /\ rcv.seq = After(snd.seq) /\ snd \in Senders
      BY <2>1 DEF KInv, Good, EndedWell, Typed
    <2>3. rcv.seq # snd.seq
      BY <2>2, Numbers DEF Senders
    <2>4. rcv.status = "X_DONE" /\ Delivered(dest)
      BY <2>1, <2>2, <2>3 DEF KInv, Good, Step, Before
    <2>5. QED BY <2>4 DEF Delivered, Whole
  <1>4. QED BY <1>1, <1>2, <1>3, PTL DEF KermitSpec

-----------------------------------------------------------------------------
(* Console input.  A program that reports ^C alone shares its console with *)
(* nobody: conbrk() of one that does breaks the order.                     *)
OwnConsoles == \A p \in STATUS_ONLY, q \in PROCS : CON[q] = CON[p] => q = p

Keystrokes == [what : {"key", "^C", "^S", "^Q"}, n : Nat \ {0}]
ConTypes ==
  /\ typed \in [CONS -> Nat] /\ ring \in [CONS -> Seq(Keystrokes)]
  /\ kbchar \in [CONS -> Keystrokes \cup {NoKey}] /\ owner \in [CONS -> PROCS \cup {NoOne}]
  /\ doing \in [PROCS -> {"run", "claim", "wait", "woken"}]
  /\ scroll \in PROCS \cup {NoOne} /\ taken \in [CONS -> Nat]

(* A console: the last key given t, what is in kbchar[] k, the keys in the *)
(* BIOS r, and the number typed m.                                         *)
Ordered(t, k, r, m) ==
  /\ k # NoKey => t < k.n
  /\ t <= m /\ k.n <= m
  /\ \A i \in DOMAIN r : t < r[i].n /\ k.n < r[i].n /\ r[i].n <= m
  /\ \A i, j \in DOMAIN r : i < j => r[i].n < r[j].n
InOrderAt(c) == Ordered(taken[c], kbchar[c], ring[c], typed[c])

(* Who sleeps on the keyboard owns its console, and has found kbchar[]     *)
(* empty; who scrolls is running, and nobody else owns its console.        *)
Reading(p) == doing[p] \in {"wait", "woken"}
                => owner[CON[p]] = p /\ kbchar[CON[p]] = NoKey
Scrolling == scroll # NoOne => doing[scroll] = "run" /\ owner[CON[scroll]] \in {scroll, NoOne}

ConInv == /\ ConTypes /\ \A c \in CONS : InOrderAt(c)
          /\ \A p \in PROCS : Reading(p)
          /\ Scrolling
LEMMA KeysAre == /\ NoKey \notin Keystrokes /\ NoKey.n = 0 /\ NoOne \notin PROCS
                 /\ \A p \in PROCS : CON[p] \in CONS
  BY ConInAssumption DEF NoKey, Keystroke, Keystrokes

LEMMA KeysHaveNumbers == ASSUME NEW r \in Seq(Keystrokes)
                         PROVE  \A i \in DOMAIN r : r[i].n \in Nat \ {0}
  <1>1. TAKE i \in DOMAIN r
  <1>2. i \in 1 .. Len(r)
    BY LenProperties
  <1>3. PICK x \in Keystrokes : x = r[i]
    BY <1>2, ElementOfSeq
  <1>4. x.n \in Nat \ {0}
    BY DEF Keystrokes
  <1>5. QED BY <1>3, <1>4

(* A key is typed; the oldest in the BIOS goes to kbchar[], is given, or   *)
(* is dropped; what is in kbchar[] is given.                               *)
LEMMA KeyTyped ==
  ASSUME NEW t \in Nat, NEW k \in Keystrokes \cup {NoKey}, NEW r \in Seq(Keystrokes), NEW m \in Nat,
         Ordered(t, k, r, m), NEW x \in Keystrokes, x.n = m + 1
  PROVE  Append(r, x) \in Seq(Keystrokes) /\ Ordered(t, k, Append(r, x), m + 1)
  <1>1. PICK q \in Seq(Keystrokes) : q = Append(r, x)
    BY AppendProperties
  <1>2. /\ Len(r) \in Nat /\ Len(q) = Len(r) + 1 /\ DOMAIN r = 1 .. Len(r) /\ DOMAIN q = 1 .. Len(q)
        /\ \A i \in 1 .. Len(r) : q[i] = r[i]
        /\ q[Len(r) + 1] = x
    BY <1>1, AppendProperties, LenProperties
  <1>3. k.n \in Nat
    BY KeysAre DEF Keystrokes
  <1>4. \A i \in DOMAIN r : r[i].n \in Nat
    BY KeysHaveNumbers
  <1>5. \A i \in DOMAIN q : \/ i \in DOMAIN r /\ q[i] = r[i]
                            \/ i = Len(r) + 1 /\ q[i] = x
    BY <1>2
  <1>6. \A i \in DOMAIN q : t < q[i].n /\ k.n < q[i].n /\ q[i].n <= m + 1
    BY <1>3, <1>4, <1>5 DEF Ordered
  <1>7. \A i, j \in DOMAIN q : i < j => q[i].n < q[j].n
    <2>1. TAKE i \in DOMAIN q, j \in DOMAIN q
    <2>2. HAVE i < j
    <2>3. i \in DOMAIN r /\ q[i] = r[i]
      BY <1>2, <1>5, <2>2
    <2>4. CASE j \in DOMAIN r /\ q[j] = r[j]
      BY <2>2, <2>3, <2>4 DEF Ordered
    <2>5. CASE q[j] = x
      BY <1>4, <2>3, <2>5 DEF Ordered
    <2>6. QED BY <1>5, <2>4, <2>5
  <1>8. (k # NoKey => t < k.n) /\ t <= m + 1 /\ k.n <= m + 1
    BY <1>3 DEF Ordered
  <1>9. QED BY <1>1, <1>6, <1>7, <1>8 DEF Ordered

LEMMA KeyMoved ==
  ASSUME NEW t \in Nat, NEW k \in Keystrokes \cup {NoKey}, NEW r \in Seq(Keystrokes), NEW m \in Nat,
         Ordered(t, k, r, m), r # <<>>
  PROVE  /\ Head(r) \in Keystrokes /\ Tail(r) \in Seq(Keystrokes)
         /\ Ordered(t, k, Tail(r), m) /\ Ordered(t, Head(r), Tail(r), m)
         /\ k = NoKey => Ordered(Head(r).n, NoKey, Tail(r), m)
  <1>1. /\ Head(r) \in Keystrokes /\ Tail(r) \in Seq(Keystrokes) /\ Len(Tail(r)) = Len(r) - 1
        /\ \A i \in 1 .. Len(Tail(r)) : Tail(r)[i] = r[i + 1]
    BY HeadTailProperties
  <1>2. Len(r) \in Nat \ {0} /\ DOMAIN r = 1 .. Len(r) /\ Head(r) = r[1]
    BY EmptySeq, LenProperties
  <1>3. PICK q \in Seq(Keystrokes) : q = Tail(r)
    BY <1>1
  <1>4. DOMAIN q = 1 .. Len(r) - 1
    BY <1>1, <1>3, LenProperties
  <1>5. \A i \in DOMAIN q : i \in Nat /\ i + 1 \in DOMAIN r /\ 1 < i + 1 /\ q[i] = r[i + 1]
    BY <1>1, <1>2, <1>3, <1>4
  <1>6. \A i \in DOMAIN r : r[i].n \in Nat \ {0}
    BY KeysHaveNumbers
  <1>7. PICK h \in Keystrokes : h = Head(r) /\ h = r[1]
    BY <1>1, <1>2
  <1>8. 1 \in DOMAIN r
    BY <1>2
  <1>9. \A i, j \in DOMAIN q : i < j => q[i].n < q[j].n
    <2>1. TAKE i \in DOMAIN q, j \in DOMAIN q
    <2>2. i < j => i + 1 < j + 1
      BY <1>5
    <2>3. QED BY <1>5, <2>2 DEF Ordered
  <1>10. \A i \in DOMAIN q : t < q[i].n /\ k.n < q[i].n /\ h.n < q[i].n /\ q[i].n <= m
    BY <1>5, <1>7, <1>8 DEF Ordered
  <1>11. h.n \in Nat /\ t < h.n /\ h.n <= m /\ 0 <= h.n
    BY <1>6, <1>7, <1>8 DEF Ordered
  <1>12. Ordered(t, k, q, m) /\ Ordered(t, h, q, m)
    BY <1>9, <1>10, <1>11 DEF Ordered
  <1>13. Ordered(h.n, NoKey, q, m)
    <2>1. \A i \in DOMAIN q : 0 < q[i].n
      BY <1>5, <1>6
    <2>2. NoKey.n = 0 /\ 0 <= m
      BY KeysAre
    <2>3. QED BY <1>9, <1>10, <1>11, <2>1, <2>2 DEF Ordered
  <1>14. QED BY <1>1, <1>3, <1>7, <1>12, <1>13

LEMMA KeyTaken ==
  ASSUME NEW t \in Nat, NEW k \in Keystrokes, NEW r \in Seq(Keystrokes), NEW m \in Nat,
         Ordered(t, k, r, m)
  PROVE  Ordered(k.n, NoKey, r, m)
  <1>1. k.n \in Nat \ {0} /\ NoKey.n = 0
    BY KeysAre DEF Keystrokes
  <1>2. \A i \in DOMAIN r : r[i].n \in Nat
    BY KeysHaveNumbers
  <1>3. QED BY <1>1, <1>2 DEF Ordered

-----------------------------------------------------------------------------
(* What happens at one console leaves the others alone.                    *)
Keys(c, t, k, r, m) ==
  /\ taken' = [taken EXCEPT ![c] = t] /\ kbchar' = [kbchar EXCEPT ![c] = k]
  /\ ring' = [ring EXCEPT ![c] = r] /\ typed' = [typed EXCEPT ![c] = m]

LEMMA AtOneConsole ==
  ASSUME ConInv, NEW c \in CONS, NEW t \in Nat, NEW k \in Keystrokes \cup {NoKey},
         NEW r \in Seq(Keystrokes), NEW m \in Nat, Ordered(t, k, r, m), Keys(c, t, k, r, m)
  PROVE  /\ typed' \in [CONS -> Nat] /\ ring' \in [CONS -> Seq(Keystrokes)]
         /\ kbchar' \in [CONS -> Keystrokes \cup {NoKey}] /\ taken' \in [CONS -> Nat]
         /\ \A d \in CONS : InOrderAt(d)'
         /\ kbchar'[c] = k /\ \A d \in CONS \ {c} : kbchar'[d] = kbchar[d]
  <1>1. ConTypes /\ \A d \in CONS : InOrderAt(d)
    BY DEF ConInv
  <1>2. /\ typed' \in [CONS -> Nat] /\ ring' \in [CONS -> Seq(Keystrokes)]
        /\ kbchar' \in [CONS -> Keystrokes \cup {NoKey}] /\ taken' \in [CONS -> Nat]
    BY <1>1 DEF ConTypes, Keys
  <1>3. /\ taken'[c] = t /\ kbchar'[c] = k /\ ring'[c] = r /\ typed'[c] = m
        /\ \A d \in CONS \ {c} : /\ taken'[d] = taken[d] /\ kbchar'[d] = kbchar[d]
                                 /\ ring'[d] = ring[d] /\ typed'[d] = typed[d]
    BY <1>1 DEF ConTypes, Keys
  <1>4. \A d \in CONS : InOrderAt(d)'
    <2>1. TAKE d \in CONS
    <2>2. CASE d = c
      BY <1>3, <2>2 DEF InOrderAt
    <2>3. CASE d # c
      BY <1>1, <1>3, <2>3 DEF InOrderAt
    <2>4. QED BY <2>2, <2>3
  <1>5. QED BY <1>2, <1>3, <1>4

LEMMA SameKeys == ASSUME ConTypes, NEW c \in CONS
                  PROVE  /\ typed = [typed EXCEPT ![c] = typed[c]] /\ ring = [ring EXCEPT ![c] = ring[c]]
                         /\ kbchar = [kbchar EXCEPT ![c] = kbchar[c]]
                         /\ taken = [taken EXCEPT ![c] = taken[c]]
                         /\ typed[c] \in Nat /\ ring[c] \in Seq(Keystrokes)
                         /\ kbchar[c] \in Keystrokes \cup {NoKey} /\ taken[c] \in Nat
  BY DEF ConTypes

-----------------------------------------------------------------------------
(* The reader's steps: it owns its console, and is given a key or sleeps.  *)
LEMMA Gives ==
  ASSUME ConInv, NEW p \in PROCS, owner'[CON[p]] = p, owner' \in [CONS -> PROCS \cup {NoOne}],
         \A d \in CONS \ {CON[p]} : owner'[d] = owner[d],
         \A q \in PROCS \ {p} : doing[q] \in {"wait", "woken"} => CON[q] # CON[p],
         scroll = NoOne, UNCHANGED <<typed, scroll>>,
         Looked(p) \/ (/\ bconstat(CON[p]) /\ kbchar[CON[p]] = NoKey
                       /\ Given(p, Head(ring[CON[p]])) /\ FromRing(CON[p]) /\ UNCHANGED kbchar)
  PROVE  ConInv'
  <1>1. PICK c \in CONS : c = CON[p]
    BY KeysAre
  <1>2. ConTypes /\ Ordered(taken[c], kbchar[c], ring[c], typed[c]) /\ \A q \in PROCS : Reading(q)
    BY DEF ConInv, InOrderAt
  <1>3. /\ typed[c] \in Nat /\ ring[c] \in Seq(Keystrokes)
        /\ kbchar[c] \in Keystrokes \cup {NoKey} /\ taken[c] \in Nat
    BY <1>2, SameKeys
  <1>4. /\ doing' \in [PROCS -> {"run", "claim", "wait", "woken"}]
        /\ \A q \in PROCS \ {p} : doing'[q] = doing[q]
        /\ doing'[p] = "run" \/ (doing'[p] = "wait" /\ kbchar[c] = NoKey /\ kbchar' = kbchar)
    BY <1>1, <1>2 DEF ConTypes, Looked, Given
  <1>5. \E t \in Nat, k \in Keystrokes \cup {NoKey}, r \in Seq(Keystrokes), m \in Nat :
          Ordered(t, k, r, m) /\ Keys(c, t, k, r, m)
    <2>1. CASE kbchar[c] # NoKey /\ Given(p, kbchar[c]) /\ kbchar' = [kbchar EXCEPT ![c] = NoKey] /\ UNCHANGED ring
      <3>1. Ordered(kbchar[c].n, NoKey, ring[c], typed[c]) /\ kbchar[c].n \in Nat
        BY <1>2, <1>3, <2>1, KeyTaken DEF Keystrokes
      <3>2. Keys(c, kbchar[c].n, NoKey, ring[c], typed[c])
        BY <1>1, <1>2, <2>1, SameKeys DEF Keys, Given
      <3>3. QED BY <1>3, <3>1, <3>2
    <2>2. CASE UNCHANGED <<kbchar, ring, taken>>
      <3>1. Keys(c, taken[c], kbchar[c], ring[c], typed[c])
        BY <1>2, <2>2, SameKeys DEF Keys
      <3>2. QED BY <1>2, <1>3, <3>1
    <2>3. CASE /\ ring[c] # <<>> /\ kbchar[c] = NoKey
               /\ Given(p, Head(ring[c])) /\ FromRing(c) /\ UNCHANGED kbchar
      <3>1. /\ Head(ring[c]) \in Keystrokes /\ Tail(ring[c]) \in Seq(Keystrokes)
            /\ Ordered(Head(ring[c]).n, NoKey, Tail(ring[c]), typed[c])
        BY <1>2, <1>3, <2>3, KeyMoved
      <3>2. Keys(c, Head(ring[c]).n, NoKey, Tail(ring[c]), typed[c])
        BY <1>1, <1>2, <2>3, SameKeys DEF Keys, Given, FromRing
      <3>3. Head(ring[c]).n \in Nat
        BY <3>1 DEF Keystrokes
      <3>4. QED BY <1>3, <3>1, <3>2, <3>3
    <2>4. QED BY <1>1, <2>1, <2>2, <2>3 DEF Looked, bconstat
  <1>6. /\ typed' \in [CONS -> Nat] /\ ring' \in [CONS -> Seq(Keystrokes)]
        /\ kbchar' \in [CONS -> Keystrokes \cup {NoKey}] /\ taken' \in [CONS -> Nat]
        /\ \A d \in CONS : InOrderAt(d)'
        /\ \A d \in CONS \ {c} : kbchar'[d] = kbchar[d]
    <2>1. PICK t \in Nat, k \in Keystrokes \cup {NoKey}, r \in Seq(Keystrokes), m \in Nat :
            Ordered(t, k, r, m) /\ Keys(c, t, k, r, m)
      BY <1>5
    <2>2. QED BY <2>1, AtOneConsole
  <1>7. ConTypes'
    BY <1>2, <1>4, <1>6 DEF ConTypes
  <1>8. \A q \in PROCS : Reading(q)'
    <2>1. TAKE q \in PROCS
    <2>2. CASE q = p
      BY <1>1, <1>4, <2>2 DEF Reading
    <2>3. CASE q # p
      BY <1>1, <1>2, <1>4, <1>6, <2>3, KeysAre DEF Reading
    <2>4. QED BY <2>2, <2>3
  <1>9. QED BY <1>6, <1>7, <1>8 DEF ConInv, Scrolling
(* The other steps: no process begins to read.                             *)
LEMMA ReadersGoOn ==
  ASSUME ConInv, NEW c \in CONS, NEW t \in Nat, NEW k \in Keystrokes \cup {NoKey},
         NEW r \in Seq(Keystrokes), NEW m \in Nat, Ordered(t, k, r, m), Keys(c, t, k, r, m),
         \/ k = kbchar[c] /\ owner' = owner
         \/ \A q \in PROCS : doing[q] \in {"wait", "woken"} => CON[q] # c,
         owner' \in [CONS -> PROCS \cup {NoOne}], \A d \in CONS \ {c} : owner'[d] = owner[d],
         doing' = doing, scroll' \in PROCS \cup {NoOne}, Scrolling'
  PROVE  ConInv'
  <1>1. /\ typed' \in [CONS -> Nat] /\ ring' \in [CONS -> Seq(Keystrokes)]
        /\ kbchar' \in [CONS -> Keystrokes \cup {NoKey}] /\ taken' \in [CONS -> Nat]
        /\ \A d \in CONS : InOrderAt(d)'
        /\ kbchar'[c] = k /\ \A d \in CONS \ {c} : kbchar'[d] = kbchar[d]
    BY AtOneConsole
  <1>2. ConTypes'
    BY <1>1 DEF ConInv, ConTypes
  <1>3. \A q \in PROCS : Reading(q)'
    <2>1. TAKE q \in PROCS
    <2>2. Reading(q) /\ CON[q] \in CONS
      BY KeysAre DEF ConInv
    <2>3. CASE CON[q] # c
      BY <1>1, <2>2, <2>3 DEF Reading
    <2>4. CASE k = kbchar[c] /\ owner' = owner
      BY <1>1, <2>2, <2>4 DEF Reading
    <2>5. CASE ~ (doing[q] \in {"wait", "woken"})
      BY <2>5 DEF Reading
    <2>6. QED BY <2>3, <2>4, <2>5
  <1>4. QED BY <1>1, <1>2, <1>3 DEF ConInv

LEMMA NobodyReads ==
  ASSUME ConInv, NEW p \in PROCS, doing[p] = "run", owner[CON[p]] \in {p, NoOne}
  PROVE  \A q \in PROCS : doing[q] \in {"wait", "woken"} => CON[q] # CON[p]
  BY KeysAre DEF ConInv, Reading

LEMMA HandedTypes ==
  ASSUME ConTypes, NEW c \in CONS, Handed(c)
  PROVE  owner' \in [CONS -> PROCS \cup {NoOne}] /\ \A d \in CONS \ {c} : owner'[d] = owner[d]
  <1>1. PICK q \in PROCS \cup {NoOne} : owner' = [owner EXCEPT ![c] = q]
    BY DEF Handed, Waiting
  <1>2. QED BY <1>1 DEF ConTypes

LEMMA Polled ==
  ASSUME ConInv, NEW p \in PROCS, doing[p] = "run", owner[CON[p]] \in {p, NoOne},
         scroll \in {p, NoOne}, ring[CON[p]] # <<>>, GotKey(p, Head(ring[CON[p]])),
         UNCHANGED <<typed, doing, taken>>
  PROVE  ConInv'
  <1>1. PICK c \in CONS : c = CON[p]
    BY KeysAre
  <1>2. ConTypes /\ Ordered(taken[c], kbchar[c], ring[c], typed[c])
    BY DEF ConInv, InOrderAt
  <1>3. PICK h : h = Head(ring[c])
    OBVIOUS
  <1>4. /\ h \in Keystrokes /\ Tail(ring[c]) \in Seq(Keystrokes)
        /\ Ordered(taken[c], kbchar[c], Tail(ring[c]), typed[c])
        /\ Ordered(taken[c], h, Tail(ring[c]), typed[c])
    BY <1>1, <1>2, <1>3, SameKeys, KeyMoved
  <1>5. \A q \in PROCS : doing[q] \in {"wait", "woken"} => CON[q] # c
    BY <1>1, NobodyReads
  <1>6. /\ kbchar' = [kbchar EXCEPT ![c] = h] \/ kbchar' = kbchar
        /\ ring' = [ring EXCEPT ![c] = Tail(ring[c])]
        /\ \/ scroll' = p /\ owner' = owner
           \/ scroll' = NoOne /\ Handed(c)
           \/ scroll' = NoOne /\ owner' = owner
    BY <1>1, <1>3 DEF GotKey, FromRing
  <1>7. owner' \in [CONS -> PROCS \cup {NoOne}] /\ \A d \in CONS \ {c} : owner'[d] = owner[d]
    BY <1>2, <1>6, HandedTypes DEF ConTypes
  <1>8. scroll' \in PROCS \cup {NoOne} /\ Scrolling'
    BY <1>1, <1>6 DEF Scrolling
  <1>9. CASE kbchar' = [kbchar EXCEPT ![c] = h]
    <2>1. Keys(c, taken[c], h, Tail(ring[c]), typed[c])
      BY <1>2, <1>6, <1>9, SameKeys DEF Keys
    <2>2. QED BY <1>2, <1>4, <1>5, <1>7, <1>8, <2>1, SameKeys, ReadersGoOn
  <1>10. CASE kbchar' = kbchar
    <2>1. Keys(c, taken[c], kbchar[c], Tail(ring[c]), typed[c])
      BY <1>2, <1>6, <1>10, SameKeys DEF Keys
    <2>2. QED BY <1>2, <1>4, <1>5, <1>7, <1>8, <2>1, SameKeys, ReadersGoOn
  <1>11. QED BY <1>6, <1>9, <1>10

LEMMA PressStep == ASSUME ConInv, NEW c \in CONS, Press(c) PROVE ConInv'
  <1>1. ConTypes /\ Ordered(taken[c], kbchar[c], ring[c], typed[c]) /\ Scrolling
    BY DEF ConInv, InOrderAt
  <1>2. PICK what \in {"key", "^C", "^S", "^Q"} :
          ring' = [ring EXCEPT ![c] = Append(ring[c], Keystroke(what, typed[c] + 1))]
    BY DEF Press
  <1>3. PICK m \in Nat \ {0} : m = typed[c] + 1
    BY <1>1, SameKeys
  <1>4. PICK x \in Keystrokes : x = Keystroke(what, m) /\ x.n = m
    BY <1>2, <1>3 DEF Keystroke, Keystrokes
  <1>5. /\ Append(ring[c], x) \in Seq(Keystrokes)
        /\ Ordered(taken[c], kbchar[c], Append(ring[c], x), m)
    BY <1>1, <1>3, <1>4, SameKeys, KeyTyped
  <1>6. Keys(c, taken[c], kbchar[c], Append(ring[c], x), m)
    BY <1>1, <1>2, <1>3, <1>4, SameKeys DEF Keys, Press
  <1>7. /\ owner' = owner /\ doing' = doing /\ scroll' = scroll
        /\ owner \in [CONS -> PROCS \cup {NoOne}] /\ scroll \in PROCS \cup {NoOne}
    BY <1>1 DEF Press, ConTypes
  <1>8. Scrolling'
    BY <1>1, <1>7 DEF Scrolling
  <1>9. QED BY <1>1, <1>3, <1>5, <1>6, <1>7, <1>8, SameKeys, ReadersGoOn

LEMMA ReaderStep ==
  ASSUME ConInv, NEW p \in PROCS, getch(p) \/ GotConsole(p) \/ Woken(p) \/ Resumed(p)
  PROVE  ConInv'
  <1>1. PICK c \in CONS : c = CON[p]
    BY KeysAre
  <1>2. /\ ConTypes /\ Scrolling /\ \A q \in PROCS : Reading(q)
        /\ owner \in [CONS -> PROCS \cup {NoOne}] /\ p # NoOne /\ NoOne \notin PROCS
    BY KeysAre DEF ConInv, ConTypes
  <1>3. ASSUME doing' = [doing EXCEPT ![p] = "claim"] \/ (doing[p] = "wait" /\ doing' = [doing EXCEPT ![p] = "woken"]),
               scroll = NoOne, UNCHANGED <<typed, ring, kbchar, owner, scroll, taken>>
        PROVE  ConInv'
    <2>1. \A d \in CONS : InOrderAt(d)'
      BY <1>3 DEF ConInv, InOrderAt
    <2>2. doing' \in [PROCS -> {"run", "claim", "wait", "woken"}]
      BY <1>2, <1>3 DEF ConTypes
    <2>3. ConTypes'
      BY <1>2, <1>3, <2>2 DEF ConTypes
    <2>4. \A q \in PROCS : doing'[q] \in {"wait", "woken"} => doing[q] \in {"wait", "woken"}
      BY <1>2, <1>3 DEF ConTypes
    <2>5. \A q \in PROCS : Reading(q)'
      BY <1>2, <1>3, <2>4 DEF Reading
    <2>6. QED BY <1>3, <2>1, <2>3, <2>5 DEF ConInv, Scrolling
  <1>4. CASE getch(p)
    <2>1. doing[p] = "run" /\ scroll = NoOne /\ UNCHANGED <<typed, scroll>>
      BY <1>4 DEF getch, Runs
    <2>2. CASE owner[c] \in {p, NoOne}
      <3>1. owner' = [owner EXCEPT ![c] = p] /\ Looked(p)
        BY <1>1, <1>4, <2>2 DEF getch
      <3>2. /\ owner'[c] = p /\ owner' \in [CONS -> PROCS \cup {NoOne}]
            /\ \A d \in CONS \ {c} : owner'[d] = owner[d]
        BY <1>2, <3>1
      <3>3. \A q \in PROCS \ {p} : doing[q] \in {"wait", "woken"} => CON[q] # c
        BY <1>1, <2>1, <2>2, NobodyReads
      <3>4. QED BY <1>1, <2>1, <3>1, <3>2, <3>3, Gives
    <2>3. CASE ~ (owner[c] \in {p, NoOne})
      BY <1>1, <1>3, <1>4, <2>1, <2>3 DEF getch
    <2>4. QED BY <2>2, <2>3
  <1>5. CASE owner[c] = p /\ owner' = owner
    <2>1. \A q \in PROCS \ {p} : doing[q] \in {"wait", "woken"} => CON[q] # c
      BY <1>1, <1>2, <1>5 DEF Reading
    <2>2. CASE GotConsole(p)
      BY <1>1, <1>2, <1>5, <2>1, <2>2, Gives DEF GotConsole
    <2>3. CASE Resumed(p)
      <3>1. kbchar[c] = NoKey
        BY <1>1, <1>2, <2>3 DEF Reading, Resumed
      <3>2. QED BY <1>1, <1>2, <1>5, <2>1, <2>3, <3>1, Gives DEF Resumed
    <2>4. CASE Woken(p)
      BY <1>3, <2>4 DEF Woken
    <2>5. QED BY <1>4, <2>2, <2>3, <2>4
  <1>6. CASE Woken(p)
    BY <1>3, <1>6 DEF Woken
  <1>7. CASE GotConsole(p)
    BY <1>1, <1>5, <1>7 DEF GotConsole
  <1>8. CASE Resumed(p)
    <2>1. owner[c] = p /\ owner' = owner
      BY <1>1, <1>2, <1>8 DEF Resumed, Reading
    <2>2. QED BY <1>5, <2>1
  <1>9. QED BY <1>4, <1>6, <1>7, <1>8

LEMMA PollStep ==
  ASSUME OwnConsoles, ConInv, NEW p \in PROCS,
         constat(p) \/ detach(p) \/ conbrk(p) \/ Stopped(p)
  PROVE  ConInv'
  <1>1. PICK c \in CONS : c = CON[p]
    BY KeysAre
  <1>2. /\ ConTypes /\ Scrolling /\ Ordered(taken[c], kbchar[c], ring[c], typed[c])
        /\ owner \in [CONS -> PROCS \cup {NoOne}] /\ scroll \in PROCS \cup {NoOne} /\ p # NoOne
    BY KeysAre DEF ConInv, ConTypes, InOrderAt
  <1>3. CASE constat(p)
    <2>1. /\ p \in STATUS_ONLY /\ ring[c] # <<>> /\ doing[p] = "run"
          /\ kbchar' = [kbchar EXCEPT ![c] = Head(ring[c])]
          /\ ring' = [ring EXCEPT ![c] = Tail(ring[c])]
          /\ UNCHANGED <<typed, owner, doing, scroll, taken>>
      BY <1>1, <1>3 DEF constat, bconstat, FromRing, Runs
    <2>2. \A q \in PROCS : doing[q] \in {"wait", "woken"} => CON[q] # c
      BY <1>1, <2>1 DEF OwnConsoles
    <2>3. /\ Head(ring[c]) \in Keystrokes /\ Tail(ring[c]) \in Seq(Keystrokes)
          /\ Ordered(taken[c], Head(ring[c]), Tail(ring[c]), typed[c])
      BY <1>2, <2>1, SameKeys, KeyMoved
    <2>4. Keys(c, taken[c], Head(ring[c]), Tail(ring[c]), typed[c])
      BY <1>2, <2>1, SameKeys DEF Keys
    <2>5. Scrolling'
      BY <1>2, <2>1 DEF Scrolling
    <2>6. QED BY <1>2, <2>1, <2>2, <2>3, <2>4, <2>5, SameKeys, ReadersGoOn
  <1>4. CASE detach(p)
    <2>1. /\ doing[p] = "run" /\ scroll = NoOne /\ owner[c] = p /\ Handed(c)
          /\ UNCHANGED <<typed, ring, kbchar, doing, scroll, taken>>
      BY <1>1, <1>4 DEF detach, Runs
    <2>2. \A q \in PROCS : doing[q] \in {"wait", "woken"} => CON[q] # c
      BY <1>1, <2>1, NobodyReads
    <2>3. Keys(c, taken[c], kbchar[c], ring[c], typed[c])
      BY <1>2, <2>1, SameKeys DEF Keys
    <2>4. Scrolling'
      BY <2>1 DEF Scrolling
    <2>5. owner' \in [CONS -> PROCS \cup {NoOne}] /\ \A d \in CONS \ {c} : owner'[d] = owner[d]
      BY <1>2, <2>1, HandedTypes
    <2>6. QED BY <1>2, <2>1, <2>2, <2>3, <2>4, <2>5, SameKeys, ReadersGoOn
  <1>5. CASE conbrk(p)
    <2>1. doing[p] = "run" /\ scroll = NoOne /\ UNCHANGED <<typed, doing, taken>>
      BY <1>5 DEF conbrk, Runs
    <2>2. CASE pconmine(p) /\ bconstat(c) /\ GotKey(p, Head(ring[c]))
      BY <1>1, <2>1, <2>2, Polled DEF pconmine, bconstat
    <2>3. CASE UNCHANGED <<kbchar, scroll, owner, ring>>
      <3>1. Keys(c, taken[c], kbchar[c], ring[c], typed[c])
        BY <1>2, <2>1, <2>3, SameKeys DEF Keys
      <3>2. Scrolling'
        BY <2>1, <2>3 DEF Scrolling
      <3>3. QED BY <1>2, <2>1, <2>3, <3>1, <3>2, SameKeys, ReadersGoOn
    <2>4. QED BY <1>1, <1>5, <2>2, <2>3 DEF conbrk
  <1>6. CASE Stopped(p)
    <2>1. scroll = p /\ bconstat(c) /\ GotKey(p, Head(ring[c])) /\ UNCHANGED <<typed, doing, taken>>
      BY <1>1, <1>6 DEF Stopped
    <2>2. doing[p] = "run" /\ owner[c] \in {p, NoOne}
      BY <1>1, <1>2, <2>1 DEF Scrolling
    <2>3. QED BY <1>1, <2>1, <2>2, Polled DEF bconstat
  <1>7. QED BY <1>3, <1>4, <1>5, <1>6

LEMMA ConStep == ASSUME OwnConsoles, ConInv, [ConNext]_convars PROVE ConInv'
  <1>1. CASE UNCHANGED convars
    BY <1>1 DEF convars, ConInv, ConTypes, InOrderAt, Reading, Scrolling
  <1>2. CASE ConNext
    BY <1>2, PressStep, ReaderStep, PollStep DEF ConNext
  <1>3. QED BY <1>1, <1>2

LEMMA ConStarts == ASSUME ConInit PROVE ConInv
  <1>1. <<>> \in Seq(Keystrokes) /\ NoKey.n = 0
    BY KeysAre
  <1>2. ConTypes
    BY <1>1 DEF ConInit, ConTypes
  <1>3. ASSUME NEW c \in CONS PROVE InOrderAt(c)
    <2>1. taken[c] = 0 /\ kbchar[c] = NoKey /\ ring[c] = <<>> /\ typed[c] = 0
      BY DEF ConInit
    <2>2. Ordered(0, NoKey, <<>>, 0)
      BY <1>1 DEF Ordered
    <2>3. QED BY <2>1, <2>2 DEF InOrderAt
  <1>4. \A p \in PROCS : Reading(p)
    BY DEF ConInit, Reading
  <1>5. Scrolling
    BY DEF ConInit, Scrolling
  <1>6. QED BY <1>2, <1>3, <1>4, <1>5 DEF ConInv

(* Whoever polls, claims, lets go or is woken meanwhile, what is typed at  *)
(* a console is given to programs in the order it was typed: getch() looks *)
(* in kbchar[] again when it resumes, and conbrk() keeps off a console     *)
(* that is somebody else's.                                                *)
THEOREM KeysComeInOrder == ASSUME OwnConsoles PROVE ConSpec => []TypedOrder
  <1>1. ConInit => ConInv
    BY ConStarts
  <1>2. ConInv /\ [ConNext]_convars => ConInv'
    BY ConStep
  <1>3. ConInv => TypedOrder
    BY DEF ConInv, InOrderAt, Ordered, TypedOrder
  <1>4. QED BY <1>1, <1>2, <1>3, PTL DEF ConSpec

(* A program that sleeps for a key is never left asleep with its key in    *)
(* kbchar[], where the scan of the sleepers does not look.                 *)
THEOREM NobodySleepsOnAKey == ASSUME OwnConsoles PROVE ConSpec => []NoDeafReader
  <1>1. ConInit => ConInv
    BY ConStarts
  <1>2. ConInv /\ [ConNext]_convars => ConInv'
    BY ConStep
  <1>3. ConInv => NoDeafReader
    BY DEF ConInv, Reading, NoDeafReader
  <1>4. QED BY <1>1, <1>2, <1>3, PTL DEF ConSpec
-----------------------------------------------------------------------------
(* A non-empty set of naturals has a least element.                        *)
LEMMA NatLeast ==
  ASSUME NEW T, T \subseteq Nat, T # {}
  PROVE  \E x \in T : \A y \in T : x <= y
  <1> DEFINE R == OpToRel(<, Nat)
  <1>1. IsWellFoundedOn(R, Nat)
    BY NatLessThanWellFounded
  <1> HIDE DEF R
  <1>2. \E x \in T : \A y \in T : ~ (<<y, x>> \in R)
    BY <1>1, WFMin
  <1>3. R = {ss \in Nat \X Nat : ss[1] < ss[2]}
    BY Zenon DEF R, OpToRel
  <1>4. \A x, y \in Nat : y < x => <<y, x>> \in R
    BY <1>3
  <1>5. PICK x \in T : \A y \in T : ~ (<<y, x>> \in R)
    BY <1>2
  <1>6. ASSUME NEW y \in T PROVE x <= y
    <2>1. x \in Nat /\ y \in Nat
      OBVIOUS
    <2>2. ~ (y < x)
      BY <1>4, <1>5, <2>1
    <2>3. QED
      BY <2>1, <2>2
  <1>7. QED
    BY <1>6

(* Induction from a number up to a bound, for a set of numbers.            *)
LEMMA FromUpTo ==
  ASSUME NEW a \in Nat, NEW N \in Nat, NEW T, a \in T,
         \A n \in a .. N - 1 : n \in T => n + 1 \in T
  PROVE  a .. N \subseteq T
  <1> SUFFICES ASSUME NEW m \in a .. N, m \notin T PROVE FALSE
    OBVIOUS
  <1> DEFINE Left == (a .. N) \ T
  <1>1. Left \subseteq Nat /\ Left # {}
    OBVIOUS
  <1>2. PICK x \in Left : \A y \in Left : x <= y
    BY <1>1, NatLeast
  <1>3. x \in a .. N /\ x # a
    BY <1>2
  <1>4. PICK w \in Nat : w = x - 1
    BY <1>3
  <1>5. w \in a .. N - 1 /\ ~ (x <= w) /\ w + 1 = x
    BY <1>3, <1>4
  <1>6. w \in a .. N /\ w \notin Left
    BY <1>2, <1>5
  <1>7. QED BY <1>2, <1>5, <1>6
-----------------------------------------------------------------------------
(* The row of a line being edited.                                         *)
Glyphs  == {" ", "a", "^", "Z"}
Cols    == 0 .. WIDTH - 1
Rows    == [Cols -> Glyphs]
Screens == [col : Nat, row : Rows]
Glyph(ch, i) == CASE ch = "tab" -> " " [] ch = "ctl" -> IF i = 0 THEN "^" ELSE "Z" [] OTHER -> "a"

(* A character takes at least a column.                                    *)
LEMMA ForwardIs ==
  ASSUME NEW b \in Nat, NEW ch \in CHARS
  PROVE  Forward(b, ch) \in Nat /\ b < Forward(b, ch)
  <1>1. b % TABS \in 0 .. TABS - 1 /\ TABS \in Nat
    BY LineAssumption
  <1>2. Forward(b, ch) \in {b + TABS - (b % TABS), b + 2, b + 1}
    BY Zenon DEF Forward
  <1>3. QED BY <1>1, <1>2

LEMMA SpacesIs ==
  ASSUME NEW s \in Screens, NEW n \in Nat
  PROVE  /\ Spaces(s, n) \in Screens /\ Spaces(s, n).col = s.col + n
         /\ \A i \in Cols : Spaces(s, n).row[i] =
              IF s.col <= i /\ i < s.col + n THEN " " ELSE s.row[i]
  <1>1. s.col \in Nat /\ s.row \in [Cols -> Glyphs]
    BY DEF Screens, Rows
  <1>2. PICK r : r = [i \in Cols |-> IF s.col <= i /\ i < s.col + n THEN " " ELSE s.row[i]]
    OBVIOUS
  <1>3. Spaces(s, n) = [col |-> s.col + n, row |-> r]
    BY <1>1, <1>2 DEF Spaces
  <1>4. r \in [Cols -> Glyphs]
    BY <1>1, <1>2 DEF Glyphs
  <1>5. Spaces(s, n).col = s.col + n /\ Spaces(s, n).row = r
    BY <1>3
  <1>6. Spaces(s, n) \in Screens
    BY <1>1, <1>3, <1>4 DEF Screens, Rows
  <1>7. QED BY <1>2, <1>5, <1>6

(* Echoing a character paints its glyphs and moves the cursor past it.     *)
LEMMA EchoIs ==
  ASSUME NEW s \in Screens, NEW ch \in CHARS
  PROVE  LET t == cookdout(s, ch)
         IN  /\ t \in Screens /\ t.col = Forward(s.col, ch)
             /\ \A i \in Cols : t.row[i] = IF s.col <= i /\ i < t.col THEN Glyph(ch, i - s.col)
                                           ELSE s.row[i]
  <1>0. s.col \in Nat /\ s.row \in [Cols -> Glyphs] /\ Cols \subseteq Int
    BY LineAssumption DEF Screens, Rows, Cols
  <1>1. CASE ch = "tab"
    <2>1. PICK n \in Nat : n = TABS - (s.col % TABS)
      BY <1>0, LineAssumption
    <2>2. cookdout(s, ch) = Spaces(s, n) /\ Forward(s.col, ch) = s.col + n
      BY <1>0, <1>1, <2>1, LineAssumption DEF cookdout, Forward
    <2>3. \A i : Glyph(ch, i) = " "
      BY <1>1 DEF Glyph
    <2>4. Spaces(s, n) \in Screens /\ Spaces(s, n).col = s.col + n
          /\ \A i \in Cols : Spaces(s, n).row[i] =
               IF s.col <= i /\ i < s.col + n THEN " " ELSE s.row[i]
      BY SpacesIs
    <2>5. QED BY <2>2, <2>3, <2>4
  <1>2. CASE ch = "ctl"
    <2>1. PICK u : u = [col |-> s.col + 1, row |-> [s.row EXCEPT ![s.col] = "^"]]
      OBVIOUS
    <2>2. conout(s, "^") = u /\ u.col = s.col + 1 /\ u.row = [s.row EXCEPT ![s.col] = "^"]
      BY <2>1 DEF conout
    <2>3. PICK t : t = [col |-> u.col + 1, row |-> [u.row EXCEPT ![u.col] = "Z"]]
      OBVIOUS
    <2>4. cookdout(s, ch) = t /\ t.col = u.col + 1 /\ t.row = [u.row EXCEPT ![u.col] = "Z"]
      BY <1>2, <2>2, <2>3 DEF cookdout, conout
    <2>5. u.row \in [Cols -> Glyphs] /\ t.row \in [Cols -> Glyphs]
      BY <1>0, <2>2, <2>4 DEF Glyphs
    <2>6. t \in Screens /\ t.col = s.col + 2
      BY <1>0, <2>2, <2>3, <2>4, <2>5 DEF Screens, Rows
    <2>7. \A i \in Cols : t.row[i] = IF i = s.col + 1 THEN "Z" ELSE IF i = s.col THEN "^"
                                     ELSE s.row[i]
      BY <1>0, <2>2, <2>4, <2>5
    <2>8. Forward(s.col, ch) = s.col + 2 /\ \A i : Glyph(ch, i) = IF i = 0 THEN "^" ELSE "Z"
      BY <1>2 DEF Forward, Glyph
    <2>9. \A i \in Cols : t.row[i] = IF s.col <= i /\ i < t.col THEN Glyph(ch, i - s.col)
                                     ELSE s.row[i]
      BY <1>0, <2>6, <2>7, <2>8
    <2>10. QED BY <2>4, <2>6, <2>8, <2>9
  <1>3. CASE ch = "a"
    <2>1. PICK t : t = [col |-> s.col + 1, row |-> [s.row EXCEPT ![s.col] = "a"]]
      OBVIOUS
    <2>2. /\ cookdout(s, ch) = t /\ t.col = s.col + 1
          /\ t.row = [s.row EXCEPT ![s.col] = "a"]
      BY <1>3, <2>1 DEF cookdout, conout
    <2>7. t.row \in [Cols -> Glyphs]
      BY <1>0, <2>2 DEF Glyphs
    <2>3. t \in Screens
      BY <1>0, <2>1, <2>2, <2>7 DEF Screens, Rows
    <2>4. Forward(s.col, ch) = s.col + 1 /\ \A i : Glyph(ch, i) = "a"
      BY <1>3 DEF Forward, Glyph
    <2>5. \A i \in Cols : t.row[i] = IF i = s.col THEN "a" ELSE s.row[i]
      BY <1>0, <2>2
    <2>6. QED BY <1>0, <2>2, <2>3, <2>4, <2>5
  <1>4. QED BY <1>1, <1>2, <1>3, LineAssumption
-----------------------------------------------------------------------------
(* Where the characters of a line stand.                                   *)
ColumnsFrom(b, p, f) == f = [i \in 0 .. Len(p) |-> IF i = 0 THEN b ELSE Forward(f[i - 1], p[i])]

LEMMA ColumnsThere ==
  ASSUME NEW b, NEW p \in Seq(CHARS)
  PROVE  \E f : ColumnsFrom(b, p, f)
  <1> DEFINE Till(f, n) == f = [i \in 0 .. n |-> IF i = 0 THEN b ELSE Forward(f[i - 1], p[i])]
             T == {n \in Nat : \E f : Till(f, n)}
  <1>1. 0 \in T
    <2>1. Till([i \in 0 .. 0 |-> b], 0)
      OBVIOUS
    <2>2. QED BY <2>1
  <1>2. ASSUME NEW n \in 0 .. Len(p) - 1, n \in T PROVE n + 1 \in T
    <2>1. PICK f : Till(f, n)
      BY <1>2
    <2> DEFINE g == [i \in 0 .. n + 1 |-> IF i = n + 1 THEN Forward(f[n], p[n + 1]) ELSE f[i]]
    <2>2. n \in Nat /\ n + 1 \in Nat
      OBVIOUS
    <2>3. \A i \in 0 .. n : f[i] = IF i = 0 THEN b ELSE Forward(f[i - 1], p[i])
      BY <2>1
    <2>4. ASSUME NEW i \in 0 .. n + 1
          PROVE  g[i] = IF i = 0 THEN b ELSE Forward(g[i - 1], p[i])
      <3>1. CASE i = n + 1
        <4>1. i # 0 /\ i - 1 = n /\ n \in 0 .. n + 1 /\ n # n + 1
          BY <2>2, <3>1
        <4>2. g[i - 1] = f[n] /\ g[i] = Forward(f[n], p[i])
          BY <3>1, <4>1
        <4>3. QED BY <4>1, <4>2
      <3>2. CASE i = 0
        <4>1. i # n + 1 /\ i \in 0 .. n
          BY <2>2, <3>2
        <4>2. QED BY <2>3, <3>2, <4>1
      <3>3. CASE i # 0 /\ i # n + 1
        <4>1. i \in 0 .. n /\ i - 1 \in 0 .. n /\ i - 1 \in 0 .. n + 1 /\ i - 1 # n + 1
          BY <2>2, <3>3
        <4>2. g[i] = f[i] /\ g[i - 1] = f[i - 1]
          BY <3>3, <4>1
        <4>3. QED BY <2>3, <3>3, <4>1, <4>2
      <3>4. QED BY <3>1, <3>2, <3>3
    <2>5. Till(g, n + 1)
      <3>1. g = [i \in 0 .. n + 1 |-> g[i]]
        OBVIOUS
      <3> HIDE DEF g
      <3>2. QED BY <2>4, <3>1
    <2>6. QED BY <2>2, <2>5
  <1> HIDE DEF T
  <1>3. Len(p) \in Nat /\ 0 \in Nat
    OBVIOUS
  <1>4. 0 .. Len(p) \subseteq T
    BY <1>1, <1>2, <1>3, FromUpTo
  <1>5. Len(p) \in T
    BY <1>3, <1>4
  <1>6. QED BY <1>5 DEF T, ColumnsFrom

LEMMA ColumnsAre ==
  ASSUME NEW b \in Nat, NEW p \in Seq(CHARS)
  PROVE  LET C == Columns(b, p)
         IN  /\ C \in [0 .. Len(p) -> Nat] /\ C[0] = b
             /\ \A i \in 1 .. Len(p) : C[i] = Forward(C[i - 1], p[i]) /\ C[i - 1] < C[i]
  <1>1. PICK C : C = Columns(b, p)
    OBVIOUS
  <1>2. ColumnsFrom(b, p, C)
    <2>1. C = CHOOSE f : ColumnsFrom(b, p, f)
      BY <1>1, Zenon DEF Columns, ColumnsFrom
    <2>2. QED BY <2>1, ColumnsThere, Zenon
  <1>3. Len(p) \in Nat /\ \A i \in 1 .. Len(p) : p[i] \in CHARS
    OBVIOUS
  <1>4. C = [i \in 0 .. Len(p) |-> IF i = 0 THEN b ELSE Forward(C[i - 1], p[i])]
    BY <1>2 DEF ColumnsFrom
  <1>5. \A i \in 0 .. Len(p) : C[i] = IF i = 0 THEN b ELSE Forward(C[i - 1], p[i])
    BY <1>4
  <1>6. C[0] = b /\ \A i \in 1 .. Len(p) : C[i] = Forward(C[i - 1], p[i])
    BY <1>3, <1>5
  <1> DEFINE T == {i \in 0 .. Len(p) : C[i] \in Nat}
  <1>7. 0 \in T
    BY <1>3, <1>6
  <1>8. ASSUME NEW n \in 0 .. Len(p) - 1, n \in T PROVE n + 1 \in T
    <2>1. n + 1 \in 1 .. Len(p) /\ n + 1 \in 0 .. Len(p) /\ (n + 1) - 1 = n /\ C[n] \in Nat
      BY <1>3, <1>8
    <2>2. C[n + 1] = Forward(C[n], p[n + 1]) /\ p[n + 1] \in CHARS
      BY <1>3, <1>6, <2>1
    <2>3. C[n + 1] \in Nat
      BY <2>1, <2>2, ForwardIs
    <2>4. QED BY <2>1, <2>3
  <1>9. \A i \in 0 .. Len(p) : C[i] \in Nat
    <2> HIDE DEF T
    <2>1. 0 .. Len(p) \subseteq T
      BY <1>3, <1>7, <1>8, FromUpTo
    <2>2. QED BY <2>1 DEF T
  <1>10. C \in [0 .. Len(p) -> Nat]
    <2>1. C = [i \in 0 .. Len(p) |-> C[i]]
      BY <1>4
    <2>2. QED BY <1>9, <2>1
  <1>11. ASSUME NEW i \in 1 .. Len(p) PROVE C[i - 1] < C[i]
    <2>1. i - 1 \in 0 .. Len(p) /\ C[i - 1] \in Nat /\ p[i] \in CHARS
      BY <1>3, <1>9
    <2>2. QED BY <1>6, <2>1, ForwardIs
  <1>12. QED BY <1>1, <1>6, <1>10, <1>11

(* They stand in the order of the line.                                    *)
LEMMA ColumnsGrow ==
  ASSUME NEW b \in Nat, NEW p \in Seq(CHARS), NEW i \in 0 .. Len(p), NEW j \in i .. Len(p)
  PROVE  LET C == Columns(b, p)
         IN  C[i] \in Nat /\ C[j] \in Nat /\ C[i] <= C[j] /\ (i < j => C[i] < C[j])
  <1>1. PICK C : C = Columns(b, p)
    OBVIOUS
  <1>2. C \in [0 .. Len(p) -> Nat] /\ \A k \in 1 .. Len(p) : C[k - 1] < C[k]
    BY <1>1, ColumnsAre
  <1>3. Len(p) \in Nat /\ i \in Nat /\ j \in Nat /\ i <= j
    OBVIOUS
  <1> DEFINE T == {k \in i .. Len(p) : C[i] <= C[k] /\ (i < k => C[i] < C[k])}
  <1>4. i \in T
    BY <1>2, <1>3
  <1>5. ASSUME NEW n \in i .. Len(p) - 1, n \in T PROVE n + 1 \in T
    <2>1. n + 1 \in 1 .. Len(p) /\ n + 1 \in i .. Len(p) /\ (n + 1) - 1 = n
          /\ n \in 0 .. Len(p) /\ n + 1 \in 0 .. Len(p)
      BY <1>3
    <2>2. C[i] \in Nat /\ C[n] \in Nat /\ C[n + 1] \in Nat /\ C[n] < C[n + 1] /\ C[i] <= C[n]
      BY <1>2, <1>5, <2>1
    <2>3. C[i] < C[n + 1]
      BY <2>2
    <2>4. QED BY <2>1, <2>2, <2>3
  <1> HIDE DEF T
  <1>6. i .. Len(p) \subseteq T
    BY <1>3, <1>4, <1>5, FromUpTo
  <1>7. j \in T
    BY <1>6
  <1>8. QED BY <1>1, <1>2, <1>3, <1>7 DEF T

(* A line that begins alike stands alike that far.                         *)
Matches(p, q, n) == n \in 0 .. Len(p) /\ n \in 0 .. Len(q) /\ \A i \in 1 .. n : p[i] = q[i]

LEMMA ColumnsAlike ==
  ASSUME NEW b \in Nat, NEW p \in Seq(CHARS), NEW q \in Seq(CHARS),
         NEW n, Matches(p, q, n), NEW j \in 0 .. n
  PROVE  Columns(b, p)[j] = Columns(b, q)[j]
  <1>1. PICK C, D : C = Columns(b, p) /\ D = Columns(b, q)
    OBVIOUS
  <1>2. /\ C[0] = b /\ \A k \in 1 .. Len(p) : C[k] = Forward(C[k - 1], p[k])
        /\ D[0] = b /\ \A k \in 1 .. Len(q) : D[k] = Forward(D[k - 1], q[k])
    BY <1>1, ColumnsAre
  <1>3. n \in Nat /\ n <= Len(p) /\ n <= Len(q) /\ Len(p) \in Nat /\ Len(q) \in Nat
    BY DEF Matches
  <1> DEFINE T == {k \in 0 .. n : C[k] = D[k]}
  <1>4. 0 \in T
    BY <1>2, <1>3
  <1>5. ASSUME NEW m \in 0 .. n - 1, m \in T PROVE m + 1 \in T
    <2>1. /\ m + 1 \in 1 .. Len(p) /\ m + 1 \in 1 .. Len(q) /\ m + 1 \in 1 .. n
          /\ m + 1 \in 0 .. n /\ (m + 1) - 1 = m
      BY <1>3
    <2>2. p[m + 1] = q[m + 1] /\ C[m] = D[m]
      BY <1>5, <2>1 DEF Matches
    <2>3. C[m + 1] = Forward(C[m], p[m + 1]) /\ D[m + 1] = Forward(D[m], q[m + 1])
      BY <1>2, <2>1
    <2>4. QED BY <2>1, <2>2, <2>3
  <1> HIDE DEF T
  <1>6. 0 .. n \subseteq T
    BY <1>3, <1>4, <1>5, FromUpTo
  <1>7. QED BY <1>1, <1>6 DEF T

-----------------------------------------------------------------------------
(* Characters lo + 1 to hi of p are on the row r.                          *)
Draws(r, b, p, lo, hi) ==
  \A k \in lo + 1 .. hi : \A i \in Cols :
    Columns(b, p)[k - 1] <= i /\ i < Columns(b, p)[k] =>
      r[i] = Glyph(p[k], i - Columns(b, p)[k - 1])

Echoed(s, p, n, f) == f = [i \in n .. Len(p) |-> IF i = n THEN s ELSE cookdout(f[i - 1], p[i])]

LEMMA EchoEnds ==
  ASSUME NEW s, NEW p \in Seq(CHARS), NEW n \in 0 .. Len(p)
  PROVE  \E f : Echoed(s, p, n, f)
  <1> DEFINE Till(f, m) == f = [i \in n .. m |-> IF i = n THEN s ELSE cookdout(f[i - 1], p[i])]
             T == {m \in Nat : \E f : Till(f, m)}
  <1>0. Len(p) \in Nat /\ n \in Nat /\ n <= Len(p)
    OBVIOUS
  <1>1. n \in T
    <2>1. Till([i \in n .. n |-> s], n)
      OBVIOUS
    <2>2. QED BY <1>0, <2>1
  <1>2. ASSUME NEW m \in n .. Len(p) - 1, m \in T PROVE m + 1 \in T
    <2>1. PICK f : Till(f, m)
      BY <1>2
    <2> DEFINE g == [i \in n .. m + 1 |-> IF i = m + 1 THEN cookdout(f[m], p[m + 1]) ELSE f[i]]
    <2>2. m \in Nat /\ m + 1 \in Nat /\ n <= m
      BY <1>0
    <2>3. \A i \in n .. m : f[i] = IF i = n THEN s ELSE cookdout(f[i - 1], p[i])
      BY <2>1
    <2>4. ASSUME NEW i \in n .. m + 1
          PROVE  g[i] = IF i = n THEN s ELSE cookdout(g[i - 1], p[i])
      <3>1. CASE i = m + 1
        <4>1. i # n /\ i - 1 = m /\ m \in n .. m + 1 /\ m # m + 1
          BY <1>0, <2>2, <3>1
        <4>2. g[i - 1] = f[m] /\ g[i] = cookdout(f[m], p[i])
          BY <3>1, <4>1
        <4>3. QED BY <4>1, <4>2
      <3>2. CASE i = n
        <4>1. i # m + 1 /\ i \in n .. m
          BY <1>0, <2>2, <3>2
        <4>2. QED BY <2>3, <3>2, <4>1
      <3>3. CASE i # n /\ i # m + 1
        <4>1. i \in n .. m /\ i - 1 \in n .. m /\ i - 1 \in n .. m + 1 /\ i - 1 # m + 1
          BY <1>0, <2>2, <3>3
        <4>2. g[i] = f[i] /\ g[i - 1] = f[i - 1]
          BY <3>3, <4>1
        <4>3. QED BY <2>3, <3>3, <4>1, <4>2
      <3>4. QED BY <3>1, <3>2, <3>3
    <2>5. Till(g, m + 1)
      <3>1. g = [i \in n .. m + 1 |-> g[i]]
        OBVIOUS
      <3> HIDE DEF g
      <3>2. QED BY <2>4, <3>1
    <2>6. QED BY <2>2, <2>5
  <1> HIDE DEF T
  <1>4. n .. Len(p) \subseteq T
    BY <1>0, <1>1, <1>2, FromUpTo
  <1>5. Len(p) \in T
    BY <1>0, <1>4
  <1>6. QED BY <1>5 DEF T, Echoed

(* toend() draws the rest of the line and touches no other column.         *)
LEMMA ToEndIs ==
  ASSUME NEW b \in Nat, NEW p \in Seq(CHARS), NEW n \in 0 .. Len(p), NEW s \in Screens,
         s.col = Columns(b, p)[n]
  PROVE  LET t == toend(s, p, n)
             C == Columns(b, p)
         IN  /\ t \in Screens /\ t.col = C[Len(p)] /\ Draws(t.row, b, p, n, Len(p))
             /\ \A i \in Cols : i < C[n] \/ C[Len(p)] <= i => t.row[i] = s.row[i]
  <1>0. PICK C : C = Columns(b, p)
    OBVIOUS
  <1> DEFINE f == CHOOSE g : Echoed(s, p, n, g)
  <1>1. Echoed(s, p, n, f)
    BY EchoEnds, Zenon
  <1>2. toend(s, p, n) = f[Len(p)]
    BY Zenon DEF toend, Echoed
  <1> HIDE DEF f
  <1>3. Len(p) \in Nat /\ n \in Nat /\ n <= Len(p) /\ Cols \subseteq Int
        /\ \A i \in 1 .. Len(p) : p[i] \in CHARS
    BY DEF Cols
  <1>4. \A i \in n .. Len(p) : f[i] = IF i = n THEN s ELSE cookdout(f[i - 1], p[i])
    BY <1>1 DEF Echoed
  <1>5. /\ \A i \in 0 .. Len(p) : C[i] \in Nat
        /\ \A i \in 1 .. Len(p) : C[i] = Forward(C[i - 1], p[i])
    BY <1>0, ColumnsAre
  <1>6. \A i \in 0 .. Len(p) : \A j \in i .. Len(p) : C[i] <= C[j]
    BY <1>0, ColumnsGrow
  <1> DEFINE Right(m) == /\ f[m] \in Screens /\ f[m].col = C[m] /\ Draws(f[m].row, b, p, n, m)
                         /\ \A i \in Cols : i < C[n] \/ C[m] <= i => f[m].row[i] = s.row[i]
             T == {m \in n .. Len(p) : Right(m)}
  <1>7. n \in T
    <2>1. n \in n .. Len(p) /\ f[n] = s
      BY <1>3, <1>4
    <2>2. Draws(s.row, b, p, n, n)
      BY <1>3 DEF Draws
    <2>3. QED BY <1>0, <2>1, <2>2
  <1>8. ASSUME NEW m \in n .. Len(p) - 1, m \in T PROVE m + 1 \in T
    <2>1. PICK k \in Nat : k = m + 1
      BY <1>3
    <2>2. /\ k \in n .. Len(p) /\ k \in 1 .. Len(p) /\ k # n /\ k - 1 = m /\ m \in 0 .. Len(p)
          /\ n \in 0 .. Len(p) /\ m \in n .. Len(p) /\ k \in m .. Len(p) /\ k \in 0 .. Len(p)
      BY <1>3, <2>1
    <2>3. Right(m)
      BY <1>8
    <2>4. PICK u, t : u = f[m] /\ t = f[k]
      OBVIOUS
    <2>5. t = cookdout(u, p[k]) /\ p[k] \in CHARS
      BY <1>3, <1>4, <2>2, <2>4
    <2>6. u \in Screens /\ u.col = C[m]
      BY <2>3, <2>4
    <2>7. /\ t \in Screens /\ t.col = Forward(u.col, p[k])
          /\ \A i \in Cols : t.row[i] = IF u.col <= i /\ i < t.col THEN Glyph(p[k], i - u.col)
                                          ELSE u.row[i]
      BY <2>5, <2>6, EchoIs
    <2>8. t.col = C[k]
      BY <1>5, <2>2, <2>6, <2>7
    <2>9. C[n] \in Nat /\ C[m] \in Nat /\ C[k] \in Nat /\ C[n] <= C[m] /\ C[m] <= C[k]
      BY <1>5, <1>6, <2>2
    <2>10. Draws(t.row, b, p, n, k)
      <3>1. SUFFICES ASSUME NEW j \in n + 1 .. k, NEW i \in Cols, C[j - 1] <= i, i < C[j]
                     PROVE  t.row[i] = Glyph(p[j], i - C[j - 1])
        BY <1>0 DEF Draws
      <3>2. CASE j = k
        BY <2>2, <2>6, <2>7, <2>8, <3>1, <3>2
      <3>3. CASE j # k
        <4>1. j \in n + 1 .. m /\ j \in 0 .. Len(p) /\ m \in j .. Len(p)
          BY <1>3, <2>1, <2>2, <3>3
        <4>2. C[j] \in Nat /\ C[j] <= C[m]
          BY <1>5, <1>6, <4>1
        <4>3. ~ (C[m] <= i)
          BY <1>3, <2>9, <3>1, <4>2
        <4>4. t.row[i] = u.row[i]
          BY <2>6, <2>7, <4>3
        <4>5. u.row[i] = Glyph(p[j], i - C[j - 1])
          BY <1>0, <2>3, <2>4, <3>1, <4>1 DEF Draws
        <4>6. QED BY <4>4, <4>5
      <3>4. QED BY <3>2, <3>3
    <2>11. ASSUME NEW i \in Cols, i < C[n] \/ C[k] <= i PROVE t.row[i] = s.row[i]
      <3>1. ~ (C[m] <= i /\ i < C[k]) /\ (i < C[n] \/ C[m] <= i)
        BY <1>3, <2>9, <2>11
      <3>2. t.row[i] = u.row[i]
        BY <2>6, <2>7, <2>8, <3>1
      <3>3. QED BY <2>3, <2>4, <3>1, <3>2
    <2>12. Right(k)
      BY <2>4, <2>7, <2>8, <2>10, <2>11
    <2>13. QED BY <2>1, <2>2, <2>12
  <1> HIDE DEF Right
  <1>9. Right(Len(p))
    <2> HIDE DEF T
    <2>1. n .. Len(p) \subseteq T
      BY <1>3, <1>7, <1>8, FromUpTo
    <2>2. Len(p) \in T
      BY <1>3, <2>1
    <2>3. QED BY <2>2 DEF T
  <1>10. QED BY <1>0, <1>2, <1>9 DEF Right
-----------------------------------------------------------------------------
(* The row shows the line p from column b on and nothing else; it is the   *)
(* only row that does.                                                     *)
Clear(r, lo, hi) == \A i \in Cols : i < lo \/ hi <= i => r[i] = " "
Picture(r, b, p) == Draws(r, b, p, 0, Len(p)) /\ Clear(r, b, Columns(b, p)[Len(p)])

LEMMA PictureOne ==
  ASSUME NEW b \in Nat, NEW p \in Seq(CHARS), NEW r \in Rows, NEW q \in Rows,
         Picture(r, b, p), Picture(q, b, p)
  PROVE  r = q
  <1>0. PICK C : C = Columns(b, p)
    OBVIOUS
  <1>1. /\ C[0] = b /\ \A i \in 0 .. Len(p) : C[i] \in Nat
        /\ Len(p) \in Nat /\ Cols \subseteq Nat
    BY <1>0, ColumnsAre DEF Cols
  <1>2. ASSUME NEW i \in Cols PROVE r[i] = q[i]
    <2>1. CASE i < b \/ C[Len(p)] <= i
      <3>1. i < b \/ Columns(b, p)[Len(p)] <= i
        BY <1>0, <2>1
      <3>2. r[i] = " " /\ q[i] = " "
        BY <3>1 DEF Picture, Clear
      <3>3. QED BY <3>2
    <2>2. CASE ~ (i < b \/ C[Len(p)] <= i)
      <3> DEFINE T == {k \in 0 .. Len(p) : i < C[k]}
      <3>1. T \subseteq Nat /\ Len(p) \in T
        BY <1>1, <2>2
      <3>2. PICK k \in T : \A y \in T : k <= y
        BY <3>1, NatLeast
      <3>3. k \in 0 .. Len(p) /\ i < C[k] /\ k # 0
        BY <1>1, <2>2, <3>2
      <3>4. PICK j \in Nat : j = k - 1
        BY <1>1, <3>3
      <3>5. j \in 0 .. Len(p) /\ ~ (k <= j) /\ k \in 1 .. Len(p)
        BY <1>1, <3>3, <3>4
      <3>6. j \notin T
        BY <3>2, <3>5
      <3>7. C[k - 1] <= i
        BY <1>1, <3>4, <3>5, <3>6
      <3>8. k \in 0 + 1 .. Len(p)
        BY <3>5
      <3>9. r[i] = Glyph(p[k], i - C[k - 1]) /\ q[i] = Glyph(p[k], i - C[k - 1])
        BY <1>0, <3>3, <3>7, <3>8 DEF Picture, Draws
      <3>10. QED BY <3>9
    <2>3. QED BY <2>1, <2>2
  <1>3. QED BY <1>2 DEF Rows

(* What is drawn of a line is drawn of any that begins alike.              *)
LEMMA DrawsAlike ==
  ASSUME NEW b \in Nat, NEW p \in Seq(CHARS), NEW q \in Seq(CHARS), NEW n, Matches(p, q, n),
         NEW r, NEW hi \in n .. Len(p), Draws(r, b, p, 0, hi)
  PROVE  Draws(r, b, q, 0, n)
  <1>1. n \in Nat /\ hi \in Nat /\ n <= hi
    BY DEF Matches
  <1>2. SUFFICES ASSUME NEW k \in 0 + 1 .. n
                 PROVE  /\ k \in 0 + 1 .. hi /\ p[k] = q[k]
                        /\ Columns(b, p)[k] = Columns(b, q)[k]
                        /\ Columns(b, p)[k - 1] = Columns(b, q)[k - 1]
    BY DEF Draws
  <1>3. k \in 0 .. n /\ k - 1 \in 0 .. n /\ k \in 1 .. n /\ k \in 0 + 1 .. hi
    BY <1>1
  <1>4. QED BY <1>3, ColumnsAlike DEF Matches

LEMMA DrawsJoin ==
  ASSUME NEW b, NEW p, NEW r, NEW n \in Nat, NEW hi \in Nat, n <= hi,
         Draws(r, b, p, 0, n), Draws(r, b, p, n, hi)
  PROVE  Draws(r, b, p, 0, hi)
  <1>1. \A k \in 0 + 1 .. hi : k \in 0 + 1 .. n \/ k \in n + 1 .. hi
    OBVIOUS
  <1>2. QED BY <1>1 DEF Draws

(* Where the console stands once it has moved back.                        *)
LEMMA BackIs ==
  ASSUME NEW s \in Screens, NEW col \in Nat, col <= s.col
  PROVE  LET t == backto(s, col)
         IN  t \in Screens /\ t.col = col /\ t.row = s.row
  BY DEF backto, Screens

(* The screen shows the line p that starts at b, the cursor at `at'.       *)
Follows(s, b, p, at) ==
  s \in Screens /\ Picture(s.row, b, p) /\ s.col = Columns(b, p)[at]

(* repaint(): the row shows what the lines have in common and, up to       *)
(* oldend, anything; afterwards it shows the new line.                     *)
LEMMA RepaintShows ==
  ASSUME NEW q \in Seq(CHARS), NEW s \in Screens, stcol \in Nat,
         NEW from \in 0 .. Len(q), NEW at \in 0 .. Len(q), NEW old \in Nat,
         s.col = Columns(stcol, q)[from],
         Draws(s.row, stcol, q, 0, from),
         Clear(s.row, stcol, old)
  PROVE  Follows(repaint(s, q, from, at, old), stcol, q, at)
  <1>14. PICK b \in Nat : b = stcol
    OBVIOUS
  <1>0. PICK C : b = stcol /\ C = Columns(b, q)
    BY <1>14
  <1>1. PICK shown : shown = toend(s, q, from)
    OBVIOUS
  <1>2. /\ shown \in Screens /\ shown.col = C[Len(q)] /\ Draws(shown.row, b, q, from, Len(q))
        /\ \A i \in Cols : i < C[from] \/ C[Len(q)] <= i => shown.row[i] = s.row[i]
    BY <1>0, <1>1, ToEndIs
  <1>3. PICK n \in Nat : n = Len(q)
    OBVIOUS
  <1>4. /\ C[0] = b /\ C[from] \in Nat /\ C[at] \in Nat /\ C[n] \in Nat /\ b <= C[from]
        /\ C[from] <= C[n] /\ C[at] <= C[n]
        /\ \A k \in 0 .. from : C[k] \in Nat /\ C[k] <= C[from]
        /\ \A k \in 1 .. n : C[k] \in Nat /\ C[k] <= C[n]
    <2>1. C[0] = b
      BY <1>0, ColumnsAre
    <2>2. \A i \in 0 .. n : \A j \in i .. n : C[i] \in Nat /\ C[j] \in Nat /\ C[i] <= C[j]
      BY <1>0, <1>3, ColumnsGrow
    <2>3. /\ 0 \in 0 .. n /\ from \in 0 .. n /\ at \in 0 .. n /\ n \in from .. n /\ n \in at .. n
          /\ \A k \in 0 .. from : k \in 0 .. n /\ from \in k .. n
          /\ \A k \in 1 .. n : k \in 0 .. n /\ n \in k .. n
      BY <1>3
    <2>4. QED BY <2>1, <2>2, <2>3
  <1>5. Cols \subseteq Int /\ s.row \in [Cols -> Glyphs]
    BY DEF Cols, Screens, Rows
  <1>6. Draws(shown.row, b, q, 0, n)
    <2>1. Draws(shown.row, b, q, 0, from)
      <3>1. SUFFICES ASSUME NEW k \in 0 + 1 .. from, NEW i \in Cols, C[k - 1] <= i, i < C[k]
                     PROVE  shown.row[i] = Glyph(q[k], i - C[k - 1])
        BY <1>0 DEF Draws
      <3>2. k \in 0 .. from
        OBVIOUS
      <3>3. i < C[from]
        BY <1>4, <1>5, <3>1, <3>2
      <3>4. shown.row[i] = s.row[i]
        BY <1>2, <3>3
      <3>5. s.row[i] = Glyph(q[k], i - C[k - 1])
        BY <1>0, <3>1 DEF Draws
      <3>6. QED BY <3>4, <3>5
    <2>2. from \in Nat /\ from <= n
      BY <1>3
    <2>3. QED BY <1>2, <1>3, <2>1, <2>2, DrawsJoin
  <1>7. PICK wiped : wiped = IF shown.col < old THEN Spaces(shown, old - shown.col) ELSE shown
    OBVIOUS
  <1>8. wiped \in Screens /\ Picture(wiped.row, b, q)
    <2>1. ASSUME NEW i \in Cols, i < b \/ C[n] <= i, i < b \/ old <= i
          PROVE  shown.row[i] = " "
      <3>1. i < C[from] \/ C[n] <= i
        BY <1>4, <1>5, <2>1
      <3>2. shown.row[i] = s.row[i] /\ s.row[i] = " "
        BY <1>0, <1>2, <1>3, <2>1, <3>1 DEF Clear
      <3>3. QED BY <3>2
    <2>2. CASE shown.col < old
      <3>1. PICK w \in Nat : w = old - shown.col
        BY <1>2, <1>3, <1>4, <2>2
      <3>2. C[n] + w = old /\ shown.col = C[n]
        BY <1>2, <1>3, <1>4, <3>1
      <3>3. wiped = Spaces(shown, w)
        BY <1>7, <2>2, <3>1
      <3>4. /\ wiped \in Screens
            /\ \A i \in Cols : wiped.row[i] =
                 IF C[n] <= i /\ i < old THEN " " ELSE shown.row[i]
        BY <1>2, <3>2, <3>3, SpacesIs
      <3>5. \A i \in Cols : i < b \/ C[n] <= i => wiped.row[i] = " "
        <4>1. SUFFICES ASSUME NEW i \in Cols, i < b \/ C[n] <= i PROVE wiped.row[i] = " "
          OBVIOUS
        <4>2. i \in Int
          BY <1>5
        <4>3. CASE C[n] <= i /\ i < old
          BY <3>4, <4>3
        <4>4. CASE ~ (C[n] <= i /\ i < old)
          <5>1. (i < b \/ C[n] <= i) /\ (i < b \/ old <= i)
            BY <1>4, <4>1, <4>2, <4>4
          <5>2. QED BY <2>1, <3>4, <4>4, <5>1
        <4>5. QED BY <4>3, <4>4
      <3>6. Draws(wiped.row, b, q, 0, n)
        <4>1. SUFFICES ASSUME NEW k \in 0 + 1 .. n, NEW i \in Cols, C[k - 1] <= i, i < C[k]
                       PROVE  wiped.row[i] = Glyph(q[k], i - C[k - 1])
          BY <1>0 DEF Draws
        <4>2. k \in 1 .. n
          OBVIOUS
        <4>3. ~ (C[n] <= i)
          BY <1>4, <1>5, <4>1, <4>2
        <4>4. wiped.row[i] = shown.row[i]
          BY <3>4, <4>3
        <4>5. QED BY <1>0, <1>6, <4>1, <4>4 DEF Draws
      <3>7. QED BY <1>0, <1>3, <3>4, <3>5, <3>6 DEF Picture, Clear
    <2>3. CASE ~ (shown.col < old)
      <3>1. wiped = shown
        BY <1>7, <2>3
      <3>2. old <= C[n]
        BY <1>2, <1>3, <1>4, <2>3
      <3>3. \A i \in Cols : i < b \/ C[n] <= i => shown.row[i] = " "
        <4>1. SUFFICES ASSUME NEW i \in Cols, i < b \/ C[n] <= i PROVE shown.row[i] = " "
          OBVIOUS
        <4>2. i \in Int
          BY <1>5
        <4>3. (i < b \/ C[n] <= i) /\ (i < b \/ old <= i)
          BY <1>4, <3>2, <4>1, <4>2
        <4>4. QED BY <2>1, <4>3
      <3>4. QED BY <1>0, <1>2, <1>3, <1>6, <3>1, <3>3 DEF Picture, Clear
    <2>4. QED BY <2>2, <2>3
  <1>9. PICK u : u = [wiped EXCEPT !.col = shown.col]
    OBVIOUS
  <1>10. u \in Screens /\ u.row = wiped.row /\ u.col = C[n]
    BY <1>2, <1>3, <1>4, <1>8, <1>9 DEF Screens
  <1>11. repaint(s, q, from, at, old) = backto(u, C[at])
    BY <1>0, <1>1, <1>7, <1>9, Zenon DEF repaint, gotoch, colof
  <1>12. LET t == backto(u, C[at]) IN t \in Screens /\ t.col = C[at] /\ t.row = u.row
    BY <1>4, <1>10, BackIs
  <1>13. QED BY <1>0, <1>8, <1>10, <1>11, <1>12 DEF Follows

(* ... and after a change behind the column the console is at.             *)
LEMMA Repaints ==
  ASSUME NEW p \in Seq(CHARS), NEW q \in Seq(CHARS), NEW s \in Screens, stcol \in Nat,
         Picture(s.row, stcol, p), NEW n, Matches(p, q, n), s.col = Columns(stcol, p)[n],
         NEW to \in 0 .. Len(q)
  PROVE  Follows(repaint(s, q, n, to, Columns(stcol, p)[Len(p)]), stcol, q, to)
  <1>1. n \in 0 .. Len(p) /\ n \in 0 .. Len(q) /\ n \in 0 .. n /\ Len(p) \in n .. Len(p)
    BY DEF Matches
  <1>2. Columns(stcol, p)[n] = Columns(stcol, q)[n]
    BY <1>1, ColumnsAlike
  <1>3. Draws(s.row, stcol, q, 0, n)
    BY <1>1, DrawsAlike DEF Picture
  <1>4. Columns(stcol, p)[Len(p)] \in Nat
    BY <1>1, ColumnsGrow
  <1>5. Clear(s.row, stcol, Columns(stcol, p)[Len(p)])
    BY DEF Picture
  <1>6. QED BY <1>1, <1>2, <1>3, <1>4, <1>5, RepaintShows

(* An empty row shows any line once it is echoed.                          *)
LEMMA BlankIs == Blank \in Rows /\ \A i \in Cols : Blank[i] = " "
  BY DEF Blank, Rows, Cols, Glyphs

LEMMA ShownIs ==
  ASSUME NEW p \in Seq(CHARS), NEW b \in Nat
  PROVE  LET t == toend([col |-> b, row |-> Blank], p, 0)
         IN  t.row \in Rows /\ Follows(t, b, p, Len(p))
  <1>1. PICK s, t : s = [col |-> b, row |-> Blank] /\ t = toend(s, p, 0)
    OBVIOUS
  <1>2. s \in Screens /\ s.col = b /\ s.row = Blank
    BY <1>1, BlankIs DEF Screens
  <1>3. Columns(b, p)[0] = b /\ 0 \in 0 .. Len(p)
    BY ColumnsAre
  <1>4. /\ t \in Screens /\ t.col = Columns(b, p)[Len(p)] /\ Draws(t.row, b, p, 0, Len(p))
        /\ \A i \in Cols : i < Columns(b, p)[0] \/ Columns(b, p)[Len(p)] <= i =>
             t.row[i] = s.row[i]
    BY <1>1, <1>2, <1>3, ToEndIs
  <1>5. Clear(t.row, b, Columns(b, p)[Len(p)])
    BY <1>2, <1>3, <1>4, BlankIs DEF Clear
  <1>6. t.row \in Rows
    BY <1>4 DEF Screens
  <1>7. QED BY <1>1, <1>4, <1>5, <1>6 DEF Follows, Picture

LEMMA BlankFollows ==
  ASSUME NEW b \in Nat
  PROVE  Follows([col |-> b, row |-> Blank], b, <<>>, 0)
  <1>1. PICK s : s = [col |-> b, row |-> Blank]
    OBVIOUS
  <1>2. s \in Screens /\ s.col = b /\ s.row = Blank
    BY <1>1, BlankIs DEF Screens
  <1>0. <<>> \in Seq(CHARS) /\ Len(<<>>) = 0
    OBVIOUS
  <1>3. Columns(b, <<>>)[0] = b
    BY <1>0, ColumnsAre
  <1>4. Draws(s.row, b, <<>>, 0, 0) /\ Clear(s.row, b, b)
    <2>1. \A k \in 0 + 1 .. 0 : FALSE
      OBVIOUS
    <2>2. QED BY <1>2, <2>1, BlankIs DEF Draws, Clear
  <1>5. QED BY <1>0, <1>1, <1>2, <1>3, <1>4 DEF Follows, Picture

LEMMA OnlyBlank ==
  ASSUME NEW b \in Nat, NEW s, Follows(s, b, <<>>, 0)
  PROVE  s = [col |-> b, row |-> Blank]
  <1>1. <<>> \in Seq(CHARS)
    OBVIOUS
  <1>2. PICK t : t = [col |-> b, row |-> Blank]
    OBVIOUS
  <1>3. Follows(t, b, <<>>, 0)
    BY <1>2, BlankFollows
  <1>4. s \in Screens /\ t \in Screens /\ s.col = t.col
    BY <1>3 DEF Follows
  <1>5. s.row \in Rows /\ t.row \in Rows
    BY <1>4 DEF Screens
  <1>6. s.row = t.row
    BY <1>1, <1>3, <1>5, PictureOne DEF Follows
  <1>7. QED BY <1>2, <1>4, <1>6 DEF Screens

(* Echoing what is there already changes no column.                        *)
LEMMA EchoFollows ==
  ASSUME NEW p \in Seq(CHARS), NEW b \in Nat, NEW at \in 0 .. Len(p), NEW s, Follows(s, b, p, at)
  PROVE  /\ Follows(toend(s, p, at), b, p, Len(p))
         /\ at < Len(p) => Follows(cookdout(s, p[at + 1]), b, p, at + 1)
  <1>0. PICK C, n : C = Columns(b, p) /\ n = Len(p)
    OBVIOUS
  <1>10. n \in Nat
    BY <1>0
  <1>1. s \in Screens /\ s.col = C[at] /\ Picture(s.row, b, p) /\ Cols \subseteq Int
    BY <1>0 DEF Follows, Cols
  <1>2. /\ C[0] = b /\ C[at] \in Nat /\ C[n] \in Nat /\ b <= C[at] /\ C[at] <= C[n]
        /\ \A i \in 0 .. n : \A j \in i .. n : C[i] \in Nat /\ C[j] \in Nat /\ C[i] <= C[j]
        /\ \A i \in 1 .. n : C[i] = Forward(C[i - 1], p[i]) /\ p[i] \in CHARS
    <2>5. \A i \in 1 .. n : p[i] \in CHARS
      BY <1>0
    <2>1. C[0] = b /\ \A i \in 1 .. n : C[i] = Forward(C[i - 1], p[i]) /\ p[i] \in CHARS
      BY <1>0, <2>5, ColumnsAre
    <2>2. \A i \in 0 .. n : \A j \in i .. n : C[i] \in Nat /\ C[j] \in Nat /\ C[i] <= C[j]
      BY <1>0, ColumnsGrow
    <2>3. 0 \in 0 .. n /\ at \in 0 .. n /\ n \in at .. n
      BY <1>0
    <2>4. QED BY <2>1, <2>2, <2>3
  <1>3. Follows(toend(s, p, at), b, p, Len(p))
    <2>1. PICK t : t = toend(s, p, at)
      OBVIOUS
    <2>2. /\ t \in Screens /\ t.col = C[n] /\ Draws(t.row, b, p, at, n)
          /\ \A i \in Cols : i < C[at] \/ C[n] <= i => t.row[i] = s.row[i]
      BY <1>0, <1>1, <2>1, ToEndIs
    <2>3. Draws(t.row, b, p, 0, at)
      <3>1. SUFFICES ASSUME NEW k \in 0 + 1 .. at, NEW i \in Cols, C[k - 1] <= i, i < C[k]
                     PROVE  t.row[i] = Glyph(p[k], i - C[k - 1])
        BY <1>0 DEF Draws
      <3>2. k \in 0 .. n /\ at \in k .. n /\ k \in 0 + 1 .. n
        BY <1>0
      <3>3. i < C[at]
        BY <1>1, <1>2, <3>1, <3>2
      <3>4. t.row[i] = s.row[i]
        BY <2>2, <3>3
      <3>5. QED BY <1>0, <1>1, <3>1, <3>2, <3>4 DEF Picture, Draws
    <2>4. Draws(t.row, b, p, 0, n)
      <3>1. at \in Nat /\ at <= n
        BY <1>0
      <3>2. QED BY <1>10, <2>2, <2>3, <3>1, DrawsJoin
    <2>5. Clear(t.row, b, C[n])
      <3>1. SUFFICES ASSUME NEW i \in Cols, i < b \/ C[n] <= i PROVE t.row[i] = " "
        BY DEF Clear
      <3>2. i < C[at] \/ C[n] <= i
        BY <1>1, <1>2, <3>1
      <3>3. t.row[i] = s.row[i]
        BY <2>2, <3>2
      <3>4. QED BY <1>0, <1>1, <3>1, <3>3 DEF Picture, Clear
    <2>6. Picture(t.row, b, p)
      BY <1>0, <2>4, <2>5, Zenon DEF Picture
    <2>7. t.col = Columns(b, p)[Len(p)]
      BY <1>0, <2>2, Zenon
    <2>8. QED BY <2>1, <2>2, <2>6, <2>7, Zenon DEF Follows
  <1>4. ASSUME at < n PROVE Follows(cookdout(s, p[at + 1]), b, p, at + 1)
    <2>1. PICK k \in 1 .. n : k = at + 1
      BY <1>0, <1>4
    <2>2. PICK t : t = cookdout(s, p[k])
      OBVIOUS
    <2>3. k - 1 = at /\ p[k] \in CHARS /\ C[k] = Forward(C[at], p[k]) /\ k \in 0 + 1 .. n
      BY <1>2, <2>1
    <2>4. /\ t \in Screens /\ t.col = C[k]
          /\ \A i \in Cols : t.row[i] = IF C[at] <= i /\ i < C[k] THEN Glyph(p[k], i - C[at])
                                          ELSE s.row[i]
      BY <1>1, <2>2, <2>3, EchoIs
    <2>5. \A i \in Cols : C[at] <= i /\ i < C[k] => s.row[i] = Glyph(p[k], i - C[at])
      BY <1>0, <1>1, <2>3 DEF Picture, Draws
    <2>6. \A i \in Cols : t.row[i] = s.row[i]
      BY <2>4, <2>5
    <2>7. t.row = s.row
      BY <1>1, <2>4, <2>6 DEF Screens, Rows
    <2>8. QED BY <1>0, <1>1, <2>1, <2>2, <2>4, <2>7 DEF Follows
  <1>5. QED BY <1>0, <1>3, <1>4

(* Moving back within the line.                                            *)
LEMMA BackFollows ==
  ASSUME NEW p \in Seq(CHARS), NEW b \in Nat, NEW at \in 0 .. Len(p), NEW s, Follows(s, b, p, at),
         NEW to \in 0 .. at
  PROVE  Follows(backto(s, Columns(b, p)[to]), b, p, to)
  <1>1. s \in Screens /\ s.col = Columns(b, p)[at] /\ Picture(s.row, b, p)
    BY DEF Follows
  <1>2. to \in 0 .. Len(p) /\ at \in to .. Len(p)
    OBVIOUS
  <1>3. Columns(b, p)[to] \in Nat /\ Columns(b, p)[to] <= s.col
    BY <1>1, <1>2, ColumnsGrow
  <1>4. QED BY <1>1, <1>3, BackIs DEF Follows

(* What the property says of a screen that follows its line.               *)
LEMMA FollowsMeans ==
  ASSUME NEW p \in Seq(CHARS), NEW b \in Nat, NEW at \in 0 .. Len(p), NEW s, Follows(s, b, p, at)
  PROVE  /\ s.row = toend([col |-> b, row |-> Blank], p, 0).row
         /\ s.col = toend([col |-> b, row |-> Blank], SubSeq(p, 1, at), 0).col
  <1>1. PICK q : q = SubSeq(p, 1, at)
    OBVIOUS
  <1>2. q \in Seq(CHARS) /\ Len(q) = at /\ Matches(p, q, at) /\ at \in 0 .. at
    BY <1>1 DEF Matches
  <1>3. PICK t, u : /\ t = toend([col |-> b, row |-> Blank], p, 0)
                    /\ u = toend([col |-> b, row |-> Blank], q, 0)
    OBVIOUS
  <1>4. t.row \in Rows /\ Follows(t, b, p, Len(p)) /\ Follows(u, b, q, Len(q))
    BY <1>2, <1>3, ShownIs
  <1>5. s.row = t.row
    <2>1. s.row \in Rows /\ Picture(s.row, b, p) /\ Picture(t.row, b, p)
      BY <1>4 DEF Follows, Screens
    <2>2. QED BY <1>4, <2>1, PictureOne
  <1>6. s.col = u.col
    <2>1. s.col = Columns(b, p)[at] /\ u.col = Columns(b, q)[at]
      BY <1>2, <1>4 DEF Follows
    <2>2. QED BY <1>2, <2>1, ColumnsAlike
  <1>7. QED BY <1>1, <1>3, <1>5, <1>6

-----------------------------------------------------------------------------
(* The lines being edited.  What is shared, stcol, is the column of every   *)
(* line that is open.                                                      *)
LineTypes ==
  /\ line \in [CONSOLES -> Seq(CHARS)] /\ cur \in [CONSOLES -> Nat]
  /\ screen \in [CONSOLES -> Screens] /\ start \in [CONSOLES -> Nat]
  /\ editing \in [CONSOLES -> {"no", "yes", "apart"}]
  /\ stcol \in Nat /\ lastlin \in Seq(CHARS)
OnConsole(c) ==
  /\ cur[c] <= Len(line[c])
  /\ Open(c) => start[c] = stcol /\ start[c] \in PROMPTS
  /\ editing[c] = "yes" => Follows(screen[c], start[c], line[c], cur[c])
LineInv == LineTypes /\ \A c \in CONSOLES : OnConsole(c)

(* stcol serves every line: one console, or one prompt.                    *)
OneStart == (\E c : CONSOLES = {c}) \/ (\E n : PROMPTS = {n})

LEMMA EditedKeeps ==
  ASSUME LineInv, NEW c \in CONSOLES, Open(c), NEW p \in Seq(CHARS), NEW at \in 0 .. Len(p),
         NEW s, NEW mode \in {"no", "yes", "apart"}, mode # "apart" => s \in Screens,
         mode = "yes" => Follows(s, stcol, p, at),
         Edited(c, p, at, s, mode), lastlin' \in Seq(CHARS)
  PROVE  LineInv'
  <1>1. PICK u : u = IF mode = "apart" THEN Unfollowed ELSE s
    OBVIOUS
  <1>2. Unfollowed \in Screens
    BY BlankIs DEF Unfollowed, Screens
  <1>3. u \in Screens
    BY <1>1, <1>2
  <1>4. /\ line' = [line EXCEPT ![c] = p] /\ cur' = [cur EXCEPT ![c] = at]
        /\ screen' = [screen EXCEPT ![c] = u] /\ editing' = [editing EXCEPT ![c] = mode]
        /\ start' = start /\ stcol' = stcol
    BY <1>1 DEF Edited
  <1>5. at \in Nat /\ at <= Len(p)
    OBVIOUS
  <1>6. LineTypes'
    BY <1>3, <1>4, <1>5 DEF LineInv, LineTypes
  <1>7. ASSUME NEW d \in CONSOLES PROVE OnConsole(d)'
    <2>1. CASE d = c
      <3>1. line'[c] = p /\ cur'[c] = at /\ screen'[c] = u /\ editing'[c] = mode
        BY <1>4 DEF LineInv, LineTypes
      <3>2. start[c] = stcol /\ start[c] \in PROMPTS
        BY DEF LineInv, OnConsole
      <3>3. mode = "yes" => Follows(u, start[c], p, at)
        BY <1>1, <3>2
      <3>4. QED BY <1>4, <1>5, <2>1, <3>1, <3>2, <3>3, Zenon DEF OnConsole
    <2>2. CASE d # c
      <3>1. /\ line'[d] = line[d] /\ cur'[d] = cur[d] /\ screen'[d] = screen[d]
            /\ editing'[d] = editing[d]
        BY <1>4, <2>2 DEF LineInv, LineTypes
      <3>2. OnConsole(d)
        BY DEF LineInv
      <3>3. QED BY <1>4, <3>1, <3>2, Zenon DEF OnConsole, Open
    <2>3. QED BY <2>1, <2>2
  <1>8. QED BY <1>6, <1>7 DEF LineInv

LEMMA PlainlyKeeps ==
  ASSUME LineInv, NEW c \in CONSOLES, Open(c), NEW p \in Seq(CHARS), NEW at \in 0 .. Len(p),
         NEW s, editing[c] = "yes" => Follows(s, stcol, p, at), Plainly(c, p, at, s)
  PROVE  LineInv'
  <1>1. editing[c] \in {"yes", "apart"} /\ lastlin \in Seq(CHARS)
    BY DEF LineInv, LineTypes, Open
  <1>2. editing[c] # "apart" => s \in Screens
    BY <1>1 DEF Follows
  <1>3. Edited(c, p, at, s, editing[c]) /\ lastlin' \in Seq(CHARS)
    BY <1>1 DEF Plainly
  <1>4. QED BY <1>1, <1>2, <1>3, EditedKeeps

(* What an open line is.                                                   *)
LEMMA OpenLine ==
  ASSUME LineInv, NEW c \in CONSOLES, Open(c)
  PROVE  /\ line[c] \in Seq(CHARS) /\ cur[c] \in 0 .. Len(line[c]) /\ Len(line[c]) \in Nat
         /\ screen[c] \in Screens /\ stcol \in Nat /\ lastlin \in Seq(CHARS)
         /\ oldend(c) = Columns(stcol, line[c])[Len(line[c])]
         /\ editing[c] = "yes" =>
              /\ Follows(screen[c], stcol, line[c], cur[c]) /\ Picture(screen[c].row, stcol, line[c])
              /\ screen[c].col = Columns(stcol, line[c])[cur[c]]
  <1>1. LineTypes /\ OnConsole(c)
    BY DEF LineInv
  <1>2. oldend(c) = Columns(stcol, line[c])[Len(line[c])]
    BY DEF oldend, colof
  <1>3. /\ line[c] \in Seq(CHARS) /\ cur[c] \in Nat /\ screen[c] \in Screens
        /\ stcol \in Nat /\ lastlin \in Seq(CHARS)
    BY <1>1 DEF LineTypes
  <1>4. cur[c] <= Len(line[c])
    BY <1>1 DEF OnConsole
  <1>5. cur[c] \in 0 .. Len(line[c]) /\ Len(line[c]) \in Nat
    BY <1>3, <1>4
  <1>6. editing[c] = "yes" => Follows(screen[c], stcol, line[c], cur[c])
    BY <1>1 DEF OnConsole
  <1>7. QED BY <1>2, <1>3, <1>5, <1>6, Zenon DEF Follows

(* Changes of a line.                                                      *)
LEMMA JoinedIs ==
  ASSUME NEW a \in Seq(CHARS), NEW b \in Seq(CHARS), NEW q, q = a \o b
  PROVE  /\ q \in Seq(CHARS) /\ Len(q) = Len(a) + Len(b) /\ Len(b) \in Nat
         /\ \A i \in 1 .. Len(a) : q[i] = a[i]
  <1>1. Len(a) \in Nat /\ Len(b) \in Nat
    OBVIOUS
  <1>2. /\ q \in Seq(CHARS) /\ Len(q) = Len(a) + Len(b)
        /\ \A i \in 1 .. Len(a) + Len(b) : q[i] = IF i <= Len(a) THEN a[i] ELSE b[i - Len(a)]
    BY ConcatProperties, Zenon
  <1>3. QED BY <1>1, <1>2

LEMMA InsertedIs ==
  ASSUME NEW p \in Seq(CHARS), NEW at \in 0 .. Len(p), NEW ch \in CHARS
  PROVE  LET q == SubSeq(p, 1, at) \o <<ch>> \o SubSeq(p, at + 1, Len(p))
         IN  q \in Seq(CHARS) /\ Matches(p, q, at) /\ at + 1 \in 0 .. Len(q)
  <1>1. PICK a, b : a = SubSeq(p, 1, at) /\ b = SubSeq(p, at + 1, Len(p))
    OBVIOUS
  <1>2. a \in Seq(CHARS) /\ b \in Seq(CHARS) /\ Len(a) = at /\ <<ch>> \in Seq(CHARS)
        /\ Len(<<ch>>) = 1 /\ \A i \in 1 .. at : a[i] = p[i]
    BY <1>1
  <1>3. PICK x : x = a \o <<ch>>
    OBVIOUS
  <1>4. x \in Seq(CHARS) /\ Len(x) = at + 1 /\ \A i \in 1 .. at : x[i] = p[i]
    BY <1>2, <1>3
  <1>5. PICK q : q = x \o b
    OBVIOUS
  <1>6. q \in Seq(CHARS) /\ Len(q) = at + 1 + Len(b) /\ Len(b) \in Nat
        /\ \A i \in 1 .. at : q[i] = x[i]
    <2>1. q \in Seq(CHARS) /\ Len(q) = Len(x) + Len(b) /\ Len(b) \in Nat
          /\ \A i \in 1 .. Len(x) : q[i] = x[i]
      <3>1. x \in Seq(CHARS) /\ b \in Seq(CHARS)
        BY <1>2, <1>4
      <3>2. QED BY <1>5, <3>1, JoinedIs
    <2>2. \A i \in 1 .. at : i \in 1 .. Len(x)
      BY <1>4
    <2>3. QED BY <1>4, <2>1, <2>2
  <1>7. Matches(p, q, at) /\ at + 1 \in 0 .. Len(q)
    BY <1>4, <1>6 DEF Matches
  <1>8. QED BY <1>1, <1>3, <1>5, <1>6, <1>7

LEMMA CutIs ==
  ASSUME NEW p \in Seq(CHARS), NEW at \in 0 .. Len(p)
  PROVE  LET q == SubSeq(p, 1, at)
         IN  q \in Seq(CHARS) /\ Matches(p, q, at) /\ at \in 0 .. Len(q)
  BY DEF Matches

LEMMA DeletedIs ==
  ASSUME NEW p \in Seq(CHARS), NEW at \in 0 .. Len(p) - 1
  PROVE  LET q == delch(p, at)
         IN  q \in Seq(CHARS) /\ Matches(p, q, at) /\ at \in 0 .. Len(q)
  <1>1. PICK a, b : a = SubSeq(p, 1, at) /\ b = SubSeq(p, at + 2, Len(p))
    OBVIOUS
  <1>2. a \in Seq(CHARS) /\ Len(a) = at /\ \A i \in 1 .. at : a[i] = p[i]
    BY <1>1
  <1>3. b \in Seq(CHARS) /\ Len(b) \in Nat
    BY <1>1
  <1>4. PICK q : q = a \o b
    OBVIOUS
  <1>5. q \in Seq(CHARS) /\ Len(q) = at + Len(b) /\ \A i \in 1 .. at : q[i] = a[i]
    <2>1. q \in Seq(CHARS) /\ Len(q) = Len(a) + Len(b) /\ \A i \in 1 .. Len(a) : q[i] = a[i]
      BY <1>2, <1>3, <1>4, JoinedIs
    <2>2. QED BY <1>2, <2>1
  <1>6. Matches(p, q, at) /\ at \in 0 .. Len(q)
    BY <1>2, <1>3, <1>5 DEF Matches
  <1>7. QED BY <1>1, <1>4, <1>5, <1>6 DEF delch

(* One lemma for each key.                                                 *)
LEMMA InsertKeeps ==
  ASSUME LineInv, NEW c \in CONSOLES, NEW ch \in CHARS, Insert(c, ch)
  PROVE  LineInv'
  <1>0. PICK p, at : p = line[c] /\ at = cur[c]
    OBVIOUS
  <1>1. PICK q : q = SubSeq(p, 1, at) \o <<ch>> \o SubSeq(p, at + 1, Len(p))
    OBVIOUS
  <1>2. PICK s : s = repaint(screen[c], q, at, at + 1, oldend(c))
    OBVIOUS
  <1>3. Open(c) /\ Plainly(c, q, at + 1, s)
    BY <1>0, <1>1, <1>2 DEF Insert
  <1>4. /\ p \in Seq(CHARS) /\ at \in 0 .. Len(p) /\ screen[c] \in Screens /\ stcol \in Nat
        /\ oldend(c) = Columns(stcol, p)[Len(p)]
        /\ editing[c] = "yes" => /\ Picture(screen[c].row, stcol, p)
                                 /\ screen[c].col = Columns(stcol, p)[at]
    BY <1>0, <1>3, OpenLine
  <1>5. q \in Seq(CHARS) /\ Matches(p, q, at) /\ at + 1 \in 0 .. Len(q)
    BY <1>1, <1>4, InsertedIs
  <1>6. editing[c] = "yes" => Follows(s, stcol, q, at + 1)
    BY <1>2, <1>4, <1>5, Repaints
  <1>7. QED BY <1>3, <1>5, <1>6, PlainlyKeeps

LEMMA RubKeeps ==
  ASSUME LineInv, NEW c \in CONSOLES, NEW key, Rub(c, key)
  PROVE  LineInv'
  <1>0. PICK p, at, q : p = line[c] /\ at = cur[c] - 1 /\ q = delch(p, at)
    OBVIOUS
  <1>1. PICK s : s = repaint(gotoch(screen[c], q, at), q, at, at, oldend(c))
    OBVIOUS
  <1>2. /\ Open(c) /\ cur[c] > 0
        /\ \/ Edited(c, q, at, conout(screen[c], line[c][cur[c]]), "apart") /\ UNCHANGED lastlin
           \/ Plainly(c, q, at, s)
    BY <1>0, <1>1 DEF Rub
  <1>3. /\ p \in Seq(CHARS) /\ cur[c] \in 0 .. Len(p) /\ Len(p) \in Nat
        /\ stcol \in Nat /\ lastlin \in Seq(CHARS)
        /\ oldend(c) = Columns(stcol, p)[Len(p)]
        /\ editing[c] = "yes" => Follows(screen[c], stcol, p, cur[c])
    BY <1>0, <1>2, OpenLine
  <1>4. at \in 0 .. Len(p) - 1 /\ at \in 0 .. cur[c] /\ at \in 0 .. Len(p)
    BY <1>0, <1>2, <1>3
  <1>5. q \in Seq(CHARS) /\ Matches(p, q, at) /\ at \in 0 .. Len(q) /\ at \in 0 .. at
    BY <1>0, <1>3, <1>4, DeletedIs
  <1>6. CASE Edited(c, q, at, conout(screen[c], line[c][cur[c]]), "apart") /\ UNCHANGED lastlin
    BY <1>2, <1>3, <1>5, <1>6, EditedKeeps
  <1>7. CASE Plainly(c, q, at, s)
    <2>1. ASSUME editing[c] = "yes" PROVE Follows(s, stcol, q, at)
      <3>1. PICK u : u = backto(screen[c], Columns(stcol, p)[at])
        OBVIOUS
      <3>2. Follows(u, stcol, p, at)
        BY <1>3, <1>4, <2>1, <3>1, BackFollows
      <3>3. Columns(stcol, p)[at] = Columns(stcol, q)[at]
        BY <1>3, <1>5, ColumnsAlike
      <3>4. u = gotoch(screen[c], q, at)
        BY <3>1, <3>3 DEF gotoch, colof
      <3>5. u \in Screens /\ Picture(u.row, stcol, p) /\ u.col = Columns(stcol, p)[at]
        BY <3>2 DEF Follows
      <3>6. s = repaint(u, q, at, at, Columns(stcol, p)[Len(p)])
        BY <1>1, <1>3, <3>4
      <3>7. QED BY <1>3, <1>5, <3>5, <3>6, Repaints
    <2>2. QED BY <1>2, <1>5, <1>7, <2>1, PlainlyKeeps
  <1>8. QED BY <1>2, <1>6, <1>7

(* ^G and ^K: what is behind the cursor changes.                           *)
LEMMA BehindKeeps ==
  ASSUME LineInv, NEW c \in CONSOLES, Open(c), NEW q \in Seq(CHARS), Matches(line[c], q, cur[c]),
         Plainly(c, q, cur[c], repaint(screen[c], q, cur[c], cur[c], oldend(c)))
  PROVE  LineInv'
  <1>1. PICK s : s = repaint(screen[c], q, cur[c], cur[c], oldend(c))
    OBVIOUS
  <1>2. cur[c] \in 0 .. Len(q)
    BY DEF Matches
  <1>3. /\ line[c] \in Seq(CHARS) /\ screen[c] \in Screens /\ stcol \in Nat
        /\ oldend(c) = Columns(stcol, line[c])[Len(line[c])]
        /\ editing[c] = "yes" => /\ Picture(screen[c].row, stcol, line[c])
                                 /\ screen[c].col = Columns(stcol, line[c])[cur[c]]
    BY OpenLine
  <1>4. editing[c] = "yes" => Follows(s, stcol, q, cur[c])
    BY <1>1, <1>2, <1>3, Repaints
  <1>5. QED BY <1>1, <1>2, <1>4, PlainlyKeeps

LEMMA CtrlGKeeps ==
  ASSUME LineInv, NEW c \in CONSOLES, CtrlG(c) \/ CtrlK(c)
  PROVE  LineInv'
  <1>1. Open(c)
    BY DEF CtrlG, CtrlK
  <1>2. line[c] \in Seq(CHARS) /\ cur[c] \in 0 .. Len(line[c]) /\ Len(line[c]) \in Nat
    BY <1>1, OpenLine
  <1>3. CASE CtrlG(c)
    <2>1. PICK q : q = delch(line[c], cur[c])
      OBVIOUS
    <2>2. cur[c] \in 0 .. Len(line[c]) - 1
      BY <1>2, <1>3 DEF CtrlG
    <2>3. q \in Seq(CHARS) /\ Matches(line[c], q, cur[c])
      BY <1>2, <2>1, <2>2, DeletedIs
    <2>4. QED BY <1>1, <1>3, <2>1, <2>3, BehindKeeps DEF CtrlG
  <1>4. CASE CtrlK(c)
    <2>1. PICK q : q = SubSeq(line[c], 1, cur[c])
      OBVIOUS
    <2>2. q \in Seq(CHARS) /\ Matches(line[c], q, cur[c])
      BY <1>2, <2>1, CutIs
    <2>3. QED BY <1>1, <1>4, <2>1, <2>2, BehindKeeps DEF CtrlK
  <1>5. QED BY <1>3, <1>4

(* The keys that only move the cursor.                                     *)
LEMMA MoveKeeps ==
  ASSUME LineInv, NEW c \in CONSOLES, CtrlA(c) \/ CtrlF(c) \/ CtrlB(c)
  PROVE  LineInv'
  <1>0. PICK p, at : p = line[c] /\ at = cur[c]
    OBVIOUS
  <1>1. Open(c)
    BY DEF CtrlA, CtrlF, CtrlB
  <1>2. /\ p \in Seq(CHARS) /\ at \in 0 .. Len(p) /\ Len(p) \in Nat /\ stcol \in Nat
        /\ editing[c] = "yes" => Follows(screen[c], stcol, p, at)
    BY <1>0, <1>1, OpenLine
  <1>3. Columns(stcol, p)[0] = stcol
    BY <1>2, ColumnsAre
  <1>4. CASE CtrlA(c)
    <2>1. at - 1 \in 0 .. at /\ at - 1 \in 0 .. Len(p)
      BY <1>0, <1>2, <1>4 DEF CtrlA
    <2>2. Plainly(c, p, at - 1, backto(screen[c], Columns(stcol, p)[at - 1]))
      BY <1>0, <1>4 DEF CtrlA, gotoch, colof
    <2>3. QED BY <1>1, <1>2, <2>1, <2>2, BackFollows, PlainlyKeeps
  <1>5. CASE CtrlF(c)
    <2>1. at < Len(p) /\ at + 1 \in 0 .. Len(p)
      BY <1>0, <1>2, <1>5 DEF CtrlF
    <2>2. Plainly(c, p, at + 1, cookdout(screen[c], p[at + 1]))
      BY <1>0, <1>5 DEF CtrlF
    <2>3. QED BY <1>1, <1>2, <2>1, <2>2, EchoFollows, PlainlyKeeps
  <1>6. CASE CtrlB(c)
    <2>1. CASE at > 0
      <3>1. Plainly(c, p, 0, backto(screen[c], Columns(stcol, p)[0]))
        BY <1>0, <1>3, <1>6, <2>1 DEF CtrlB
      <3>2. 0 \in 0 .. at /\ 0 \in 0 .. Len(p)
        BY <1>2
      <3>3. QED BY <1>1, <1>2, <3>1, <3>2, BackFollows, PlainlyKeeps
    <2>2. CASE ~ (at > 0)
      <3>1. at = 0 /\ Len(p) \in 0 .. Len(p)
        BY <1>2, <2>2
      <3>2. Plainly(c, p, Len(p), toend(screen[c], p, at))
        BY <1>0, <1>6, <2>2, <3>1 DEF CtrlB
      <3>3. QED BY <1>1, <1>2, <3>1, <3>2, EchoFollows, PlainlyKeeps
    <2>3. QED BY <2>1, <2>2
  <1>7. QED BY <1>4, <1>5, <1>6

LEMMA CtrlWKeeps ==
  ASSUME LineInv, NEW c \in CONSOLES, CtrlW(c)
  PROVE  LineInv'
  <1>0. PICK p, at : p = line[c] /\ at = cur[c]
    OBVIOUS
  <1>1. PICK back : back = SubSeq(lastlin, 1, IF Len(lastlin) < LINEMAX THEN Len(lastlin)
                                              ELSE LINEMAX)
    OBVIOUS
  <1>2. /\ Open(c)
        /\ \/ /\ at < Len(p)
              /\ Plainly(c, p, Len(p), toend(screen[c], p, at))
           \/ /\ p = <<>>
              /\ Plainly(c, back, Len(back), toend(screen[c], back, 0))
    BY <1>0, <1>1 DEF CtrlW
  <1>3. /\ p \in Seq(CHARS) /\ at \in 0 .. Len(p) /\ Len(p) \in Nat /\ stcol \in Nat
        /\ lastlin \in Seq(CHARS)
        /\ editing[c] = "yes" => Follows(screen[c], stcol, p, at)
    BY <1>0, <1>2, OpenLine
  <1>4. CASE Plainly(c, p, Len(p), toend(screen[c], p, at))
    <2>1. Len(p) \in 0 .. Len(p)
      BY <1>3
    <2>2. QED BY <1>2, <1>3, <1>4, <2>1, EchoFollows, PlainlyKeeps
  <1>5. CASE p = <<>> /\ Plainly(c, back, Len(back), toend(screen[c], back, 0))
    <2>1. back \in Seq(CHARS) /\ Len(back) \in 0 .. Len(back)
      BY <1>1, <1>3, LineAssumption
    <2>2. ASSUME editing[c] = "yes" PROVE screen[c] = [col |-> stcol, row |-> Blank]
      <3>1. at = 0
        BY <1>3, <1>5
      <3>2. Follows(screen[c], stcol, <<>>, 0)
        BY <1>3, <1>5, <2>2, <3>1
      <3>3. QED BY <1>3, <3>2, OnlyBlank
    <2>3. editing[c] = "yes" => Follows(toend(screen[c], back, 0), stcol, back, Len(back))
      BY <1>3, <2>1, <2>2, ShownIs
    <2>4. QED BY <1>2, <1>5, <2>1, <2>3, PlainlyKeeps
  <1>6. QED BY <1>2, <1>4, <1>5

LEMMA CtrlXKeeps ==
  ASSUME LineInv, NEW c \in CONSOLES, CtrlX(c)
  PROVE  LineInv'
  <1>0. PICK p, at : p = line[c] /\ at = cur[c]
    OBVIOUS
  <1>1. PICK q, u : q = SubSeq(p, at + 1, Len(p)) /\ u = backto(screen[c], stcol)
    OBVIOUS
  <1>2. Open(c) /\ Plainly(c, q, 0, repaint(u, q, 0, 0, oldend(c)))
    BY <1>0, <1>1 DEF CtrlX
  <1>3. /\ p \in Seq(CHARS) /\ at \in 0 .. Len(p) /\ Len(p) \in Nat /\ stcol \in Nat
        /\ oldend(c) = Columns(stcol, p)[Len(p)]
        /\ editing[c] = "yes" => Follows(screen[c], stcol, p, at)
    BY <1>0, <1>2, OpenLine
  <1>4. q \in Seq(CHARS) /\ Len(q) \in Nat /\ 0 \in 0 .. Len(q) /\ 0 \in 0 .. at
    BY <1>1, <1>3
  <1>5. Matches(p, q, 0)
    BY <1>3, <1>4 DEF Matches
  <1>6. Columns(stcol, p)[0] = stcol
    BY <1>3, ColumnsAre
  <1>7. ASSUME editing[c] = "yes"
        PROVE  Follows(repaint(u, q, 0, 0, oldend(c)), stcol, q, 0)
    <2>1. Follows(u, stcol, p, 0)
      BY <1>1, <1>3, <1>4, <1>6, <1>7, BackFollows
    <2>2. u \in Screens /\ Picture(u.row, stcol, p) /\ u.col = Columns(stcol, p)[0]
      BY <2>1 DEF Follows
    <2>3. QED BY <1>3, <1>4, <1>5, <2>2, Repaints
  <1>8. QED BY <1>2, <1>4, <1>7, PlainlyKeeps

(* A new row, indented to where the line starts.                           *)
LEMMA NewlineIs ==
  ASSUME NEW k, NEW r, stcol \in Nat
  PROVE  newline([col |-> k, row |-> r]) = [col |-> stcol, row |-> Blank]
  <1>1. PICK s, u : s = [col |-> k, row |-> r] /\ u = conout(conout(s, "cr"), "lf")
    OBVIOUS
  <1>2. conout(s, "cr") = [col |-> 0, row |-> r]
    BY <1>1 DEF conout
  <1>3. u = [col |-> 0, row |-> Blank]
    BY <1>1, <1>2 DEF conout
  <1>4. u.row = [i \in Cols |-> " "] /\ u.col = 0
    BY <1>3 DEF Blank, Cols
  <1>5. Spaces(u, stcol).col = stcol /\ Spaces(u, stcol).row = [i \in Cols |-> " "]
    <2>6. stcol = 0 + stcol
      OBVIOUS
    <2>7. DOMAIN u.row = Cols
      BY <1>4, Zenon
    <2>1. stcol = 0 + stcol /\ DOMAIN u.row = Cols
      BY <2>6, <2>7
    <2>2. \A i \in Cols : (IF 0 <= i /\ i < stcol THEN " " ELSE u.row[i]) = " "
      BY <1>4
    <2>3. Spaces(u, stcol).row =
            [i \in Cols |-> IF 0 <= i /\ i < stcol THEN " " ELSE u.row[i]]
      BY <1>4, <2>1 DEF Spaces
    <2>4. Spaces(u, stcol).col = stcol
      BY <1>4, <2>1 DEF Spaces
    <2>5. QED BY <2>2, <2>3, <2>4
  <1>6. Spaces(u, stcol) = [col |-> stcol, row |-> Blank]
    BY <1>5 DEF Spaces, Blank, Cols
  <1>7. QED BY <1>1, <1>6 DEF newline

LEMMA NewlinesAre ==
  ASSUME NEW s \in Screens, stcol \in Nat
  PROVE  /\ newline(s) = [col |-> stcol, row |-> Blank]
         /\ newline(conout(s, "#")) = [col |-> stcol, row |-> Blank]
  <1>1. s = [col |-> s.col, row |-> s.row]
    BY DEF Screens
  <1>2. conout(s, "#") = [col |-> s.col + 1, row |-> [s.row EXCEPT ![s.col] = "#"]]
    BY DEF conout
  <1>3. QED BY <1>1, <1>2, NewlineIs, Zenon

LEMMA RowKeysKeep ==
  ASSUME LineInv, NEW c \in CONSOLES, EnterKey(c) \/ CtrlE(c) \/ CtrlU(c) \/ CtrlR(c)
  PROVE  LineInv'
  <1>0. PICK p, at : p = line[c] /\ at = cur[c]
    OBVIOUS
  <1>1. Open(c)
    BY DEF EnterKey, CtrlE, CtrlU, CtrlR
  <1>2. /\ p \in Seq(CHARS) /\ at \in 0 .. Len(p) /\ Len(p) \in Nat /\ stcol \in Nat
        /\ lastlin \in Seq(CHARS) /\ screen[c] \in Screens
    BY <1>0, <1>1, OpenLine
  <1>3. Follows([col |-> stcol, row |-> Blank], stcol, <<>>, 0)
    BY <1>2, BlankFollows
  <1>4. [col |-> stcol, row |-> Blank] \in Screens
    BY <1>3 DEF Follows
  <1>5. CASE EnterKey(c)
    <2>1. PICK s : s = conout(screen[c], "cr")
      OBVIOUS
    <2>2. s = [screen[c] EXCEPT !.col = 0]
      BY <2>1 DEF conout
    <2>3. s \in Screens
      BY <1>2, <2>2 DEF Screens
    <2>4. lastlin' \in Seq(CHARS)
      BY <1>0, <1>2, <1>5 DEF EnterKey, savelin
    <2>5. Edited(c, p, at, s, "no")
      BY <1>0, <1>5, <2>1 DEF EnterKey
    <2>6. QED BY <1>1, <1>2, <2>3, <2>4, <2>5, EditedKeeps
  <1>6. CASE CtrlE(c)
    <2>1. PICK mode, s : /\ mode = IF p # <<>> THEN "apart" ELSE editing[c]
                        /\ s = [col |-> stcol, row |-> Blank]
      OBVIOUS
    <2>2. Edited(c, p, at, s, mode)
      BY <1>0, <1>2, <1>6, <2>1, NewlinesAre DEF CtrlE
    <2>3. lastlin' \in Seq(CHARS)
      BY <1>2, <1>6 DEF CtrlE
    <2>4. mode \in {"no", "yes", "apart"}
      BY <2>1 DEF LineInv, LineTypes
    <2>5. ASSUME mode = "yes" PROVE Follows(s, stcol, p, at)
      <3>1. p = <<>>
        BY <2>1, <2>5
      <3>2. at = 0
        BY <1>2, <3>1
      <3>3. QED BY <1>3, <2>1, <3>1, <3>2
    <2>6. QED BY <1>1, <1>2, <1>4, <2>1, <2>2, <2>3, <2>4, <2>5, EditedKeeps
  <1>7. CASE CtrlU(c)
    <2>1. PICK s : s = [col |-> stcol, row |-> Blank]
      OBVIOUS
    <2>2. Edited(c, <<>>, 0, s, "yes")
      BY <1>2, <1>7, <2>1, NewlinesAre DEF CtrlU
    <2>3. lastlin' \in Seq(CHARS)
      BY <1>0, <1>2, <1>7 DEF CtrlU, savelin
    <2>4. <<>> \in Seq(CHARS) /\ 0 \in 0 .. Len(<<>>)
      OBVIOUS
    <2>5. QED BY <1>1, <1>3, <1>4, <2>1, <2>2, <2>3, <2>4, EditedKeeps
  <1>8. CASE CtrlR(c)
    <2>1. PICK s : s = toend([col |-> stcol, row |-> Blank], p, 0)
      OBVIOUS
    <2>2. Edited(c, p, Len(p), s, "yes")
      BY <1>0, <1>2, <1>8, <2>1, NewlinesAre DEF CtrlR
    <2>3. lastlin' \in Seq(CHARS) /\ Len(p) \in 0 .. Len(p)
      BY <1>2, <1>8 DEF CtrlR
    <2>4. Follows(s, stcol, p, Len(p))
      BY <1>2, <2>1, ShownIs
    <2>5. s \in Screens
      BY <2>4 DEF Follows
    <2>6. QED BY <1>1, <1>2, <2>2, <2>3, <2>4, <2>5, EditedKeeps
  <1>9. QED BY <1>5, <1>6, <1>7, <1>8

LEMMA BeginKeeps ==
  ASSUME OneStart, LineInv, NEW c \in CONSOLES, NEW n \in PROMPTS, BeginLine(c, n)
  PROVE  LineInv'
  <1>1. n \in Nat
    BY LineAssumption
  <1>2. PICK u : u = [col |-> n, row |-> Blank]
    OBVIOUS
  <1>3. Follows(u, n, <<>>, 0)
    BY <1>1, <1>2, BlankFollows
  <1>4. u \in Screens
    BY <1>3 DEF Follows
  <1>5. /\ line' = [line EXCEPT ![c] = <<>>] /\ cur' = [cur EXCEPT ![c] = 0]
        /\ screen' = [screen EXCEPT ![c] = u] /\ editing' = [editing EXCEPT ![c] = "yes"]
        /\ start' = [start EXCEPT ![c] = n] /\ stcol' = n /\ lastlin' = lastlin
    BY <1>2 DEF BeginLine
  <1>6. LineTypes /\ <<>> \in Seq(CHARS) /\ Len(<<>>) = 0
    BY DEF LineInv
  <1>7. LineTypes'
    BY <1>1, <1>4, <1>5, <1>6 DEF LineTypes
  <1>8. ASSUME NEW d \in CONSOLES PROVE OnConsole(d)'
    <2>1. CASE d = c
      <3>1. /\ line'[c] = <<>> /\ cur'[c] = 0 /\ screen'[c] = u /\ start'[c] = n
        BY <1>5, <1>6 DEF LineTypes
      <3>2. cur'[c] <= Len(line'[c])
        BY <1>6, <3>1
      <3>3. QED BY <1>3, <1>5, <2>1, <3>1, <3>2, Zenon DEF OnConsole
    <2>2. CASE d # c
      <3>1. /\ line'[d] = line[d] /\ cur'[d] = cur[d] /\ screen'[d] = screen[d]
            /\ editing'[d] = editing[d] /\ start'[d] = start[d]
        BY <1>5, <1>6, <2>2 DEF LineTypes
      <3>2. OnConsole(d)
        BY DEF LineInv
      <3>6. ASSUME NEW e, CONSOLES = {e} PROVE FALSE
        <4>1. c \in {e} /\ d \in {e}
          BY <3>6
        <4>2. QED BY <2>2, <4>1
      <3>3. PICK m : PROMPTS = {m}
        BY <3>6, Zenon DEF OneStart
      <3>4. Open(d) => start[d] = stcol' /\ start[d] \in PROMPTS
        BY <1>5, <3>2, <3>3 DEF OnConsole
      <3>5. QED BY <3>1, <3>2, <3>4, Zenon DEF OnConsole, Open
    <2>3. QED BY <2>1, <2>2
  <1>9. QED BY <1>7, <1>8 DEF LineInv

LEMMA EditStep ==
  ASSUME OneStart, LineInv, [LineNext]_linevars
  PROVE  LineInv'
  <1>1. CASE UNCHANGED linevars
    BY <1>1 DEF linevars, LineInv, LineTypes, OnConsole, Open
  <1>2. ASSUME NEW c \in CONSOLES, Key(c) PROVE LineInv'
    BY <1>2, InsertKeeps, RubKeeps, CtrlGKeeps, MoveKeeps, CtrlWKeeps, CtrlXKeeps, RowKeysKeep
       DEF Key
  <1>3. ASSUME NEW c \in CONSOLES, NEW n \in PROMPTS, BeginLine(c, n) PROVE LineInv'
    BY <1>3, BeginKeeps
  <1>4. QED BY <1>1, <1>2, <1>3 DEF LineNext

LEMMA EditStarts == LineInit => LineInv
  <1> SUFFICES ASSUME LineInit PROVE LineInv
    OBVIOUS
  <1>1. [col |-> 0, row |-> Blank] \in Screens
    BY BlankIs DEF Screens
  <1>2. <<>> \in Seq(CHARS) /\ Len(<<>>) = 0
    OBVIOUS
  <1>3. LineTypes
    BY <1>1, <1>2 DEF LineInit, LineTypes
  <1>4. ASSUME NEW c \in CONSOLES PROVE OnConsole(c)
    BY <1>2 DEF LineInit, OnConsole, Open
  <1>5. QED BY <1>3, <1>4 DEF LineInv

LEMMA LineShows == LineInv => ScreenShowsLine
  <1> SUFFICES ASSUME LineInv, NEW c \in CONSOLES, editing[c] = "yes"
               PROVE  /\ screen[c].row = Shown(c, line[c]).row
                      /\ screen[c].col = Shown(c, SubSeq(line[c], 1, cur[c])).col
    BY DEF ScreenShowsLine
  <1>1. /\ line[c] \in Seq(CHARS) /\ cur[c] \in 0 .. Len(line[c]) /\ stcol \in Nat
        /\ Follows(screen[c], stcol, line[c], cur[c])
    BY OpenLine DEF Open
  <1>2. start[c] = stcol
    BY DEF LineInv, OnConsole, Open
  <1>3. QED BY <1>1, <1>2, FollowsMeans DEF Shown

(* "Repaint only the changed suffix; tabs use the starting column" loses    *)
(* nothing: after every key, for every length of line, width of tab and of *)
(* row, and whatever ^W brings back, the row shows the line and only it,   *)
(* and the cursor is where the next character goes.  stcol must serve every *)
(* line being edited: one console, or one prompt.                          *)
THEOREM RowFollowsLine == OneStart /\ LineSpec => []ScreenShowsLine
  <1> SUFFICES ASSUME OneStart PROVE LineSpec => []ScreenShowsLine
    OBVIOUS
  <1>1. LineInit => LineInv
    BY EditStarts
  <1>2. LineInv /\ [LineNext]_linevars => LineInv'
    BY EditStep
  <1>3. LineInv => ScreenShowsLine
    BY LineShows
  <1>4. QED BY <1>1, <1>2, <1>3, PTL DEF LineSpec

-----------------------------------------------------------------------------
(* The coding of a file.  decode() walks a field unit by unit; a piece of a *)
(* field can be read apart when decode() makes the same of it whatever      *)
(* comes behind, and encode() only ever cuts between such pieces.           *)
(*                                                                         *)
(* What decode() makes of a sequence: its first unit and the rest.         *)
Hows == [rpt : BOOLEAN, ebq : BOOLEAN, bct : BCT]
Copies(a, n) == [i \in 1 .. n |-> a]
Front(h, s) == Copies(Unit(h, s).byte, Unit(h, s).n)
Behind(h, s) == SubSeq(s, Unit(h, s).len + 1, Len(s))
Decodes(h, f, S) == f = [s \in S |-> IF s = <<>> THEN <<>> ELSE Front(h, s) \o f[Behind(h, s)]]
Short(N) == {s \in Seq(Wire) : Len(s) <= N}

LEMMA UnitTakes ==
  ASSUME NEW h, NEW s \in Seq(Wire), s # <<>>
  PROVE  /\ Unit(h, s).len \in Nat \ {0}
         /\ Behind(h, s) \in Seq(Wire) /\ Len(Behind(h, s)) < Len(s) /\ Len(Behind(h, s)) \in Nat
  <1>1. PICK at1 : at1 = IF h.rpt /\ s[1] = Sign("~") THEN 3 ELSE 1
    OBVIOUS
  <1>2. PICK at2 : at2 = IF h.ebq /\ s[at1] = Sign("&") THEN at1 + 1 ELSE at1
    OBVIOUS
  <1>3. PICK at3 : at3 = IF s[at2] = Sign("#") THEN at2 + 1 ELSE at2
    OBVIOUS
  <1>4. Unit(h, s).len = at3
    BY <1>1, <1>2, <1>3 DEF Unit
  <1>5. at1 \in {1, 3}
    BY <1>1
  <1>6. at2 \in {at1, at1 + 1} /\ at3 \in {at2, at2 + 1}
    BY <1>2, <1>3
  <1>7. at3 \in Nat \ {0}
    BY <1>5, <1>6
  <1>8. PICK n \in Nat \ {0} : n = Unit(h, s).len
    BY <1>4, <1>7
  <1>9. Len(s) \in Nat \ {0}
    OBVIOUS
  <1>10. SubSeq(s, n + 1, Len(s)) \in Seq(Wire) /\ Len(SubSeq(s, n + 1, Len(s))) < Len(s)
    <2>1. CASE n + 1 <= Len(s)
      BY <1>9, <2>1, SubSeqProperties
    <2>2. CASE ~ (n + 1 <= Len(s))
      <3>1. SubSeq(s, n + 1, Len(s)) = <<>>
        BY <1>9, <2>2, SubSeqEmpty
      <3>2. QED BY <1>9, <3>1
    <2>3. QED BY <2>1, <2>2
  <1>11. QED BY <1>8, <1>9, <1>10 DEF Behind

LEMMA DecodesAgree ==
  ASSUME NEW h, NEW N \in Nat, NEW M \in Nat, N <= M, NEW f, NEW g,
         Decodes(h, f, Short(N)), Decodes(h, g, Short(M))
  PROVE  \A s \in Short(N) : f[s] = g[s]
  <1> DEFINE T == {n \in 0 .. N : \A s \in Short(n) : f[s] = g[s]}
  <1>1. \A s \in Short(N) : f[s] = IF s = <<>> THEN <<>> ELSE Front(h, s) \o f[Behind(h, s)]
    BY DEF Decodes
  <1>2. \A s \in Short(M) : g[s] = IF s = <<>> THEN <<>> ELSE Front(h, s) \o g[Behind(h, s)]
    BY DEF Decodes
  <1>3. ASSUME NEW n \in 0 .. N, NEW s \in Short(n)
        PROVE  s \in Short(N) /\ s \in Short(M) /\ s \in Seq(Wire) /\ Len(s) <= n /\ Len(s) \in Nat
    BY DEF Short
  <1>4. 0 \in T
    <2>1. SUFFICES ASSUME NEW s \in Short(0) PROVE f[s] = g[s]
      OBVIOUS
    <2>2. s = <<>>
      BY <1>3, EmptySeq DEF Short
    <2>3. s \in Short(N) /\ s \in Short(M)
      BY <1>3
    <2>4. QED BY <1>1, <1>2, <2>2, <2>3
  <1>5. ASSUME NEW n \in 0 .. N - 1, n \in T PROVE n + 1 \in T
    <2>1. n + 1 \in 0 .. N /\ n \in 0 .. N
      OBVIOUS
    <2>2. SUFFICES ASSUME NEW s \in Short(n + 1) PROVE f[s] = g[s]
      BY <2>1
    <2>3. s \in Short(N) /\ s \in Short(M) /\ s \in Seq(Wire) /\ Len(s) <= n + 1
      BY <1>3, <2>1
    <2>4. CASE s = <<>>
      BY <1>1, <1>2, <2>3, <2>4
    <2>5. CASE s # <<>>
      <3>1. /\ Behind(h, s) \in Seq(Wire) /\ Len(Behind(h, s)) < Len(s)
            /\ Len(Behind(h, s)) \in Nat /\ Len(s) \in Nat
        BY <2>3, <2>5, UnitTakes
      <3>2. Behind(h, s) \in Short(n)
        BY <2>3, <3>1 DEF Short
      <3>3. f[Behind(h, s)] = g[Behind(h, s)]
        BY <1>5, <3>2
      <3>4. QED BY <1>1, <1>2, <2>3, <2>5, <3>3
    <2>6. QED BY <2>4, <2>5
  <1> HIDE DEF T
  <1>6. 0 .. N \subseteq T
    BY <1>4, <1>5, FromUpTo
  <1>7. N \in T
    BY <1>6
  <1>8. QED BY <1>7 DEF T

LEMMA DecodesUpTo ==
  ASSUME NEW h, NEW N \in Nat
  PROVE  \E f : Decodes(h, f, Short(N))
  <1> DEFINE T == {n \in Nat : \E f : Decodes(h, f, Short(n))}
  <1>1. 0 \in T
    <2>1. PICK f : f = [s \in Short(0) |-> <<>>]
      OBVIOUS
    <2>2. \A s \in Short(0) : s = <<>>
      BY EmptySeq DEF Short
    <2>3. Decodes(h, f, Short(0))
      BY <2>1, <2>2 DEF Decodes
    <2>4. QED BY <2>3
  <1>2. ASSUME NEW n \in 0 .. N - 1, n \in T PROVE n + 1 \in T
    <2>1. PICK f : Decodes(h, f, Short(n))
      BY <1>2
    <2>2. PICK g : g = [s \in Short(n + 1) |-> IF s = <<>> THEN <<>>
                                              ELSE Front(h, s) \o f[Behind(h, s)]]
      OBVIOUS
    <2>3. \A s \in Short(n) : f[s] = IF s = <<>> THEN <<>> ELSE Front(h, s) \o f[Behind(h, s)]
      BY <2>1 DEF Decodes
    <2>4. \A s \in Short(n + 1) : g[s] = IF s = <<>> THEN <<>> ELSE Front(h, s) \o f[Behind(h, s)]
      BY <2>2
    <2>5. \A s \in Short(n) : s \in Short(n + 1)
      BY DEF Short
    <2>6. \A s \in Short(n) : g[s] = f[s]
      BY <2>3, <2>4, <2>5
    <2>7. ASSUME NEW s \in Short(n + 1)
          PROVE  g[s] = IF s = <<>> THEN <<>> ELSE Front(h, s) \o g[Behind(h, s)]
      <3>1. CASE s = <<>>
        BY <2>4, <3>1
      <3>2. CASE s # <<>>
        <4>1. s \in Seq(Wire) /\ Len(s) <= n + 1 /\ Len(s) \in Nat
          BY DEF Short
        <4>2. /\ Behind(h, s) \in Seq(Wire) /\ Len(Behind(h, s)) < Len(s)
              /\ Len(Behind(h, s)) \in Nat
          BY <3>2, <4>1, UnitTakes
        <4>3. Behind(h, s) \in Short(n)
          BY <4>1, <4>2 DEF Short
        <4>4. QED BY <2>4, <2>6, <3>2, <4>3
      <3>3. QED BY <3>1, <3>2
    <2>8. g = [s \in Short(n + 1) |-> g[s]]
      BY <2>2
    <2>9. Decodes(h, g, Short(n + 1))
      BY <2>7, <2>8 DEF Decodes
    <2>10. n + 1 \in Nat
      OBVIOUS
    <2>11. QED BY <2>9, <2>10
  <1> HIDE DEF T
  <1>3. 0 .. N \subseteq T
    BY <1>1, <1>2, FromUpTo
  <1>4. N \in T
    BY <1>3
  <1>5. QED BY <1>4 DEF T

LEMMA DecodesAll ==
  ASSUME NEW h
  PROVE  \E f : Decodes(h, f, Seq(Wire))
  <1> DEFINE Pick(n) == CHOOSE f : Decodes(h, f, Short(n))
  <1>1. \A n \in Nat : Decodes(h, Pick(n), Short(n))
    BY DecodesUpTo, Zenon
  <1> HIDE DEF Pick
  <1>2. PICK F : F = [s \in Seq(Wire) |-> Pick(Len(s))[s]]
    OBVIOUS
  <1>3. ASSUME NEW s \in Seq(Wire)
        PROVE  F[s] = IF s = <<>> THEN <<>> ELSE Front(h, s) \o F[Behind(h, s)]
    <2>1. PICK n \in Nat : n = Len(s)
      OBVIOUS
    <2>2. s \in Short(n)
      BY <2>1 DEF Short
    <2>3. F[s] = IF s = <<>> THEN <<>> ELSE Front(h, s) \o Pick(n)[Behind(h, s)]
      BY <1>1, <1>2, <2>1, <2>2 DEF Decodes
    <2>4. CASE s # <<>>
      <3>1. PICK r \in Seq(Wire) : r = Behind(h, s)
        BY <2>4, UnitTakes
      <3>2. PICK m \in Nat : m = Len(r)
        OBVIOUS
      <3>3. m < n
        BY <2>1, <2>4, <3>1, <3>2, UnitTakes
      <3>4. r \in Short(m) /\ Decodes(h, Pick(m), Short(m)) /\ Decodes(h, Pick(n), Short(n))
        BY <1>1, <3>2 DEF Short
      <3>5. Pick(m)[r] = Pick(n)[r]
        BY <3>3, <3>4, DecodesAgree
      <3>6. F[r] = Pick(m)[r]
        BY <1>2, <3>2
      <3>7. QED BY <2>3, <2>4, <3>1, <3>5, <3>6
    <2>5. CASE s = <<>>
      BY <2>3, <2>5
    <2>6. QED BY <2>4, <2>5
  <1>4. F = [s \in Seq(Wire) |-> F[s]]
    BY <1>2
  <1>5. Decodes(h, F, Seq(Wire))
    BY <1>3, <1>4 DEF Decodes
  <1>6. QED BY <1>5

LEMMA DecodeUnfolds ==
  ASSUME NEW h, NEW s \in Seq(Wire)
  PROVE  decode_fields(h, s) =
           IF s = <<>> THEN <<>> ELSE Front(h, s) \o decode_fields(h, Behind(h, s))
  <1> DEFINE f == CHOOSE g : Decodes(h, g, Seq(Wire))
  <1>1. Decodes(h, f, Seq(Wire))
    BY DecodesAll, Zenon
  <1>2. \A t : decode_fields(h, t) = f[t]
    BY Zenon DEF decode_fields, Decodes, Front, Behind, Copies
  <1> HIDE DEF f
  <1>3. f[s] = IF s = <<>> THEN <<>> ELSE Front(h, s) \o f[Behind(h, s)]
    BY <1>1 DEF Decodes
  <1>4. QED BY <1>2, <1>3

(* The four shapes a byte is sent in.                                      *)
Lowered(a) == [a EXCEPT !.high = a.high /\ ~how.ebq]
Shaped(a, p, q, v) ==
  Coded(a) = IF p THEN IF q THEN <<Sign("&"), Sign("#"), v>> ELSE <<Sign("&"), v>>
             ELSE IF q THEN <<Sign("#"), v>> ELSE <<v>>

LEMMA LowIs ==
  ASSUME how \in Hows, NEW a \in Bytes
  PROVE  /\ Lowered(a) \in Bytes /\ Lowered(a).class = a.class /\ ctl(Lowered(a)) \in Bytes
         /\ Lowered(a).high = (a.high /\ ~how.ebq)
         /\ a.class = "control" => Uncontrolled(ctl(Lowered(a))) = Lowered(a)
         /\ a.class \in {"#", "&", "~"} => Uncontrolled(Lowered(a)) = Lowered(a)
         /\ [Lowered(a) EXCEPT !.high = Lowered(a).high \/ (how.ebq /\ a.high)] = a
  <1>1. PICK cl \in Classes, hi \in BOOLEAN : a = [class |-> cl, high |-> hi, n |-> 0]
    BY DEF Bytes
  <1>2. how.ebq \in BOOLEAN
    BY DEF Hows
  <1>3. PICK lo \in BOOLEAN : lo = (hi /\ ~how.ebq)
    BY <1>2
  <1>4. Lowered(a) = [class |-> cl, high |-> lo, n |-> 0]
    BY <1>1, <1>3 DEF Lowered
  <1>5. ctl(Lowered(a)) = [class |-> IF cl = "control" THEN "letter" ELSE "control", high |-> lo, n |-> 0]
    BY <1>4 DEF ctl
  <1>6. Lowered(a) \in Bytes /\ ctl(Lowered(a)) \in Bytes
    BY <1>4, <1>5 DEF Bytes, Classes
  <1>7. Lowered(a).class = a.class /\ Lowered(a).high = (a.high /\ ~how.ebq)
    BY <1>1, <1>3, <1>4
  <1>8. ASSUME a.class = "control" PROVE Uncontrolled(ctl(Lowered(a))) = Lowered(a)
    <2>1. cl = "control"
      BY <1>1, <1>8
    <2>2. ctl(Lowered(a)) = [class |-> "letter", high |-> lo, n |-> 0]
      BY <1>5, <2>1
    <2>3. QED BY <1>4, <2>1, <2>2 DEF Uncontrolled, ctl
  <1>9. a.class \in {"#", "&", "~"} => Uncontrolled(Lowered(a)) = Lowered(a)
    BY <1>1, <1>4 DEF Uncontrolled
  <1>10. [Lowered(a) EXCEPT !.high = Lowered(a).high \/ (how.ebq /\ a.high)] = a
    <2>1. (lo \/ (how.ebq /\ hi)) = hi
      BY <1>2, <1>3
    <2>2. QED BY <1>1, <1>4, <2>1
  <1>11. QED BY <1>6, <1>7, <1>8, <1>9, <1>10

LEMMA PairIs ==
  ASSUME NEW S, NEW a \in S, NEW b \in S
  PROVE  <<a>> \o <<b>> = <<a, b>>
  <1>1. PICK q : q = <<a>> \o <<b>>
    OBVIOUS
  <1>2. <<a>> \in Seq(S) /\ <<b>> \in Seq(S) /\ <<a, b>> \in Seq(S)
    OBVIOUS
  <1>3. /\ q \in Seq(S) /\ Len(q) = Len(<<a>>) + Len(<<b>>)
        /\ \A i \in 1 .. Len(<<a>>) + Len(<<b>>) :
             q[i] = IF i <= Len(<<a>>) THEN <<a>>[i] ELSE <<b>>[i - Len(<<a>>)]
    BY <1>1, <1>2, ConcatProperties, Zenon
  <1>4. Len(q) = 2 /\ q[1] = a /\ q[2] = b
    BY <1>3
  <1>5. q = <<a, b>>
    BY <1>2, <1>3, <1>4
  <1>6. QED BY <1>1, <1>5

LEMMA TripleIs ==
  ASSUME NEW S, NEW a \in S, NEW b \in S, NEW c \in S
  PROVE  <<a>> \o <<b, c>> = <<a, b, c>>
  <1>1. PICK q : q = <<a>> \o <<b, c>>
    OBVIOUS
  <1>2. <<a>> \in Seq(S) /\ <<b, c>> \in Seq(S) /\ <<a, b, c>> \in Seq(S)
    OBVIOUS
  <1>3. /\ q \in Seq(S) /\ Len(q) = Len(<<a>>) + Len(<<b, c>>)
        /\ \A i \in 1 .. Len(<<a>>) + Len(<<b, c>>) :
             q[i] = IF i <= Len(<<a>>) THEN <<a>>[i] ELSE <<b, c>>[i - Len(<<a>>)]
    BY <1>1, <1>2, ConcatProperties, Zenon
  <1>4. Len(q) = 3 /\ q[1] = a /\ q[2] = b /\ q[3] = c
    BY <1>3
  <1>5. q = <<a, b, c>>
    BY <1>2, <1>3, <1>4
  <1>6. QED BY <1>1, <1>5

LEMMA CodedIs ==
  ASSUME how \in Hows, NEW a \in Bytes
  PROVE  \E p, q \in BOOLEAN, v \in Bytes :
           /\ Shaped(a, p, q, v) /\ p = (how.ebq /\ a.high)
           /\ q => Uncontrolled(v) = Lowered(a)
           /\ ~q => /\ v = Lowered(a) /\ v # Sign("#")
                    /\ how.ebq => v # Sign("&")
                    /\ how.rpt => v # Sign("~")
  <1>1. PICK p \in BOOLEAN : p = (how.ebq /\ a.high)
    BY DEF Hows, Bytes
  <1>2. PICK pre : pre = IF p THEN <<Sign("&")>> ELSE <<>>
    OBVIOUS
  <1>3. Sign("&") \in Wire /\ Sign("#") \in Wire
    BY DEF Sign, Byte, Wire, Classes
  <1>4. Bytes \subseteq Wire
    BY DEF Bytes, Wire
  <1>5. PICK q \in BOOLEAN : q = (a.class = "control" \/ Prefixed(a))
    OBVIOUS
  <1>6. PICK v \in Bytes : v = IF a.class = "control" THEN ctl(Lowered(a)) ELSE Lowered(a)
    BY LowIs
  <1>7. PICK post : post = IF q THEN <<Sign("#"), v>> ELSE <<v>>
    OBVIOUS
  <1>8. Coded(a) = pre \o post
    BY <1>1, <1>2, <1>5, <1>6, <1>7 DEF Coded, Lowered
  <1>9. Shaped(a, p, q, v)
    <2>1. v \in Wire /\ <<v>> \in Seq(Wire) /\ <<Sign("#"), v>> \in Seq(Wire)
      BY <1>3, <1>4
    <2>2. \A z \in Seq(Wire) : <<>> \o z = z
      BY ConcatEmptySeq
    <2>3. CASE ~p
      BY <1>2, <1>7, <1>8, <2>1, <2>2, <2>3 DEF Shaped
    <2>4. CASE p /\ q
      <3>1. <<Sign("&")>> \o <<Sign("#"), v>> = <<Sign("&"), Sign("#"), v>>
        BY <1>3, <2>1, TripleIs
      <3>2. QED BY <1>2, <1>7, <1>8, <2>4, <3>1 DEF Shaped
    <2>5. CASE p /\ ~q
      <3>1. <<Sign("&")>> \o <<v>> = <<Sign("&"), v>>
        BY <1>3, <2>1, PairIs
      <3>2. QED BY <1>2, <1>7, <1>8, <2>5, <3>1 DEF Shaped
    <2>6. QED BY <2>3, <2>4, <2>5
  <1>10. ASSUME q PROVE Uncontrolled(v) = Lowered(a)
    BY <1>5, <1>6, <1>10, LowIs DEF Prefixed
  <1>11. ASSUME ~q PROVE /\ v = Lowered(a) /\ v # Sign("#")
                         /\ how.ebq => v # Sign("&")
                         /\ how.rpt => v # Sign("~")
    <2>1. v = Lowered(a) /\ v.class = a.class
      BY <1>5, <1>6, <1>11, LowIs
    <2>2. a.class # "#" /\ (how.ebq => a.class # "&") /\ (how.rpt => a.class # "~")
      BY <1>5, <1>11 DEF Prefixed
    <2>3. Sign("#").class = "#" /\ Sign("&").class = "&" /\ Sign("~").class = "~"
      BY DEF Sign, Byte
    <2>4. QED BY <2>1, <2>2, <2>3
  <1>12. QED BY <1>1, <1>9, <1>10, <1>11

(* What a coded byte is: some elements, none of them a repeat prefix first. *)
LEMMA CodedSeq ==
  ASSUME how \in Hows, NEW a \in Bytes
  PROVE  /\ Coded(a) \in Seq(Wire) /\ Len(Coded(a)) \in Nat \ {0}
         /\ how.rpt => Coded(a)[1] # Sign("~")
  <1>1. PICK p \in BOOLEAN, q \in BOOLEAN, v \in Bytes :
           /\ Shaped(a, p, q, v) /\ p = (how.ebq /\ a.high)
           /\ ~q => (how.rpt => v # Sign("~"))
    BY CodedIs
  <1>2. Sign("&") \in Wire /\ Sign("#") \in Wire /\ v \in Wire
    BY DEF Sign, Byte, Wire, Classes, Bytes
  <1>3. Sign("&") # Sign("~") /\ Sign("#") # Sign("~")
    BY DEF Sign, Byte
  <1>4. CASE p /\ q
    BY <1>1, <1>2, <1>3, <1>4 DEF Shaped
  <1>5. CASE p /\ ~q
    BY <1>1, <1>2, <1>3, <1>5 DEF Shaped
  <1>6. CASE ~p /\ q
    BY <1>1, <1>2, <1>3, <1>6 DEF Shaped
  <1>7. CASE ~p /\ ~q
    BY <1>1, <1>2, <1>3, <1>7 DEF Shaped
  <1>8. QED BY <1>4, <1>5, <1>6, <1>7

(* decode() finds a byte where its code stands, from k on, the count before *)
(* it when k is 3.                                                         *)
Stands(s, k, a) ==
  /\ (k = 3) <=> (how.rpt /\ s[1] = Sign("~"))
  /\ \A j \in 1 .. Len(Coded(a)) : s[k + j - 1] = Coded(a)[j]
UnitAt(s, k, a) ==
  /\ Unit(how, s).byte = a /\ Unit(how, s).len = k + Len(Coded(a)) - 1
  /\ Unit(how, s).n = IF k = 3 /\ s[2].n # 0 THEN s[2].n ELSE 1
LEMMA UnitIs ==
  ASSUME how \in Hows, NEW a \in Bytes, NEW s, NEW k \in {1, 3}, Stands(s, k, a)
  PROVE  UnitAt(s, k, a)
  <1>0. /\ (k = 3) <=> (how.rpt /\ s[1] = Sign("~"))
        /\ \A j \in 1 .. Len(Coded(a)) : s[k + j - 1] = Coded(a)[j]
    BY DEF Stands
  <1>1. PICK p \in BOOLEAN, q \in BOOLEAN, v \in Bytes :
           /\ Shaped(a, p, q, v) /\ p = (how.ebq /\ a.high)
           /\ q => Uncontrolled(v) = Lowered(a)
           /\ ~q => v = Lowered(a) /\ v # Sign("#") /\ (how.ebq => v # Sign("&"))
    BY CodedIs
  <1>2. how.ebq \in BOOLEAN /\ how.rpt \in BOOLEAN
    BY DEF Hows
  <1>3. PICK at2 \in Nat : at2 = IF how.ebq /\ s[k] = Sign("&") THEN k + 1 ELSE k
    OBVIOUS
  <1>4. PICK at3 \in Nat : at3 = IF s[at2] = Sign("#") THEN at2 + 1 ELSE at2
    BY <1>3
  <1>5. PICK b : b = IF at3 = at2 THEN s[at3] ELSE Uncontrolled(s[at3])
    OBVIOUS
  <1>6. PICK u : u = Unit(how, s)
    OBVIOUS
  <1>7. /\ u.len = at3 /\ u.byte = [b EXCEPT !.high = b.high \/ at2 # k]
        /\ u.n = IF k = 3 /\ s[2].n # 0 THEN s[2].n ELSE 1
    BY <1>0, <1>2, <1>3, <1>4, <1>5, <1>6 DEF Unit
  <1>8. Sign("&") # Sign("#")
    BY DEF Sign, Byte
  <1>9. /\ at2 = IF p THEN k + 1 ELSE k
        /\ at3 = IF q THEN at2 + 1 ELSE at2
        /\ b = Lowered(a) /\ at3 = k + Len(Coded(a)) - 1
    <2>1. CASE p /\ q
      <3>1. Len(Coded(a)) = 3 /\ Coded(a)[1] = Sign("&") /\ Coded(a)[2] = Sign("#") /\ Coded(a)[3] = v
        BY <1>1, <2>1 DEF Shaped
      <3>2. s[k] = Sign("&") /\ s[k + 1] = Sign("#") /\ s[k + 2] = v
        BY <1>0, <3>1
      <3>3. at2 = k + 1 /\ at3 = k + 2
        <4>1. at2 = k + 1
          BY <1>1, <1>3, <2>1, <3>2
        <4>2. s[at2] = Sign("#")
          BY <3>2, <4>1
        <4>3. QED BY <1>4, <4>1, <4>2
      <3>4. QED BY <1>1, <1>5, <2>1, <3>1, <3>2, <3>3
    <2>2. CASE p /\ ~q
      <3>1. Len(Coded(a)) = 2 /\ Coded(a)[1] = Sign("&") /\ Coded(a)[2] = v
        BY <1>1, <2>2 DEF Shaped
      <3>2. s[k] = Sign("&") /\ s[k + 1] = v
        BY <1>0, <3>1
      <3>3. at2 = k + 1 /\ at3 = k + 1
        <4>1. at2 = k + 1
          BY <1>1, <1>3, <2>2, <3>2
        <4>2. s[at2] # Sign("#")
          BY <1>1, <2>2, <3>2, <4>1
        <4>3. QED BY <1>4, <4>1, <4>2
      <3>4. QED BY <1>1, <1>5, <2>2, <3>1, <3>2, <3>3
    <2>3. CASE ~p /\ q
      <3>1. Len(Coded(a)) = 2 /\ Coded(a)[1] = Sign("#") /\ Coded(a)[2] = v
        BY <1>1, <2>3 DEF Shaped
      <3>2. s[k] = Sign("#") /\ s[k + 1] = v
        BY <1>0, <3>1
      <3>3. at2 = k /\ at3 = k + 1
        BY <1>1, <1>3, <1>4, <1>8, <2>3, <3>2
      <3>4. QED BY <1>1, <1>5, <2>3, <3>1, <3>2, <3>3
    <2>4. CASE ~p /\ ~q
      <3>1. Len(Coded(a)) = 1 /\ Coded(a)[1] = v
        BY <1>1, <2>4 DEF Shaped
      <3>2. s[k] = v
        BY <1>0, <3>1
      <3>3. at2 = k /\ at3 = k
        BY <1>1, <1>3, <1>4, <2>4, <3>2
      <3>4. QED BY <1>1, <1>5, <2>4, <3>1, <3>2, <3>3
    <2>5. QED BY <2>1, <2>2, <2>3, <2>4
  <1>10. (at2 # k) = (how.ebq /\ a.high)
    <2>1. (at2 # k) <=> p
      BY <1>9
    <2>2. QED BY <1>1, <2>1
  <1>11. u.byte = [Lowered(a) EXCEPT !.high = Lowered(a).high \/ (how.ebq /\ a.high)]
    BY <1>7, <1>9, <1>10, Zenon
  <1>12. u.byte = a
    BY <1>11, LowIs
  <1>13. QED BY <1>6, <1>7, <1>9, <1>12 DEF UnitAt

(* The bytes w are what decode() makes of x, whatever field comes behind.  *)
Reads(h, x, w) ==
  /\ x \in Seq(Wire) /\ w \in Seq(Bytes)
  /\ \A y \in Seq(Wire) : decode_fields(h, y) \in Seq(Bytes)
                            => decode_fields(h, x \o y) = w \o decode_fields(h, y)

LEMMA CopiesSeq ==
  ASSUME NEW a \in Bytes, NEW n \in Nat
  PROVE  Copies(a, n) \in Seq(Bytes) /\ Len(Copies(a, n)) = n
  <1>1. Copies(a, n) \in [1 .. n -> Bytes]
    BY DEF Copies
  <1>2. Copies(a, n) \in Seq(Bytes)
    BY <1>1, SeqDef
  <1>3. DOMAIN Copies(a, n) = 1 .. n
    BY DEF Copies
  <1>4. QED BY <1>2, <1>3, LenProperties

LEMMA CopiesGrow ==
  ASSUME NEW a \in Bytes, NEW n \in Nat
  PROVE  Copies(a, n + 1) = Copies(a, n) \o <<a>>
  <1>1. PICK p : p = Copies(a, n)
    OBVIOUS
  <1>2. PICK q : q = p \o <<a>>
    OBVIOUS
  <1>3. PICK r : r = Copies(a, n + 1)
    OBVIOUS
  <1>4. p \in Seq(Bytes) /\ Len(p) = n /\ r \in Seq(Bytes) /\ Len(r) = n + 1
    BY <1>1, <1>3, CopiesSeq
  <1>5. <<a>> \in Seq(Bytes) /\ Len(<<a>>) = 1
    OBVIOUS
  <1>6. /\ q \in Seq(Bytes) /\ Len(q) = Len(p) + Len(<<a>>)
        /\ \A i \in 1 .. Len(p) + Len(<<a>>) : q[i] = IF i <= Len(p) THEN p[i] ELSE <<a>>[i - Len(p)]
    BY <1>2, <1>4, <1>5, ConcatProperties, Zenon
  <1>7. \A i \in 1 .. n : p[i] = a
    BY <1>1 DEF Copies
  <1>8. \A i \in 1 .. n + 1 : r[i] = a
    BY <1>3 DEF Copies
  <1>9. \A i \in 1 .. n + 1 : q[i] = r[i]
    BY <1>4, <1>5, <1>6, <1>7, <1>8
  <1>10. Len(q) = Len(r)
    BY <1>4, <1>5, <1>6
  <1>11. q = r
    BY <1>4, <1>5, <1>6, <1>9, <1>10, SeqEqual
  <1>12. QED BY <1>1, <1>2, <1>3, <1>11

LEMMA NoCopies == \A a : Copies(a, 0) = <<>>
  BY DEF Copies

LEMMA OneCopy ==
  ASSUME NEW a \in Bytes
  PROVE  Copies(a, 1) = <<a>>
  <1>1. <<a>> \in Seq(Bytes)
    OBVIOUS
  <1>2. Copies(a, 0 + 1) = <<>> \o <<a>>
    BY CopiesGrow, NoCopies
  <1>3. <<>> \o <<a>> = <<a>>
    BY <1>1, ConcatEmptySeq, Zenon
  <1>4. QED BY <1>2, <1>3

(* What stands in front of a sequence and what behind it.                  *)
Splits(s, p, q) ==
  /\ Len(s) = Len(p) + Len(q) /\ Len(p) \in Nat /\ Len(q) \in Nat
  /\ \A i \in 1 .. Len(p) : s[i] = p[i]
  /\ \A i \in 1 .. Len(q) : s[Len(p) + i] = q[i]
  /\ SubSeq(s, 1, Len(p)) = p /\ SubSeq(s, Len(p) + 1, Len(s)) = q

LEMMA Halves ==
  ASSUME NEW S, NEW p \in Seq(S), NEW q \in Seq(S), NEW s, s = p \o q
  PROVE  s \in Seq(S) /\ Splits(s, p, q)
  <1>1. PICK m \in Nat, n \in Nat : m = Len(p) /\ n = Len(q)
    OBVIOUS
  <1>2. /\ s \in Seq(S) /\ Len(s) = Len(p) + Len(q)
        /\ \A i \in 1 .. Len(p) + Len(q) : s[i] = IF i <= Len(p) THEN p[i] ELSE q[i - Len(p)]
    BY ConcatProperties, Zenon
  <1>3. Len(s) = m + n /\ \A i \in 1 .. m + n : s[i] = IF i <= m THEN p[i] ELSE q[i - m]
    BY <1>1, <1>2
  <1>4. ASSUME NEW i \in 1 .. m PROVE s[i] = p[i]
    <2>1. i \in 1 .. m + n /\ i <= m
      OBVIOUS
    <2>2. QED BY <1>3, <2>1
  <1>5. ASSUME NEW i \in 1 .. n PROVE s[m + i] = q[i]
    <2>1. m + i \in 1 .. m + n /\ ~ (m + i <= m) /\ (m + i) - m = i
      OBVIOUS
    <2>2. QED BY <1>3, <2>1
  <1>6. SubSeq(s, 1, m) = p
    <2>1. PICK a : a = SubSeq(s, 1, m)
      OBVIOUS
    <2>2. \A i \in 1 .. m : s[i] \in S
      BY <1>2, <1>3
    <2>3. a \in Seq(S) /\ Len(a) = m /\ \A i \in 1 .. m : a[i] = s[i]
      BY <1>2, <1>3, <2>1
    <2>4. Len(a) = m
      BY <2>3
    <2>5. \A i \in 1 .. m : a[i] = p[i]
      BY <1>4, <2>3
    <2>6. a = p
      BY <1>1, <2>3, <2>4, <2>5, SeqEqual
    <2>7. QED BY <2>1, <2>6
  <1>7. SubSeq(s, m + 1, m + n) = q
    <2>1. PICK a : a = SubSeq(s, m + 1, m + n)
      OBVIOUS
    <2>2. \A i \in m + 1 .. m + n : s[i] \in S
      BY <1>2, <1>3
    <2>3. a \in Seq(S) /\ Len(a) = n /\ \A i \in 1 .. n : a[i] = s[m + i]
      BY <1>2, <1>3, <2>1
    <2>4. Len(a) = n
      BY <2>3
    <2>5. \A i \in 1 .. n : a[i] = q[i]
      BY <1>5, <2>3
    <2>6. a = q
      BY <1>1, <2>3, <2>4, <2>5, SeqEqual
    <2>7. QED BY <2>1, <2>6
  <1>8. QED BY <1>1, <1>2, <1>3, <1>4, <1>5, <1>6, <1>7 DEF Splits

(* A coded byte, alone or behind a count, and decode() of it.              *)
LEMMA PieceReads ==
  ASSUME how \in Hows, NEW a \in Bytes, NEW t \in Seq(Wire), NEW n \in Nat, NEW k \in {1, 3},
         Len(t) = k + Len(Coded(a)) - 1,
         Stands(t, k, a),
         n = IF k = 3 /\ t[2].n # 0 THEN t[2].n ELSE 1
  PROVE  Reads(how, t, Copies(a, n))
  <1>1. Copies(a, n) \in Seq(Bytes)
    BY CopiesSeq
  <1>2. SUFFICES ASSUME NEW y \in Seq(Wire), decode_fields(how, y) \in Seq(Bytes)
                 PROVE  decode_fields(how, t \o y) = Copies(a, n) \o decode_fields(how, y)
    BY <1>1 DEF Reads
  <1>3. PICK s : s = t \o y
    OBVIOUS
  <1>4. PICK l \in Nat \ {0} : l = Len(Coded(a))
    BY CodedSeq
  <1>17. s \in Seq(Wire) /\ Splits(s, t, y)
    BY <1>3, Halves, Zenon
  <1>5. /\ s \in Seq(Wire) /\ Len(s) = Len(t) + Len(y) /\ Len(y) \in Nat
        /\ \A i \in 1 .. Len(t) : s[i] = t[i]
        /\ SubSeq(s, Len(t) + 1, Len(s)) = y
    BY <1>17 DEF Splits
  <1>6. Len(t) = k + l - 1 /\ Len(t) \in Nat \ {0} /\ 1 \in 1 .. Len(t)
    BY <1>4
  <1>7. s[1] = t[1] /\ (k = 3 => s[2] = t[2])
    BY <1>4, <1>5, <1>6
  <1>8. ASSUME NEW j \in 1 .. l PROVE s[k + j - 1] = Coded(a)[j]
    <2>1. k + j - 1 \in 1 .. Len(t)
      BY <1>6
    <2>2. s[k + j - 1] = t[k + j - 1]
      BY <1>5, <2>1
    <2>3. QED BY <1>4, <2>2 DEF Stands
  <1>9. (k = 3) <=> (how.rpt /\ s[1] = Sign("~"))
    BY <1>7 DEF Stands
  <1>16. Stands(s, k, a)
    BY <1>4, <1>8, <1>9 DEF Stands
  <1>18. UnitAt(s, k, a)
    BY <1>16, UnitIs, Zenon
  <1>10. /\ Unit(how, s).byte = a /\ Unit(how, s).len = k + Len(Coded(a)) - 1
         /\ Unit(how, s).n = IF k = 3 /\ s[2].n # 0 THEN s[2].n ELSE 1
    BY <1>18 DEF UnitAt
  <1>11. Unit(how, s).n = n /\ Unit(how, s).len = Len(t)
    BY <1>7, <1>10
  <1>12. Front(how, s) = Copies(a, n) /\ Behind(how, s) = y
    BY <1>5, <1>10, <1>11 DEF Front, Behind
  <1>13. s # <<>>
    BY <1>5, <1>6, EmptySeq
  <1>14. decode_fields(how, s) = Front(how, s) \o decode_fields(how, Behind(how, s))
    BY <1>5, <1>13, DecodeUnfolds
  <1>15. QED BY <1>3, <1>12, <1>14

LEMMA CodedReads ==
  ASSUME how \in Hows, NEW a \in Bytes
  PROVE  Reads(how, Coded(a), <<a>>)
  <1>1. PICK t \in Seq(Wire) : t = Coded(a) /\ Len(t) \in Nat \ {0} /\ (how.rpt => t[1] # Sign("~"))
    BY CodedSeq
  <1>2. PICK k \in {1, 3} : k = 1
    OBVIOUS
  <1>3. Len(t) = k + Len(Coded(a)) - 1 /\ \A j \in 1 .. Len(Coded(a)) : t[k + j - 1] = Coded(a)[j]
    BY <1>1, <1>2
  <1>4. Stands(t, k, a)
    BY <1>1, <1>2, <1>3 DEF Stands
  <1>5. Reads(how, t, Copies(a, 1))
    <2>1. 1 \in Nat /\ 1 = IF k = 3 /\ t[2].n # 0 THEN t[2].n ELSE 1
      BY <1>2
    <2>2. QED BY <1>3, <1>4, <2>1, PieceReads
  <1>6. QED BY <1>1, <1>5, OneCopy

LEMMA RepeatedReads ==
  ASSUME how \in Hows, how.rpt, NEW a \in Bytes, NEW n \in Nat \ {0}
  PROVE  Reads(how, Repeated(a, n), Copies(a, n))
  <1>1. PICK c \in Seq(Wire) : c = Coded(a) /\ Len(c) \in Nat \ {0}
    BY CodedSeq
  <1>2. PICK p : p = <<Sign("~"), tochar(n)>>
    OBVIOUS
  <1>3. Sign("~") \in Wire /\ tochar(n) \in Wire
    BY DEF Sign, Byte, tochar, Wire, Classes
  <1>4. p \in Seq(Wire) /\ Len(p) = 2 /\ p[1] = Sign("~") /\ p[2] = tochar(n)
    BY <1>2, <1>3
  <1>5. PICK t : t = p \o c
    OBVIOUS
  <1>6. /\ t \in Seq(Wire) /\ Len(t) = Len(p) + Len(c)
        /\ \A i \in 1 .. Len(p) : t[i] = p[i]
        /\ \A i \in 1 .. Len(c) : t[Len(p) + i] = c[i]
    <2>1. t \in Seq(Wire) /\ Splits(t, p, c)
      BY <1>1, <1>4, <1>5, Halves, Zenon
    <2>2. QED BY <2>1 DEF Splits
  <1>7. PICK k \in {1, 3} : k = 3
    OBVIOUS
  <1>8. t[1] = Sign("~") /\ t[2] = tochar(n) /\ Len(t) = k + Len(Coded(a)) - 1
    BY <1>1, <1>4, <1>6, <1>7
  <1>9. ASSUME NEW j \in 1 .. Len(Coded(a)) PROVE t[k + j - 1] = Coded(a)[j]
    <2>1. k + j - 1 = 2 + j
      BY <1>1, <1>7
    <2>2. QED BY <1>1, <1>4, <1>6, <2>1
  <1>10. Stands(t, k, a)
    BY <1>7, <1>8, <1>9 DEF Stands
  <1>11. n = IF k = 3 /\ t[2].n # 0 THEN t[2].n ELSE 1
    BY <1>7, <1>8 DEF tochar
  <1>12. Reads(how, t, Copies(a, n))
    BY <1>6, <1>8, <1>9, <1>10, <1>11, PieceReads
  <1>13. QED BY <1>1, <1>2, <1>5, <1>12 DEF Repeated

LEMMA NothingReads == ASSUME NEW h PROVE Reads(h, <<>>, <<>>)
  <1>1. <<>> \in Seq(Wire) /\ <<>> \in Seq(Bytes)
    BY EmptySeq
  <1>2. ASSUME NEW y \in Seq(Wire), decode_fields(h, y) \in Seq(Bytes)
        PROVE  decode_fields(h, <<>> \o y) = <<>> \o decode_fields(h, y)
    <2>1. <<>> \o y = y
      BY ConcatEmptySeq, Zenon
    <2>2. <<>> \o decode_fields(h, y) = decode_fields(h, y)
      BY <1>2, ConcatEmptySeq, Zenon
    <2>3. QED BY <2>1, <2>2
  <1>3. QED BY <1>1, <1>2 DEF Reads

LEMMA BytesJoin ==
  ASSUME NEW s \in Seq(Bytes), NEW t \in Seq(Bytes), NEW u \in Seq(Bytes)
  PROVE  (s \o t) \o u = s \o (t \o u)
  BY ConcatAssociative

LEMMA WireJoin ==
  ASSUME NEW s \in Seq(Wire), NEW t \in Seq(Wire), NEW u \in Seq(Wire)
  PROVE  (s \o t) \o u = s \o (t \o u)
  BY ConcatAssociative

LEMMA ReadsJoin ==
  ASSUME NEW h, NEW x, NEW w, NEW x2, NEW w2, Reads(h, x, w), Reads(h, x2, w2)
  PROVE  Reads(h, x \o x2, w \o w2)
  <1>1. x \in Seq(Wire) /\ x2 \in Seq(Wire) /\ w \in Seq(Bytes) /\ w2 \in Seq(Bytes)
    BY DEF Reads
  <1>2. x \o x2 \in Seq(Wire) /\ w \o w2 \in Seq(Bytes)
    BY <1>1, ConcatProperties, Zenon
  <1>3. ASSUME NEW y \in Seq(Wire), decode_fields(h, y) \in Seq(Bytes)
        PROVE  decode_fields(h, (x \o x2) \o y) = (w \o w2) \o decode_fields(h, y)
    <2>1. PICK d \in Seq(Bytes) : d = decode_fields(h, y)
      BY <1>3
    <2>2. PICK z : z = x2 \o y
      OBVIOUS
    <2>3. z \in Seq(Wire)
      BY <1>1, <2>2, ConcatProperties, Zenon
    <2>4. decode_fields(h, z) = w2 \o d
      BY <1>3, <2>1, <2>2 DEF Reads
    <2>5. w2 \o d \in Seq(Bytes)
      BY <1>1, ConcatProperties, Zenon
    <2>6. decode_fields(h, x \o z) = w \o (w2 \o d)
      BY <2>3, <2>4, <2>5 DEF Reads
    <2>7. (x \o x2) \o y = x \o z
      BY <1>1, <2>2, WireJoin, Zenon
    <2>8. (w \o w2) \o d = w \o (w2 \o d)
      BY <1>1, BytesJoin, Zenon
    <2>9. QED BY <2>1, <2>6, <2>7, <2>8
  <1>4. QED BY <1>2, <1>3 DEF Reads

LEMMA ReadsIs ==
  ASSUME NEW h, NEW x, NEW w, Reads(h, x, w)
  PROVE  decode_fields(h, x) = w
  <1>1. x \in Seq(Wire) /\ w \in Seq(Bytes)
    BY DEF Reads
  <1>2. <<>> \in Seq(Wire) /\ <<>> \in Seq(Bytes)
    BY EmptySeq
  <1>3. decode_fields(h, <<>>) = <<>>
    BY <1>2, DecodeUnfolds
  <1>4. decode_fields(h, x \o <<>>) = w \o <<>>
    BY <1>2, <1>3 DEF Reads
  <1>5. x \o <<>> = x /\ w \o <<>> = w
    BY <1>1, ConcatEmptySeq, Zenon
  <1>6. QED BY <1>4, <1>5

(* The field F is two pieces that can be read apart.                       *)
Made(F, w1, w2) ==
  /\ Reads(how, F.x, w1 \o w2)
  /\ Reads(how, SubSeq(F.x, 1, F.osize), w1)
  /\ Reads(how, SubSeq(F.x, F.osize + 1, Len(F.x)), w2)
Run(c, n, w) == w \o Copies(c, n)

LEMMA CutReads ==
  ASSUME NEW p, NEW q, NEW w1, NEW w2, Reads(how, p, w1), Reads(how, q, w2), NEW r
  PROVE  Made(Field(p \o q, Len(p), r), w1, w2)
  <1>1. PICK s : s = p \o q
    OBVIOUS
  <1>2. p \in Seq(Wire) /\ q \in Seq(Wire)
    BY DEF Reads
  <1>3. s \in Seq(Wire) /\ Splits(s, p, q)
    BY <1>1, <1>2, Halves, Zenon
  <1>4. SubSeq(s, 1, Len(p)) = p /\ SubSeq(s, Len(p) + 1, Len(s)) = q
    BY <1>3 DEF Splits
  <1>5. Reads(how, s, w1 \o w2)
    BY <1>1, ReadsJoin
  <1>6. PICK F : F = Field(s, Len(p), r)
    OBVIOUS
  <1>7. F.x = s /\ F.osize = Len(p)
    BY <1>6 DEF Field
  <1>8. Made(F, w1, w2)
    BY <1>4, <1>5, <1>7 DEF Made
  <1>9. QED BY <1>1, <1>6, <1>8

LEMMA RunGrows ==
  ASSUME NEW w \in Seq(Bytes), NEW a \in Bytes, NEW n \in Nat
  PROVE  /\ Run(a, n, w) \in Seq(Bytes) /\ Run(a, 0, w) = w
         /\ Run(a, n, w) \o <<a>> = Run(a, n + 1, w)
  <1>1. PICK c \in Seq(Bytes) : c = Copies(a, n)
    BY CopiesSeq
  <1>2. <<a>> \in Seq(Bytes)
    OBVIOUS
  <1>3. w \o c \in Seq(Bytes)
    BY ConcatProperties, Zenon
  <1>4. (w \o c) \o <<a>> = w \o (c \o <<a>>)
    BY <1>2, BytesJoin, Zenon
  <1>5. c \o <<a>> = Copies(a, n + 1)
    BY <1>1, CopiesGrow
  <1>6. w \o <<>> = w
    BY ConcatEmptySeq, Zenon
  <1>7. Copies(a, 0) = <<>>
    BY NoCopies
  <1>8. QED BY <1>1, <1>3, <1>4, <1>5, <1>6, <1>7 DEF Run

(* encode() puts a byte behind what the field and the run say already.     *)
Encoded(F, a, rpt, next, w, w1, w2) ==
  /\ Made(F, w1, w2) /\ w1 \in Seq(Bytes) /\ w2 \in Seq(Bytes)
  /\ Run(next, F.rpt, w1 \o w2) = Run(a, rpt + 1, w)
  /\ F.rpt \in 0 .. RPTMAX - 1 /\ (F.rpt > 0 => how.rpt /\ next = a)

LEMMA EncodeReads ==
  ASSUME how \in Hows, NEW x, NEW w, Reads(how, x, w), NEW a \in Bytes,
         NEW rpt \in 0 .. RPTMAX - 1, rpt > 0 => how.rpt, NEW next
  PROVE  \E w1, w2 : Encoded(encode(x, rpt, a, next), a, rpt, next, w, w1, w2)
  <1>1. x \in Seq(Wire) /\ w \in Seq(Bytes) /\ <<>> \in Seq(Bytes) /\ <<a>> \in Seq(Bytes)
    BY EmptySeq DEF Reads
  <1>2. RPTMAX \in Nat /\ RPTMAX > 2 /\ rpt \in Nat
    BY CodingAssumption
  <1>3. \A z : Copies(z, 0) = <<>>
    BY NoCopies
  <1>4. ASSUME NEW u \in Seq(Bytes) PROVE Run(next, 0, u) = u
    <2>1. u \o <<>> = u
      BY ConcatEmptySeq, Zenon
    <2>2. QED BY <1>3, <2>1 DEF Run
  <1>5. Reads(how, Coded(a), <<a>>)
    BY CodedReads
  <1>6. PICK e : e = encode(x, rpt, a, next)
    OBVIOUS
  <1>7. CASE how.rpt /\ a = next /\ rpt + 1 < RPTMAX
    <2>1. (rpt + 1) % RPTMAX = rpt + 1
      BY <1>2, <1>7
    <2>2. e = Field(x, Len(x), rpt + 1)
      BY <1>6, <1>7, <2>1 DEF encode
    <2>3. x \o <<>> = x /\ w \o <<>> = w
      BY <1>1, ConcatEmptySeq, Zenon
    <2>4. Made(Field(x \o <<>>, Len(x), rpt + 1), w, <<>>)
      BY NothingReads, CutReads
    <2>5. Made(e, w, <<>>) /\ e.rpt = rpt + 1
      BY <2>2, <2>3, <2>4 DEF Field
    <2>6. Run(next, e.rpt, w \o <<>>) = Run(a, rpt + 1, w)
      BY <1>7, <2>3, <2>5
    <2>7. e.rpt \in 0 .. RPTMAX - 1
      BY <1>2, <1>7, <2>5
    <2>8. Encoded(e, a, rpt, next, w, w, <<>>)
      BY <1>1, <1>7, <2>5, <2>6, <2>7 DEF Encoded
    <2>9. QED BY <1>6, <2>8
  <1>8. CASE how.rpt /\ a = next /\ ~ (rpt + 1 < RPTMAX)
    <2>1. rpt + 1 = RPTMAX /\ RPTMAX % RPTMAX = 0
      BY <1>2, <1>8
    <2>2. e = Field(x \o Repeated(a, RPTMAX), Len(x), 0)
      BY <1>6, <1>8, <2>1 DEF encode
    <2>3. Reads(how, Repeated(a, RPTMAX), Copies(a, RPTMAX))
      BY <1>2, <1>8, RepeatedReads
    <2>4. Made(e, w, Copies(a, RPTMAX))
      BY <2>2, <2>3, CutReads
    <2>5. Copies(a, RPTMAX) \in Seq(Bytes) /\ w \o Copies(a, RPTMAX) = Run(a, rpt + 1, w)
      BY <1>2, <2>1, CopiesSeq DEF Run
    <2>6. Run(a, rpt + 1, w) \in Seq(Bytes)
      BY <1>1, <1>2, <2>1, RunGrows
    <2>7. e.rpt = 0
      BY <2>2 DEF Field
    <2>8. Run(next, 0, w \o Copies(a, RPTMAX)) = Run(a, rpt + 1, w)
      BY <1>4, <2>5, <2>6
    <2>9. e.rpt \in 0 .. RPTMAX - 1 /\ ~ (e.rpt > 0)
      BY <1>2, <2>7
    <2>10. Encoded(e, a, rpt, next, w, w, Copies(a, RPTMAX))
      BY <1>1, <2>4, <2>5, <2>7, <2>8, <2>9 DEF Encoded
    <2>11. QED BY <1>6, <2>10
  <1>9. CASE ~ (how.rpt /\ a = next) /\ rpt = 1
    <2>1. PICK c : c = Coded(a)
      OBVIOUS
    <2>2. PICK one : one = x \o c
      OBVIOUS
    <2>3. Reads(how, c, <<a>>) /\ Reads(how, one, w \o <<a>>)
      BY <1>5, <2>1, <2>2, ReadsJoin
    <2>4. e = Field(one \o c, IF Len(one) <= Boundary THEN Len(one) ELSE Len(x), 0)
      BY <1>6, <1>9, <2>1, <2>2 DEF encode
    <2>5. w \o <<a>> = Run(a, 1, w) /\ Run(a, 1, w) \o <<a>> = Run(a, 2, w)
      <3>1. Copies(a, 1) = <<a>>
        BY OneCopy
      <3>2. Run(a, 1, w) \o <<a>> = Run(a, 1 + 1, w)
        BY <1>1, RunGrows
      <3>3. 1 + 1 = 2
        OBVIOUS
      <3>4. QED BY <3>1, <3>2, <3>3 DEF Run
    <2>6. Run(a, 1, w) \in Seq(Bytes) /\ Run(a, 2, w) \in Seq(Bytes)
      BY <1>1, RunGrows
    <2>7. e.rpt = 0 /\ e.rpt \in 0 .. RPTMAX - 1 /\ ~ (e.rpt > 0) /\ rpt + 1 = 2
      BY <1>2, <1>9, <2>4 DEF Field
    <2>8. CASE Len(one) <= Boundary
      <3>1. Made(e, w \o <<a>>, <<a>>)
        BY <2>3, <2>4, <2>8, CutReads
      <3>2. Run(next, 0, (w \o <<a>>) \o <<a>>) = Run(a, rpt + 1, w)
        BY <1>4, <2>5, <2>6, <2>7
      <3>3. Encoded(e, a, rpt, next, w, w \o <<a>>, <<a>>)
        BY <1>1, <2>5, <2>6, <2>7, <3>1, <3>2 DEF Encoded
      <3>4. QED BY <1>6, <3>3
    <2>9. CASE ~ (Len(one) <= Boundary)
      <3>1. c \in Seq(Wire)
        BY <2>3 DEF Reads
      <3>2. one \o c = x \o (c \o c)
        BY <1>1, <2>2, <3>1, WireJoin, Zenon
      <3>3. Reads(how, c \o c, <<a>> \o <<a>>)
        BY <2>3, ReadsJoin
      <3>4. e = Field(x \o (c \o c), Len(x), 0)
        BY <2>4, <2>9, <3>2
      <3>5. Made(e, w, <<a>> \o <<a>>)
        BY <3>3, <3>4, CutReads
      <3>6. w \o (<<a>> \o <<a>>) = (w \o <<a>>) \o <<a>>
        BY <1>1, BytesJoin, Zenon
      <3>7. Run(next, 0, w \o (<<a>> \o <<a>>)) = Run(a, rpt + 1, w)
        BY <1>4, <2>5, <2>6, <2>7, <3>6
      <3>8. <<a>> \o <<a>> \in Seq(Bytes)
        BY <1>1, ConcatProperties, Zenon
      <3>9. Encoded(e, a, rpt, next, w, w, <<a>> \o <<a>>)
        BY <1>1, <2>7, <3>5, <3>7, <3>8 DEF Encoded
      <3>10. QED BY <1>6, <3>9
    <2>10. QED BY <2>8, <2>9
  <1>10. CASE ~ (how.rpt /\ a = next) /\ rpt > 1
    <2>1. e = Field(x \o Repeated(a, rpt + 1), Len(x), 0)
      BY <1>2, <1>6, <1>10 DEF encode
    <2>2. PICK n \in Nat \ {0} : n = rpt + 1
      BY <1>2
    <2>3. Reads(how, Repeated(a, n), Copies(a, n))
      BY <1>2, <1>10, RepeatedReads
    <2>4. Made(e, w, Copies(a, n))
      BY <2>1, <2>2, <2>3, CutReads
    <2>5. Copies(a, n) \in Seq(Bytes) /\ w \o Copies(a, n) = Run(a, rpt + 1, w)
      BY <2>2, CopiesSeq DEF Run
    <2>6. Run(a, rpt + 1, w) \in Seq(Bytes)
      BY <1>1, <2>2, RunGrows
    <2>7. e.rpt = 0
      BY <2>1 DEF Field
    <2>8. Run(next, 0, w \o Copies(a, n)) = Run(a, rpt + 1, w)
      BY <1>4, <2>5, <2>6
    <2>9. e.rpt \in 0 .. RPTMAX - 1 /\ ~ (e.rpt > 0)
      BY <1>2, <2>7
    <2>10. Encoded(e, a, rpt, next, w, w, Copies(a, n))
      BY <1>1, <2>4, <2>5, <2>7, <2>8, <2>9 DEF Encoded
    <2>11. QED BY <1>6, <2>10
  <1>11. CASE ~ (how.rpt /\ a = next) /\ rpt = 0
    <2>1. e = Field(x \o Coded(a), Len(x), 0)
      BY <1>2, <1>6, <1>11 DEF encode
    <2>2. Made(e, w, <<a>>)
      BY <1>5, <2>1, CutReads
    <2>3. w \o <<a>> = Run(a, 1, w) /\ Run(a, 1, w) \in Seq(Bytes)
      BY <1>1, OneCopy, RunGrows DEF Run
    <2>4. e.rpt = 0 /\ e.rpt \in 0 .. RPTMAX - 1 /\ ~ (e.rpt > 0) /\ rpt + 1 = 1
      BY <1>2, <1>11, <2>1 DEF Field
    <2>5. Run(next, 0, w \o <<a>>) = Run(a, rpt + 1, w)
      BY <1>4, <2>3, <2>4
    <2>6. Encoded(e, a, rpt, next, w, w, <<a>>)
      BY <1>1, <2>2, <2>4, <2>5 DEF Encoded
    <2>7. QED BY <1>6, <2>6
  <1>12. QED
    <2>1. rpt = 0 \/ rpt = 1 \/ rpt > 1
      BY <1>2
    <2>2. QED BY <1>7, <1>8, <1>9, <1>10, <1>11, <2>1

LEMMA PrefixSeq ==
  ASSUME NEW S, NEW s \in Seq(S), NEW n \in 0 .. Len(s)
  PROVE  SubSeq(s, 1, n) \in Seq(S)
  <1>1. \A i \in 1 .. n : s[i] \in S
    OBVIOUS
  <1>2. QED BY <1>1, SubSeqProperties

(* getpkt()'s loop, as a function of how many bytes it may take.           *)
NextOf(rest, k) == IF k < Len(rest) THEN rest[k + 1] ELSE EOF
First(x, rpt, c, rest) == [n |-> 0, e |-> encode(x, rpt, c, NextOf(rest, 0))]
Take(s, k, rest) ==
  IF Len(s.e.x) >= maxlen THEN s ELSE [n |-> k, e |-> encode(s.e.x, s.e.rpt, rest[k], NextOf(rest, k))]
Loops(f, m, x, rpt, c, rest) ==
  f = [k \in 0 .. m |-> IF k = 0 THEN First(x, rpt, c, rest) ELSE Take(f[k - 1], k, rest)]
Closed(s, rest) ==
  LET end == IF Len(s.e.x) > maxlen THEN s.e.osize ELSE Len(s.e.x)
  IN [field |-> SubSeq(s.e.x, 1, end), remain |-> SubSeq(s.e.x, end + 1, Len(s.e.x)), run |-> s.e.rpt,
      hand |-> NextOf(rest, s.n), text |-> SubSeq(rest, s.n + 2, Len(rest)), more |-> s.n < Len(rest)]

LEMMA TakesAll ==
  ASSUME NEW N \in Nat, NEW x, NEW rpt, NEW c, NEW rest
  PROVE  \E f : Loops(f, N, x, rpt, c, rest)
  <1> DEFINE T == {m \in Nat : \E f : Loops(f, m, x, rpt, c, rest)}
  <1>1. 0 \in T
    <2>1. PICK f : f = [k \in 0 .. 0 |-> First(x, rpt, c, rest)]
      OBVIOUS
    <2>2. Loops(f, 0, x, rpt, c, rest)
      BY <2>1 DEF Loops
    <2>3. QED BY <2>2
  <1>2. ASSUME NEW m \in 0 .. N - 1, m \in T PROVE m + 1 \in T
    <2>1. PICK f : Loops(f, m, x, rpt, c, rest)
      BY <1>2
    <2>2. PICK g : g = [k \in 0 .. m + 1 |-> IF k = 0 THEN First(x, rpt, c, rest)
                                             ELSE Take(f[k - 1], k, rest)]
      OBVIOUS
    <2>3. \A k \in 0 .. m : f[k] = IF k = 0 THEN First(x, rpt, c, rest) ELSE Take(f[k - 1], k, rest)
      BY <2>1 DEF Loops
    <2>4. \A k \in 0 .. m + 1 : g[k] = IF k = 0 THEN First(x, rpt, c, rest)
                                       ELSE Take(f[k - 1], k, rest)
      BY <2>2
    <2>5. \A k \in 0 .. m : g[k] = f[k]
      BY <2>3, <2>4
    <2>6. \A k \in 0 .. m + 1 : g[k] = IF k = 0 THEN First(x, rpt, c, rest)
                                       ELSE Take(g[k - 1], k, rest)
      <3>1. SUFFICES ASSUME NEW k \in 0 .. m + 1, k # 0 PROVE g[k] = Take(g[k - 1], k, rest)
        BY <2>4
      <3>2. g[k] = Take(f[k - 1], k, rest)
        BY <2>4, <3>1
      <3>3. g[k - 1] = f[k - 1]
        BY <2>5, <3>1
      <3>4. QED BY <3>2, <3>3
    <2>7. g = [k \in 0 .. m + 1 |-> g[k]]
      BY <2>2
    <2>8. Loops(g, m + 1, x, rpt, c, rest)
      BY <2>6, <2>7 DEF Loops
    <2>9. m + 1 \in Nat
      OBVIOUS
    <2>10. QED BY <2>8, <2>9
  <1> HIDE DEF T
  <1>3. 0 .. N \subseteq T
    BY <1>1, <1>2, FromUpTo
  <1>4. N \in T
    BY <1>3
  <1>5. QED BY <1>4 DEF T

LEMMA FilledIs ==
  ASSUME NEW x, NEW rpt, NEW c, NEW rest \in Seq(Bytes)
  PROVE  \E f : /\ Loops(f, Len(rest), x, rpt, c, rest)
                /\ Filled(x, rpt, c, rest) = Closed(f[Len(rest)], rest)
  <1> DEFINE f == CHOOSE g : Loops(g, Len(rest), x, rpt, c, rest)
  <1>1. Len(rest) \in Nat
    OBVIOUS
  <1>2. Loops(f, Len(rest), x, rpt, c, rest)
    BY <1>1, TakesAll, Zenon
  <1>3. Filled(x, rpt, c, rest) = Closed(f[Len(rest)], rest)
    BY Zenon DEF Filled, Closed, Loops, Take, First, NextOf
  <1> HIDE DEF f
  <1>4. QED BY <1>2, <1>3

(* Where the loop is after k bytes: what it has coded, read back, and the   *)
(* run it holds, are the bytes it was given and the n it has taken.         *)
Taken(s, k, rest, base, w1, w2) ==
  /\ Made(s.e, w1, w2) /\ w1 \in Seq(Bytes) /\ w2 \in Seq(Bytes)
  /\ s.n \in 0 .. k /\ (s.n = k \/ Len(s.e.x) >= maxlen)
  /\ Run(NextOf(rest, s.n), s.e.rpt, w1 \o w2) = base \o SubSeq(rest, 1, s.n)
  /\ s.e.rpt \in 0 .. RPTMAX - 1 /\ (s.e.rpt > 0 => how.rpt /\ NextOf(rest, s.n) \in Bytes)

LEMMA FirstTaken ==
  ASSUME how \in Hows, NEW x, NEW w, Reads(how, x, w), NEW c \in Bytes,
         NEW rpt \in 0 .. RPTMAX - 1, rpt > 0 => how.rpt, NEW rest \in Seq(Bytes)
  PROVE  \E w1, w2 : Taken(First(x, rpt, c, rest), 0, rest, Run(c, rpt + 1, w), w1, w2)
  <1>1. PICK nx : nx = NextOf(rest, 0)
    OBVIOUS
  <1>2. PICK e : e = encode(x, rpt, c, nx)
    OBVIOUS
  <1>3. \E w1, w2 : Encoded(e, c, rpt, nx, w, w1, w2)
    BY <1>2, EncodeReads
  <1>4. PICK w1, w2 : Encoded(e, c, rpt, nx, w, w1, w2)
    BY <1>3
  <1>5. PICK s : s = First(x, rpt, c, rest)
    OBVIOUS
  <1>6. s.n = 0 /\ s.e = e
    BY <1>1, <1>2, <1>5 DEF First
  <1>7. PICK base \in Seq(Bytes) : base = Run(c, rpt + 1, w)
    <2>1. w \in Seq(Bytes) /\ rpt + 1 \in Nat
      BY CodingAssumption DEF Reads
    <2>2. QED BY <2>1, RunGrows
  <1>8. SubSeq(rest, 1, 0) = <<>>
    BY SubSeqEmpty
  <1>9. base \o <<>> = base
    BY ConcatEmptySeq, Zenon
  <1>10. Run(NextOf(rest, s.n), s.e.rpt, w1 \o w2) = base \o SubSeq(rest, 1, s.n)
    BY <1>1, <1>4, <1>6, <1>7, <1>8, <1>9 DEF Encoded
  <1>11. s.e.rpt \in 0 .. RPTMAX - 1 /\ (s.e.rpt > 0 => how.rpt /\ NextOf(rest, s.n) \in Bytes)
    BY <1>1, <1>4, <1>6 DEF Encoded
  <1>12. Made(s.e, w1, w2) /\ w1 \in Seq(Bytes) /\ w2 \in Seq(Bytes)
    BY <1>4, <1>6 DEF Encoded
  <1>13. s.n \in 0 .. 0 /\ s.n = 0
    BY <1>6
  <1>14. Taken(s, 0, rest, base, w1, w2)
    BY <1>10, <1>11, <1>12, <1>13 DEF Taken
  <1>15. QED BY <1>5, <1>7, <1>14

LEMMA TakeKeeps ==
  ASSUME how \in Hows, NEW rest \in Seq(Bytes), NEW base \in Seq(Bytes),
         NEW k \in 0 .. Len(rest) - 1, NEW s, NEW v1, NEW v2, Taken(s, k, rest, base, v1, v2)
  PROVE  \E w1, w2 : Taken(Take(s, k + 1, rest), k + 1, rest, base, w1, w2)
  <1>1. PICK r : r = Take(s, k + 1, rest)
    OBVIOUS
  <1>2. CASE Len(s.e.x) >= maxlen
    <2>1. r = s
      BY <1>1, <1>2 DEF Take
    <2>2. s.n \in 0 .. k + 1
      BY DEF Taken
    <2>3. Taken(r, k + 1, rest, base, v1, v2)
      BY <1>2, <2>1, <2>2 DEF Taken
    <2>4. QED BY <1>1, <2>3
  <1>3. CASE ~ (Len(s.e.x) >= maxlen)
    <2>1. s.n = k /\ k \in Nat /\ k < Len(rest) /\ k + 1 \in 1 .. Len(rest)
      BY <1>3 DEF Taken
    <2>2. PICK a \in Bytes : a = rest[k + 1]
      BY <2>1
    <2>3. NextOf(rest, k) = a
      BY <2>1, <2>2 DEF NextOf
    <2>4. PICK n : n = s.e.rpt
      OBVIOUS
    <2>5. n \in 0 .. RPTMAX - 1 /\ n \in Nat /\ (n > 0 => how.rpt)
      BY <2>4, CodingAssumption DEF Taken
    <2>6. PICK w : w = v1 \o v2
      OBVIOUS
    <2>7. Reads(how, s.e.x, w) /\ w \in Seq(Bytes)
      BY <2>6 DEF Taken, Made, Reads
    <2>8. Run(a, n, w) = base \o SubSeq(rest, 1, k)
      BY <2>1, <2>3, <2>4, <2>6 DEF Taken
    <2>9. PICK nx : nx = NextOf(rest, k + 1)
      OBVIOUS
    <2>10. PICK e : e = encode(s.e.x, n, a, nx)
      OBVIOUS
    <2>11. \E w1, w2 : Encoded(e, a, n, nx, w, w1, w2)
      BY <2>5, <2>7, <2>10, EncodeReads
    <2>12. PICK w1, w2 : Encoded(e, a, n, nx, w, w1, w2)
      BY <2>11
    <2>13. r.n = k + 1 /\ r.e = e
      BY <1>1, <1>3, <2>2, <2>4, <2>9, <2>10 DEF Take
    <2>14. PICK p \in Seq(Bytes) : p = SubSeq(rest, 1, k)
      <3>1. k \in 0 .. Len(rest)
        BY <2>1
      <3>2. QED BY <3>1, PrefixSeq
    <2>15. SubSeq(rest, 1, k + 1) = p \o <<a>>
      <3>1. 1 \in 1 .. Len(rest) /\ k + 1 \in 1 .. Len(rest)
        BY <2>1
      <3>2. SubSeq(rest, 1, k + 1) = SubSeq(rest, 1, (k + 1) - 1) \o <<rest[k + 1]>>
        BY <3>1, SubSeqRecursiveSecond
      <3>3. (k + 1) - 1 = k
        BY <2>1
      <3>4. QED BY <2>2, <2>14, <3>2, <3>3
    <2>16. <<a>> \in Seq(Bytes)
      OBVIOUS
    <2>17. (base \o p) \o <<a>> = base \o (p \o <<a>>)
      BY <2>16, BytesJoin, Zenon
    <2>18. Run(a, n + 1, w) = Run(a, n, w) \o <<a>>
      BY <2>5, <2>7, RunGrows
    <2>19. Run(nx, e.rpt, w1 \o w2) = base \o SubSeq(rest, 1, k + 1)
      BY <2>8, <2>12, <2>14, <2>15, <2>17, <2>18 DEF Encoded
    <2>20. e.rpt \in 0 .. RPTMAX - 1 /\ (e.rpt > 0 => how.rpt /\ nx \in Bytes)
      BY <2>2, <2>12 DEF Encoded
    <2>21. Made(e, w1, w2) /\ w1 \in Seq(Bytes) /\ w2 \in Seq(Bytes)
      BY <2>12 DEF Encoded
    <2>22. k + 1 \in 0 .. k + 1
      BY <2>1
    <2>23. Taken(r, k + 1, rest, base, w1, w2)
      BY <2>9, <2>13, <2>19, <2>20, <2>21, <2>22 DEF Taken
    <2>24. QED BY <1>1, <2>23
  <1>4. QED BY <1>2, <1>3

LEMMA AllTaken ==
  ASSUME how \in Hows, NEW x, NEW w, Reads(how, x, w), NEW c \in Bytes,
         NEW rpt \in 0 .. RPTMAX - 1, rpt > 0 => how.rpt, NEW rest \in Seq(Bytes),
         NEW f, Loops(f, Len(rest), x, rpt, c, rest)
  PROVE  \E w1, w2 : Taken(f[Len(rest)], Len(rest), rest, Run(c, rpt + 1, w), w1, w2)
  <1>1. PICK N \in Nat : N = Len(rest)
    OBVIOUS
  <1>2. PICK base \in Seq(Bytes) : base = Run(c, rpt + 1, w)
    <2>1. w \in Seq(Bytes) /\ rpt + 1 \in Nat
      BY CodingAssumption DEF Reads
    <2>2. QED BY <2>1, RunGrows
  <1> DEFINE T == {k \in 0 .. N : \E w1, w2 : Taken(f[k], k, rest, base, w1, w2)}
  <1>3. \A k \in 0 .. N : f[k] = IF k = 0 THEN First(x, rpt, c, rest) ELSE Take(f[k - 1], k, rest)
    BY <1>1 DEF Loops
  <1>4. 0 \in T
    <2>1. f[0] = First(x, rpt, c, rest)
      BY <1>3
    <2>2. \E w1, w2 : Taken(First(x, rpt, c, rest), 0, rest, base, w1, w2)
      BY <1>2, FirstTaken
    <2>3. QED BY <2>1, <2>2
  <1>5. ASSUME NEW k \in 0 .. N - 1, k \in T PROVE k + 1 \in T
    <2>1. PICK v1, v2 : Taken(f[k], k, rest, base, v1, v2)
      BY <1>5
    <2>2. k + 1 \in 0 .. N /\ k + 1 # 0 /\ (k + 1) - 1 = k /\ k \in 0 .. Len(rest) - 1
      BY <1>1
    <2>3. f[k + 1] = Take(f[k], k + 1, rest)
      BY <1>3, <2>2
    <2>4. \E w1, w2 : Taken(Take(f[k], k + 1, rest), k + 1, rest, base, w1, w2)
      BY <2>1, <2>2, TakeKeeps
    <2>5. QED BY <2>2, <2>3, <2>4
  <1> HIDE DEF T
  <1>6. 0 .. N \subseteq T
    BY <1>4, <1>5, FromUpTo
  <1>7. N \in T
    BY <1>6
  <1>8. QED BY <1>1, <1>2, <1>7 DEF T

(* What a call of getpkt() sends and what it keeps are what it was given.   *)
Left(r) == IF r.more THEN <<r.hand>> \o r.text ELSE <<>>
Filling(r, base, rest, u, v) ==
  /\ Reads(how, r.field, u) /\ Reads(how, r.remain, v)
  /\ Run(r.hand, r.run, u \o v) \o Left(r) = base \o rest
  /\ r.run \in 0 .. RPTMAX - 1 /\ (r.run > 0 => how.rpt /\ r.more)
  /\ r.more \in BOOLEAN /\ (r.more => r.hand \in Bytes) /\ r.text \in Seq(Bytes)

LEMMA FilledReads ==
  ASSUME how \in Hows, NEW x, NEW w, Reads(how, x, w), NEW c \in Bytes,
         NEW rpt \in 0 .. RPTMAX - 1, rpt > 0 => how.rpt, NEW rest \in Seq(Bytes)
  PROVE  \E u, v : Filling(Filled(x, rpt, c, rest), Run(c, rpt + 1, w), rest, u, v)
  <1>1. PICK f : /\ Loops(f, Len(rest), x, rpt, c, rest)
                 /\ Filled(x, rpt, c, rest) = Closed(f[Len(rest)], rest)
    BY FilledIs
  <1>2. PICK base \in Seq(Bytes) : base = Run(c, rpt + 1, w)
    <2>1. w \in Seq(Bytes) /\ rpt + 1 \in Nat
      BY CodingAssumption DEF Reads
    <2>2. QED BY <2>1, RunGrows
  <1>3. PICK N \in Nat : N = Len(rest)
    OBVIOUS
  <1>4. PICK s : s = f[N]
    OBVIOUS
  <1>5. \E w1, w2 : Taken(s, N, rest, base, w1, w2)
    BY <1>1, <1>2, <1>3, <1>4, AllTaken
  <1>6. PICK w1, w2 : Taken(s, N, rest, base, w1, w2)
    BY <1>5
  <1>7. PICK r : r = Closed(s, rest)
    OBVIOUS
  <1>8. PICK n \in Nat : n = s.n /\ n <= N
    BY <1>6 DEF Taken
  <1>9. PICK y \in Seq(Wire) : y = s.e.x
    BY <1>6 DEF Taken, Made, Reads
  <1>10. PICK end : end = IF Len(y) > maxlen THEN s.e.osize ELSE Len(y)
    OBVIOUS
  <1>11. /\ r.field = SubSeq(y, 1, end) /\ r.remain = SubSeq(y, end + 1, Len(y)) /\ r.run = s.e.rpt
         /\ r.hand = NextOf(rest, n) /\ r.text = SubSeq(rest, n + 2, N) /\ r.more = (n < N)
    BY <1>3, <1>7, <1>8, <1>9, <1>10 DEF Closed
  <1>12. \E u, v : /\ Reads(how, r.field, u) /\ Reads(how, r.remain, v) /\ u \o v = w1 \o w2
    <2>1. CASE Len(y) > maxlen
      BY <1>6, <1>9, <1>10, <1>11, <2>1 DEF Taken, Made
    <2>2. CASE ~ (Len(y) > maxlen)
      <3>1. SubSeq(y, 1, Len(y)) = y
        BY SubSeqFull
      <3>2. SubSeq(y, Len(y) + 1, Len(y)) = <<>>
        BY SubSeqEmpty
      <3>3. Reads(how, r.field, w1 \o w2) /\ r.remain = <<>>
        BY <1>6, <1>9, <1>10, <1>11, <2>2, <3>1, <3>2 DEF Taken, Made
      <3>4. (w1 \o w2) \o <<>> = w1 \o w2
        BY <3>3, ConcatEmptySeq, Zenon DEF Reads
      <3>5. Reads(how, <<>>, <<>>)
        BY NothingReads
      <3>6. QED BY <3>3, <3>4, <3>5
    <2>3. QED BY <2>1, <2>2
  <1>13. PICK u, v : /\ Reads(how, r.field, u) /\ Reads(how, r.remain, v) /\ u \o v = w1 \o w2
    BY <1>12
  <1>14. PICK p \in Seq(Bytes) : p = SubSeq(rest, 1, n)
    <2>1. n \in 0 .. Len(rest)
      BY <1>3, <1>8
    <2>2. QED BY <2>1, PrefixSeq
  <1>15. Run(r.hand, r.run, u \o v) = base \o p
    BY <1>6, <1>8, <1>11, <1>13, <1>14 DEF Taken
  <1>16. r.run \in 0 .. RPTMAX - 1 /\ (r.run > 0 => how.rpt /\ r.hand \in Bytes)
    BY <1>6, <1>8, <1>11 DEF Taken
  <1>17. r.more => r.hand \in Bytes
    <2>1. SUFFICES ASSUME n < N PROVE r.hand \in Bytes
      BY <1>11
    <2>2. n + 1 \in 1 .. Len(rest) /\ n < Len(rest)
      BY <1>3, <2>1
    <2>3. rest[n + 1] \in Bytes
      BY <2>2
    <2>4. QED BY <1>11, <2>2, <2>3 DEF NextOf
  <1>18. ~r.more => r.hand \notin Bytes
    <2>1. EOF \notin Bytes
      BY DEF EOF, Sign, Byte, Bytes, Classes
    <2>2. QED BY <1>3, <1>8, <1>11, <2>1 DEF NextOf
  <1>19. r.text \in Seq(Bytes)
    BY <1>3, <1>8, <1>11
  <1>20. p \o Left(r) = rest
    <2>1. CASE n < N
      <3>1. n + 1 \in 1 .. Len(rest) /\ Len(rest) \in n + 1 .. Len(rest) /\ (n + 1) + 1 = n + 2
        BY <1>3, <2>1
      <3>2. SubSeq(rest, n + 1, Len(rest)) = <<rest[n + 1]>> \o SubSeq(rest, (n + 1) + 1, Len(rest))
        BY <3>1, SubSeqRecursiveFirst
      <3>3. Left(r) = SubSeq(rest, n + 1, N)
        BY <1>3, <1>11, <2>1, <3>1, <3>2 DEF Left, NextOf
      <3>4. 1 \in 1 .. Len(rest) + 1 /\ n \in 1 - 1 .. Len(rest) /\ Len(rest) \in n .. Len(rest)
        BY <1>3, <2>1
      <3>5. SubSeq(rest, 1, n) \o SubSeq(rest, n + 1, Len(rest)) = SubSeq(rest, 1, Len(rest))
        BY <3>4, ConcatAdjacentSubSeq
      <3>6. SubSeq(rest, 1, Len(rest)) = rest
        BY SubSeqFull
      <3>7. QED BY <1>3, <1>14, <3>3, <3>5, <3>6
    <2>2. CASE ~ (n < N)
      <3>1. n = N
        BY <1>8, <2>2
      <3>2. SubSeq(rest, 1, Len(rest)) = rest
        BY SubSeqFull
      <3>3. p = rest
        BY <1>3, <1>14, <3>1, <3>2
      <3>4. Left(r) = <<>>
        BY <1>11, <2>2 DEF Left
      <3>5. rest \o <<>> = rest
        BY ConcatEmptySeq, Zenon
      <3>6. QED BY <3>3, <3>4, <3>5
    <2>3. QED BY <2>1, <2>2
  <1>21. (base \o p) \o Left(r) = base \o rest
    <2>1. Left(r) \in Seq(Bytes)
      <3>1. CASE r.more
        <4>1. <<r.hand>> \in Seq(Bytes)
          BY <1>17, <3>1
        <4>2. <<r.hand>> \o r.text \in Seq(Bytes)
          BY <1>19, <4>1, ConcatProperties, Zenon
        <4>3. QED BY <3>1, <4>2 DEF Left
      <3>2. CASE ~r.more
        BY <3>2, EmptySeq DEF Left
      <3>3. QED BY <3>1, <3>2
    <2>2. (base \o p) \o Left(r) = base \o (p \o Left(r))
      BY <2>1, BytesJoin, Zenon
    <2>3. QED BY <1>20, <2>2
  <1>22. r.more \in BOOLEAN
    BY <1>11
  <1>23. Filling(r, base, rest, u, v)
    BY <1>13, <1>15, <1>16, <1>17, <1>18, <1>19, <1>21, <1>22 DEF Filling
  <1>24. QED BY <1>1, <1>2, <1>3, <1>4, <1>7, <1>23

(* What the fields make, one field after another.                          *)
Joins(h, f, m, fs) == f = [i \in 0 .. m |-> IF i = 0 THEN <<>> ELSE f[i - 1] \o decode_fields(h, fs[i])]

LEMMA JoinsAll ==
  ASSUME NEW h, NEW N \in Nat, NEW fs
  PROVE  \E f : Joins(h, f, N, fs)
  <1> DEFINE T == {m \in Nat : \E f : Joins(h, f, m, fs)}
  <1>1. 0 \in T
    <2>1. PICK f : f = [i \in 0 .. 0 |-> <<>>]
      OBVIOUS
    <2>2. Joins(h, f, 0, fs)
      BY <2>1 DEF Joins
    <2>3. QED BY <2>2
  <1>2. ASSUME NEW m \in 0 .. N - 1, m \in T PROVE m + 1 \in T
    <2>1. PICK f : Joins(h, f, m, fs)
      BY <1>2
    <2>2. PICK g : g = [i \in 0 .. m + 1 |-> IF i = 0 THEN <<>> ELSE f[i - 1] \o decode_fields(h, fs[i])]
      OBVIOUS
    <2>3. \A i \in 0 .. m : f[i] = IF i = 0 THEN <<>> ELSE f[i - 1] \o decode_fields(h, fs[i])
      BY <2>1 DEF Joins
    <2>4. \A i \in 0 .. m + 1 : g[i] = IF i = 0 THEN <<>> ELSE f[i - 1] \o decode_fields(h, fs[i])
      BY <2>2
    <2>5. \A i \in 0 .. m : g[i] = f[i]
      BY <2>3, <2>4
    <2>6. \A i \in 0 .. m + 1 : g[i] = IF i = 0 THEN <<>> ELSE g[i - 1] \o decode_fields(h, fs[i])
      <3>1. SUFFICES ASSUME NEW i \in 0 .. m + 1, i # 0 PROVE g[i] = g[i - 1] \o decode_fields(h, fs[i])
        BY <2>4
      <3>2. g[i] = f[i - 1] \o decode_fields(h, fs[i])
        BY <2>4, <3>1
      <3>3. g[i - 1] = f[i - 1]
        BY <2>5, <3>1
      <3>4. QED BY <3>2, <3>3
    <2>7. g = [i \in 0 .. m + 1 |-> g[i]]
      BY <2>2
    <2>8. Joins(h, g, m + 1, fs)
      BY <2>6, <2>7 DEF Joins
    <2>9. m + 1 \in Nat
      OBVIOUS
    <2>10. QED BY <2>8, <2>9
  <1> HIDE DEF T
  <1>3. 0 .. N \subseteq T
    BY <1>1, <1>2, FromUpTo
  <1>4. N \in T
    BY <1>3
  <1>5. QED BY <1>4 DEF T

LEMMA ArrivedIs ==
  ASSUME NEW h, NEW fs, Len(fs) \in Nat
  PROVE  \E f : Joins(h, f, Len(fs), fs) /\ Arrived(h, fs) = f[Len(fs)]
  <1> DEFINE f == CHOOSE g : Joins(h, g, Len(fs), fs)
  <1>1. Joins(h, f, Len(fs), fs)
    BY JoinsAll, Zenon
  <1>2. Arrived(h, fs) = f[Len(fs)]
    BY Zenon DEF Arrived, Joins
  <1> HIDE DEF f
  <1>3. QED BY <1>1, <1>2

LEMMA ArrivedGrows ==
  ASSUME NEW h, NEW fs \in Seq(Seq(Wire)), NEW x \in Seq(Wire)
  PROVE  Arrived(h, Append(fs, x)) = Arrived(h, fs) \o decode_fields(h, x)
  <1>1. PICK N \in Nat : N = Len(fs)
    OBVIOUS
  <1>2. PICK gs : gs = Append(fs, x)
    OBVIOUS
  <1>3. Len(gs) = N + 1 /\ gs[N + 1] = x /\ \A i \in 1 .. N : gs[i] = fs[i]
    BY <1>1, <1>2
  <1>4. PICK f : Joins(h, f, N, fs) /\ Arrived(h, fs) = f[N]
    BY <1>1, ArrivedIs
  <1>5. PICK g : Joins(h, g, N + 1, gs) /\ Arrived(h, gs) = g[N + 1]
    <2>1. Len(gs) \in Nat
      BY <1>3
    <2>2. QED BY <1>3, <2>1, ArrivedIs
  <1>6. \A i \in 0 .. N : f[i] = IF i = 0 THEN <<>> ELSE f[i - 1] \o decode_fields(h, fs[i])
    BY <1>4 DEF Joins
  <1>7. \A i \in 0 .. N + 1 : g[i] = IF i = 0 THEN <<>> ELSE g[i - 1] \o decode_fields(h, gs[i])
    BY <1>5 DEF Joins
  <1> DEFINE T == {k \in 0 .. N : f[k] = g[k]}
  <1>8. 0 \in T
    BY <1>6, <1>7
  <1>9. ASSUME NEW k \in 0 .. N - 1, k \in T PROVE k + 1 \in T
    <2>1. k + 1 \in 0 .. N /\ k + 1 \in 0 .. N + 1 /\ k + 1 # 0 /\ (k + 1) - 1 = k /\ k + 1 \in 1 .. N
      OBVIOUS
    <2>2. f[k + 1] = f[k] \o decode_fields(h, fs[k + 1])
      BY <1>6, <2>1
    <2>3. g[k + 1] = g[k] \o decode_fields(h, gs[k + 1])
      BY <1>7, <2>1
    <2>4. gs[k + 1] = fs[k + 1]
      BY <1>3, <2>1
    <2>5. f[k + 1] = g[k + 1]
      BY <1>9, <2>2, <2>3, <2>4
    <2>6. QED BY <2>1, <2>5
  <1> HIDE DEF T
  <1>10. 0 .. N \subseteq T
    BY <1>8, <1>9, FromUpTo
  <1>11. N \in T
    BY <1>10
  <1>12. f[N] = g[N]
    BY <1>11 DEF T
  <1>13. g[N + 1] = g[N] \o decode_fields(h, gs[N + 1])
    <2>1. N + 1 \in 0 .. N + 1 /\ N + 1 # 0 /\ (N + 1) - 1 = N
      OBVIOUS
    <2>2. QED BY <1>7, <2>1
  <1>14. QED BY <1>2, <1>3, <1>4, <1>5, <1>12, <1>13

LEMMA NoneArrived == ASSUME NEW h PROVE Arrived(h, <<>>) = <<>>
  <1>1. PICK fs : fs = <<>>
    OBVIOUS
  <1>2. Len(fs) = 0
    BY <1>1
  <1>3. PICK f : Joins(h, f, Len(fs), fs) /\ Arrived(h, fs) = f[Len(fs)]
    BY <1>2, ArrivedIs
  <1>4. f[0] = <<>>
    BY <1>2, <1>3 DEF Joins
  <1>5. QED BY <1>1, <1>2, <1>3, <1>4

(* The fields, the bytes kept for the next one, the run and what is not     *)
(* read yet are the file.                                                   *)
Unread == IF more THEN <<hand>> \o text ELSE <<>>
Accounted(w) == /\ Reads(how, remain, w) /\ Arrived(how, fields) \in Seq(Bytes)
            /\ Arrived(how, fields) \o (Run(hand, run, w) \o Unread) = original
CodeInv ==
  /\ how \in Hows /\ text \in Seq(Bytes) /\ more \in BOOLEAN /\ (more => hand \in Bytes)
  /\ run \in 0 .. RPTMAX - 1 /\ (run > 0 => how.rpt /\ more)
  /\ fields \in Seq(Seq(Wire)) /\ original \in Seq(Bytes)
  /\ \E w : Accounted(w)

LEMMA NoRun ==
  ASSUME NEW a, NEW w \in Seq(Bytes)
  PROVE  Run(a, 0, w) = w
  <1>1. w \o <<>> = w
    BY ConcatEmptySeq, Zenon
  <1>2. QED BY <1>1, NoCopies DEF Run

LEMMA CodingStarts == CodeInit => CodeInv
  <1>1. SUFFICES ASSUME NEW t \in TEXTS, NEW h \in [rpt : BOOLEAN, ebq : BOOLEAN, bct : BCT], Coding(t, h)
                 PROVE  CodeInv
    BY DEF CodeInit
  <1>2. original \in Seq(Bytes) /\ how \in Hows
    BY <1>1, CodingAssumption DEF Coding, Hows
  <1>3. /\ hand = IF original = <<>> THEN EOF ELSE Head(original)
        /\ text = IF original = <<>> THEN <<>> ELSE Tail(original)
        /\ more = (original # <<>>) /\ run = 0 /\ remain = <<>> /\ fields = <<>>
    BY <1>1 DEF Coding
  <1>4. <<>> \in Seq(Bytes) /\ <<>> \in Seq(Seq(Wire))
    BY EmptySeq
  <1>5. text \in Seq(Bytes) /\ more \in BOOLEAN /\ (more => hand \in Bytes)
    <2>1. CASE original = <<>>
      BY <1>3, <1>4, <2>1
    <2>2. CASE original # <<>>
      BY <1>2, <1>3, <2>2, HeadTailProperties
    <2>3. QED BY <2>1, <2>2
  <1>6. run \in 0 .. RPTMAX - 1 /\ ~ (run > 0)
    BY <1>3, CodingAssumption
  <1>7. Unread = original
    <2>1. CASE original = <<>>
      BY <1>3, <2>1 DEF Unread
    <2>2. CASE original # <<>>
      <3>1. PICK N \in Nat \ {0} : N = Len(original)
        BY <1>2, <2>2, EmptySeq
      <3>2. 1 \in 1 .. Len(original) /\ Len(original) \in 1 .. Len(original) /\ 1 + 1 = 2
        BY <3>1
      <3>3. SubSeq(original, 1, Len(original)) = <<original[1]>> \o SubSeq(original, 1 + 1, Len(original))
        BY <1>2, <3>2, SubSeqRecursiveFirst
      <3>4. SubSeq(original, 1, Len(original)) = original
        BY <1>2, SubSeqFull
      <3>5. Tail(original) = SubSeq(original, 2, Len(original))
        BY <1>2, <2>2, TailIsSubSeq
      <3>6. Head(original) = original[1]
        BY <1>2, <2>2
      <3>7. QED BY <1>3, <2>2, <3>2, <3>3, <3>4, <3>5, <3>6 DEF Unread
    <2>3. QED BY <2>1, <2>2
  <1>8. Arrived(how, fields) = <<>>
    BY <1>3, NoneArrived
  <1>9. Run(hand, run, <<>>) = <<>>
    BY <1>3, <1>4, NoRun
  <1>10. <<>> \o original = original
    BY <1>2, ConcatEmptySeq, Zenon
  <1>11. Reads(how, remain, <<>>)
    BY <1>3, NothingReads
  <1>12. Accounted(<<>>)
    BY <1>4, <1>7, <1>8, <1>9, <1>10, <1>11 DEF Accounted
  <1>13. QED BY <1>2, <1>3, <1>4, <1>5, <1>6, <1>12 DEF CodeInv

LEMMA getpktKeeps == ASSUME CodeInv, getpkt PROVE CodeInv'
  <1>1. PICK w : Accounted(w)
    BY DEF CodeInv
  <1>2. PICK r : r = Filled(remain, run, hand, text)
    OBVIOUS
  <1>3. /\ more /\ fields' = Append(fields, r.field) /\ remain' = r.remain /\ run' = r.run
        /\ hand' = r.hand /\ text' = r.text /\ more' = r.more /\ how' = how /\ original' = original
    BY <1>2 DEF getpkt
  <1>4. PICK a \in Bytes : a = hand
    BY <1>3 DEF CodeInv
  <1>5. PICK n \in 0 .. RPTMAX - 1 : n = run
    BY DEF CodeInv
  <1>6. w \in Seq(Bytes) /\ n \in Nat /\ n + 1 \in Nat /\ <<a>> \in Seq(Bytes) /\ text \in Seq(Bytes)
    BY <1>1, <1>5, CodingAssumption DEF Accounted, Reads, CodeInv
  <1>7. \E u, v : Filling(r, Run(a, n + 1, w), text, u, v)
    <2>1. how \in Hows /\ Reads(how, remain, w) /\ (n > 0 => how.rpt)
      BY <1>1, <1>5 DEF CodeInv, Accounted
    <2>2. \E u, v : Filling(Filled(remain, n, a, text), Run(a, n + 1, w), text, u, v)
      BY <1>6, <2>1, FilledReads
    <2>3. QED BY <1>2, <1>4, <1>5, <2>2
  <1>8. PICK u, v : Filling(r, Run(a, n + 1, w), text, u, v)
    BY <1>7
  <1>9. PICK A : A \in Seq(Bytes) /\ A = Arrived(how, fields)
    BY <1>1 DEF Accounted
  <1>10. PICK R : R \in Seq(Bytes) /\ R = Run(a, n, w)
    BY <1>6, RunGrows
  <1>11. Run(a, n + 1, w) = R \o <<a>>
    BY <1>6, <1>10, RunGrows
  <1>12. (R \o <<a>>) \o text = R \o (<<a>> \o text)
    BY <1>6, <1>10, BytesJoin, Zenon
  <1>13. A \o (R \o (<<a>> \o text)) = original
    BY <1>1, <1>3, <1>4, <1>5, <1>9, <1>10 DEF Accounted, Unread
  <1>14. u \in Seq(Bytes) /\ v \in Seq(Bytes) /\ r.field \in Seq(Wire)
    BY <1>8 DEF Filling, Reads
  <1>15. PICK c : c \in Seq(Bytes) /\ c = Copies(r.hand, r.run)
    <2>1. CASE r.run > 0
      <3>1. r.hand \in Bytes /\ r.run \in Nat
        BY <1>8, <2>1, CodingAssumption DEF Filling
      <3>2. QED BY <3>1, CopiesSeq
    <2>2. CASE ~ (r.run > 0)
      <3>1. r.run = 0
        BY <1>8, <2>2, CodingAssumption DEF Filling
      <3>2. QED BY <3>1, NoCopies, EmptySeq
    <2>3. QED BY <2>1, <2>2
  <1>16. PICK l : l \in Seq(Bytes) /\ l = Left(r)
    <2>1. CASE r.more
      <3>1. r.text \in Seq(Bytes) /\ <<r.hand>> \in Seq(Bytes)
        BY <1>8, <2>1 DEF Filling
      <3>2. <<r.hand>> \o r.text \in Seq(Bytes)
        BY <3>1, ConcatProperties, Zenon
      <3>3. QED BY <2>1, <3>2 DEF Left
    <2>2. CASE ~r.more
      BY <2>2, EmptySeq DEF Left
    <2>3. QED BY <2>1, <2>2
  <1>17. ((u \o v) \o c) \o l = R \o (<<a>> \o text)
    BY <1>8, <1>11, <1>12, <1>15, <1>16 DEF Filling, Run
  <1>18. ((u \o v) \o c) \o l = u \o ((v \o c) \o l)
    <2>1. (u \o v) \o c = u \o (v \o c)
      BY <1>14, <1>15, BytesJoin, Zenon
    <2>2. v \o c \in Seq(Bytes)
      BY <1>14, <1>15, ConcatProperties, Zenon
    <2>3. (u \o (v \o c)) \o l = u \o ((v \o c) \o l)
      BY <1>14, <1>16, <2>2, BytesJoin, Zenon
    <2>4. QED BY <2>1, <2>3
  <1>19. PICK z : z \in Seq(Bytes) /\ z = (v \o c) \o l
    <2>1. v \o c \in Seq(Bytes)
      BY <1>14, <1>15, ConcatProperties, Zenon
    <2>2. (v \o c) \o l \in Seq(Bytes)
      BY <1>16, <2>1, ConcatProperties, Zenon
    <2>3. QED BY <2>2
  <1>20. (A \o u) \o z = A \o (u \o z)
    BY <1>9, <1>14, <1>19, BytesJoin, Zenon
  <1>21. Arrived(how, fields') = A \o u
    <2>1. fields \in Seq(Seq(Wire))
      BY DEF CodeInv
    <2>2. Arrived(how, Append(fields, r.field)) = Arrived(how, fields) \o decode_fields(how, r.field)
      BY <1>14, <2>1, ArrivedGrows
    <2>3. decode_fields(how, r.field) = u
      BY <1>8, ReadsIs DEF Filling
    <2>4. QED BY <1>3, <1>9, <2>2, <2>3
  <1>22. A \o u \in Seq(Bytes)
    BY <1>9, <1>14, ConcatProperties, Zenon
  <1>23. (A \o u) \o z = original
    BY <1>13, <1>17, <1>18, <1>19, <1>20
  <1>24. Run(hand', run', v) = v \o c /\ Unread' = l
    BY <1>3, <1>15, <1>16 DEF Run, Unread, Left
  <1>25. Reads(how', remain', v)
    BY <1>3, <1>8 DEF Filling
  <1>26. /\ Arrived(how', fields') \in Seq(Bytes)
         /\ Arrived(how', fields') \o (Run(hand', run', v) \o Unread') = original'
    BY <1>3, <1>19, <1>21, <1>22, <1>23, <1>24
  <1>27. \E q : Accounted(q)'
    BY <1>25, <1>26 DEF Accounted
  <1>28. fields' \in Seq(Seq(Wire))
    BY <1>3, <1>14 DEF CodeInv
  <1>29. /\ how' \in Hows /\ text' \in Seq(Bytes) /\ more' \in BOOLEAN /\ (more' => hand' \in Bytes)
         /\ run' \in 0 .. RPTMAX - 1 /\ (run' > 0 => how'.rpt /\ more') /\ original' \in Seq(Bytes)
    BY <1>3, <1>8 DEF CodeInv, Filling
  <1>30. QED BY <1>27, <1>28, <1>29 DEF CodeInv

LEMMA LeftoverKeeps == ASSUME CodeInv, Leftover PROVE CodeInv'
  <1>1. PICK w : Accounted(w)
    BY DEF CodeInv
  <1>2. /\ ~more /\ fields' = Append(fields, remain) /\ remain' = <<>>
        /\ text' = text /\ hand' = hand /\ more' = more /\ run' = run /\ how' = how
        /\ original' = original
    BY DEF Leftover
  <1>3. run = 0
    <2>1. run \in 0 .. RPTMAX - 1 /\ ~ (run > 0)
      BY <1>2 DEF CodeInv
    <2>2. QED BY <2>1, CodingAssumption
  <1>4. w \in Seq(Bytes) /\ remain \in Seq(Wire) /\ <<>> \in Seq(Bytes)
    BY <1>1, EmptySeq DEF Accounted, Reads
  <1>5. PICK A \in Seq(Bytes) : A = Arrived(how, fields)
    BY <1>1 DEF Accounted
  <1>6. Run(hand, run, w) = w /\ Unread = <<>> /\ Run(hand, run, <<>>) = <<>>
    BY <1>2, <1>3, <1>4, NoRun DEF Unread
  <1>7. w \o <<>> = w /\ <<>> \o <<>> = <<>>
    BY <1>4, ConcatEmptySeq, Zenon
  <1>8. A \o w = original
    BY <1>1, <1>5, <1>6, <1>7 DEF Accounted
  <1>9. Arrived(how, fields') = A \o w
    <2>1. fields \in Seq(Seq(Wire))
      BY DEF CodeInv
    <2>2. Arrived(how, Append(fields, remain)) = Arrived(how, fields) \o decode_fields(how, remain)
      BY <1>4, <2>1, ArrivedGrows
    <2>3. decode_fields(how, remain) = w
      BY <1>1, ReadsIs DEF Accounted
    <2>4. QED BY <1>2, <1>5, <2>2, <2>3
  <1>10. original \in Seq(Bytes)
    BY DEF CodeInv
  <1>11. original \o <<>> = original
    BY <1>10, ConcatEmptySeq, Zenon
  <1>12. Run(hand', run', <<>>) = <<>> /\ Unread' = <<>>
    BY <1>2, <1>6 DEF Unread
  <1>13. Reads(how', remain', <<>>)
    BY <1>2, NothingReads
  <1>14. /\ Arrived(how', fields') \in Seq(Bytes)
         /\ Arrived(how', fields') \o (Run(hand', run', <<>>) \o Unread') = original'
    BY <1>2, <1>7, <1>8, <1>9, <1>10, <1>11, <1>12
  <1>15. \E q : Accounted(q)'
    BY <1>13, <1>14 DEF Accounted
  <1>16. fields' \in Seq(Seq(Wire))
    BY <1>2, <1>4 DEF CodeInv
  <1>17. QED BY <1>2, <1>15, <1>16 DEF CodeInv

LEMMA CodingStutters == ASSUME CodeInv, UNCHANGED codevars PROVE CodeInv'
  <1>1. /\ text' = text /\ hand' = hand /\ more' = more /\ run' = run /\ remain' = remain
        /\ how' = how /\ fields' = fields /\ original' = original
    BY DEF codevars
  <1>2. PICK w : Accounted(w)
    BY DEF CodeInv
  <1>3. Accounted(w)'
    BY <1>1, <1>2 DEF Accounted, Unread
  <1>4. QED BY <1>1, <1>3 DEF CodeInv

LEMMA CodeInvReads == CodeInv => RoundTrip
  <1>1. SUFFICES ASSUME CodeInv, ~more, remain = <<>> PROVE Arrived(how, fields) = original
    BY DEF RoundTrip, AllSent
  <1>2. PICK w : Accounted(w)
    BY <1>1 DEF CodeInv
  <1>3. run = 0
    <2>1. run \in 0 .. RPTMAX - 1 /\ ~ (run > 0)
      BY <1>1 DEF CodeInv
    <2>2. QED BY <2>1, CodingAssumption
  <1>4. Reads(how, <<>>, w) /\ Reads(how, <<>>, <<>>)
    BY <1>1, <1>2, NothingReads DEF Accounted
  <1>5. decode_fields(how, <<>>) = w /\ decode_fields(how, <<>>) = <<>>
    BY <1>4, ReadsIs
  <1>6. w = <<>>
    BY <1>5
  <1>7. PICK A \in Seq(Bytes) : A = Arrived(how, fields)
    BY <1>2 DEF Accounted
  <1>8. <<>> \in Seq(Bytes)
    BY EmptySeq
  <1>9. Run(hand, run, w) = <<>> /\ Unread = <<>>
    BY <1>1, <1>3, <1>6, <1>8, NoRun DEF Unread
  <1>10. <<>> \o <<>> = <<>> /\ A \o <<>> = A
    BY <1>8, ConcatEmptySeq, Zenon
  <1>11. QED BY <1>2, <1>7, <1>9, <1>10 DEF Accounted

(* Whatever the file, its bytes come back from the fields it is cut into,   *)
(* each decoded on its own: encode(), getpkt() and decode().                *)
THEOREM TextsComeBack == CodeSpec => []RoundTrip
  <1>1. CodeInit => CodeInv
    BY CodingStarts
  <1>2. CodeInv /\ [CodeNext]_codevars => CodeInv'
    BY getpktKeeps, LeftoverKeeps, CodingStutters DEF CodeNext
  <1>3. CodeInv => RoundTrip
    BY CodeInvReads
  <1>4. QED BY <1>1, <1>2, <1>3, PTL DEF CodeSpec
=============================================================================
