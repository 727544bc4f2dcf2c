------------------------------- MODULE Kermit -------------------------------
(***************************************************************************)
(* A file sent from one machine to another: kermit.c's protocol engine on  *)
(* both ends, driven by cpmio.c's control program, over a line that loses  *)
(* and spoils packets.  A packet is what spkt() builds, with a block check *)
(* that always tells a spoiled packet; a block of the file is what one     *)
(* data packet carries.                                                    *)
(***************************************************************************)
EXTENDS Naturals, Sequences
CONSTANTS FILES,     \* the files that may be sent, each a sequence of blocks
          CAP_AT,      \* subset of BOOLEAN: whether attribute packets are negotiated
          SEQNOS,      \* sequence numbers (64)
          RETRY,       \* k->retry (10)
          WSLOTS,      \* P_WSLOTS (31)
          OBUF,        \* blocks the output buffer holds (OBUFLEN / data field)
          IDLES,       \* silences that exceed MAXIDLE before the first packet
          ROOMS,       \* blocks the receiver's disk may take; 0 refuses the MAKE
          NOISE        \* bound: packets lost, spoiled or too late in one run
ASSUME KermitAssumption ==
  /\ {SEQNOS, RETRY, WSLOTS, OBUF, IDLES, NOISE} \subseteq Nat
  /\ SEQNOS > 2 /\ WSLOTS > 0 /\ OBUF > 0 /\ ROOMS \subseteq Nat /\ CAP_AT \subseteq BOOLEAN
  /\ \A f \in FILES : f \in Seq({f[i] : i \in DOMAIN f})

VARIABLES snd, rcv,    \* struct k_data of the two ends, and what kermit() returned
          toR, toS,    \* packets on the line
          file,        \* the file being sent
          dest,        \* the receiver's file: on disk, in obuf, room, closed
          noise        \* faults left
kervars == <<snd, rcv, toR, toS, file, dest, noise>>

NoPacket == [type |-> "none", seq |-> 0, data |-> 0]
Packet(type, seq, data) == [type |-> type, seq |-> seq, data |-> data]

(* K_INIT for both, and K_SEND for the one that sends: rpar() sends the S   *)
(* packet.                                                                  *)
K_INIT == [state |-> "R_WAIT", seq |-> 0, rtr |-> 0, slot |-> 0, out |-> NoPacket,
           idle |-> 0, started |-> FALSE, status |-> "X_OK"]
KermitInit ==
  /\ file \in FILES
  /\ rcv = K_INIT
  /\ \E at \in CAP_AT, found \in BOOLEAN :
       snd = [state |-> "S_INIT", seq |-> 0, rtr |-> 0, slot |-> 0, out |-> Packet("S", 0, 0),
              next |-> 1, left |-> TRUE, found |-> found, at |-> at, status |-> "X_OK"]
  /\ toR = <<Packet("S", 0, 0)>> /\ toS = <<>>
  /\ \E room \in ROOMS : dest = [text |-> <<>>, obuf |-> <<>>, room |-> room, closed |-> FALSE]
  /\ noise = NOISE
-----------------------------------------------------------------------------
(* What a call of the engine leaves: the end's data k, the packets it put   *)
(* on the line, and the receiver's file.                                    *)
Result(k, tx, d) == [k |-> k, tx |-> tx, dest |-> d]

After(n) == (n + 1) % SEQNOS
prev(k) == (k.seq + SEQNOS - 1) % SEQNOS
Ended(k, status) == [k EXCEPT !.status = status]

spkt(k, p) == [k EXCEPT !.out = p]
resend(k, d) == Result(k, IF k.out = NoPacket THEN <<>> ELSE <<k.out>>, d)
epkt(k, d) == LET e == Packet("E", 0, 0) IN Result(Ended(spkt(k, e), "X_ERROR"), <<e>>, d)

(* nak() counts; the block check's caller alone throws its verdict away.    *)
Counted(k) == [k EXCEPT !.rtr = k.rtr + 1]
Naked(k, d) == LET n == Packet("N", k.seq, 0) IN Result(Counted(spkt(k, n)), <<n>>, d)
nak(k, d) == LET r == Naked(k, d)
             IN IF k.rtr > RETRY THEN [r EXCEPT !.k = Ended(r.k, "X_ERROR")] ELSE r
ack(k, d) == LET y == Packet("Y", k.seq, 0)
             IN Result([spkt(k, y) EXCEPT !.seq = After(k.seq)], <<y>>, d)

(* len < 4 returns with the slot's length set, so getrslot() never finds it *)
(* free again; with none left readpkt() has no buffer and the program ends. *)
Leaked(k) == [k EXCEPT !.slot = k.slot + 1, !.rtr = 0,
                       !.status = IF k.slot + 1 = WSLOTS THEN "X_ERROR" ELSE k.status]

(* The previous packet again: counted, and answered by whatever was last    *)
(* sent.                                                                    *)
Again(k, d) == IF k.rtr > RETRY THEN epkt(Counted(k), d) ELSE resend(Counted(k), d)
-----------------------------------------------------------------------------
(* The receiver's file.  writefile() fails on a full disk.                  *)
openfile(d) == [d EXCEPT !.text = <<>>, !.obuf = <<>>, !.closed = FALSE]
HasRoom(d) == Len(d.text) + Len(d.obuf) <= d.room
writef(d) == LET all == d.text \o d.obuf
             IN [d EXCEPT !.obuf = <<>>,
                          !.text = IF HasRoom(d) THEN all ELSE SubSeq(all, 1, d.room)]
Deposited(d, b) == [d EXCEPT !.obuf = Append(d.obuf, b)]
decode(k, d, b) ==
  LET full == Deposited(d, b)
  IN IF Len(full.obuf) < OBUF THEN ack(k, full)
     ELSE IF HasRoom(full) THEN ack(k, writef(full)) ELSE epkt(k, writef(full))
(* The flush at the end: closef()'s answer replaces writef()'s.             *)
Flushed_not(d) == [d EXCEPT !.obuf = <<>>, !.closed = TRUE]
Flushed(d) == [writef(d) EXCEPT !.closed = TRUE]

In(k, state) == [k EXCEPT !.state = state]
Stop(r, status) == [r EXCEPT !.k = Ended(r.k, status)]
R_expected(k, d, p) ==
  CASE k.state = "R_WAIT" /\ p.type = "S" -> ack(In(k, "R_FILE"), d)
    [] k.state = "R_FILE" /\ p.type = "F" -> ack(In(k, "R_ATTR"), d)
    [] k.state = "R_FILE" /\ p.type = "B" -> Stop(ack(k, d), "X_DONE")
    [] k.state = "R_ATTR" /\ p.type = "A" -> ack(k, d)
    [] k.state = "R_ATTR" /\ p.type \in {"D", "Z"} /\ d.room = 0 -> epkt(k, d)
    [] k.state = "R_ATTR" /\ p.type = "D" /\ d.room > 0 -> decode(In(k, "R_DATA"), openfile(d), p.data)
    [] k.state = "R_ATTR" /\ p.type = "Z" /\ d.room > 0 ->   \* falls to the last return
         Stop(ack(In(k, "R_FILE"), Flushed(openfile(d))), "X_ERROR")
    [] k.state = "R_DATA" /\ p.type = "D" -> decode(k, d, p.data)
    [] k.state = "R_DATA" /\ p.type = "Z" -> ack(In(k, "R_FILE"), Flushed(d))
    [] OTHER -> epkt(k, d)

Expected_late(k, p) == p.seq \in {k.seq, prev(k)}
Expected(k, p) == p.seq = k.seq
(* The packet it wants, the one before it again, or another.                *)
R_numbered_uncounted(k, d, p) ==
  IF Expected(k, p) THEN R_expected([k EXCEPT !.rtr = 0], d, p)
  ELSE IF p.seq = prev(k) THEN resend(k, d) ELSE nak(k, d)
R_numbered(k, d, p) ==
  IF Expected(k, p) THEN R_expected([k EXCEPT !.rtr = 0], d, p)
  ELSE IF p.seq = prev(k) THEN Again(k, d) ELSE nak(k, d)
R_packet(k, d, p) ==
  CASE p.type = "runt" -> [nak(k, d) EXCEPT !.k = Leaked(@)]
    [] p.type = "bad" -> Naked(k, d)
    [] p.type \in {"N", "Y"} -> Result(k, <<>>, d)
    [] p.type = "E" -> Result(Ended(k, "X_ERROR"), <<>>, d)
    [] OTHER -> R_numbered(k, d, p)
(* A silence is kept from an engine that has seen no packet.                *)
R_silence(k, d) ==
  IF k.started THEN nak(k, d)
  ELSE Result([k EXCEPT !.idle = k.idle + 1,
                        !.status = IF k.idle = IDLES THEN "X_ERROR" ELSE k.status], <<>>, d)
-----------------------------------------------------------------------------
(* The sender.  nxtpkt() counts, spkt() sends.  fileinfo() reads the file   *)
(* to its end through the control block readfile() goes on with.            *)
Sent(k, type, data) ==
  LET p == Packet(type, After(k.seq), data) IN Result([spkt(k, p) EXCEPT !.seq = p.seq], <<p>>, dest)
sdata(k) == IF k.next > Len(file) THEN Sent(In(k, "S_EOF"), "Z", 0)
            ELSE Sent([In(k, "S_DATA") EXCEPT !.next = k.next + 1], "D", file[k.next])
fileinfo(k) == [k EXCEPT !.next = Len(file) + 1]
S_expected(k) ==
  CASE k.state \in {"S_INIT", "S_EOF"} /\ k.left ->
         IF k.found THEN Sent([In(k, "S_FILE") EXCEPT !.left = FALSE], "F", 0)
                    ELSE Result(Ended(k, "X_ERROR"), <<>>, dest)
    [] k.state \in {"S_INIT", "S_EOF"} /\ ~k.left -> Sent(In(k, "S_EOT"), "B", 0)
    [] k.state = "S_FILE" /\ k.at -> Sent(In(fileinfo(k), "S_ATTR"), "A", 0)
    [] k.state = "S_FILE" /\ ~k.at -> sdata(k)
    [] k.state \in {"S_ATTR", "S_DATA"} -> sdata(k)
    [] k.state = "S_EOT" -> Result(Ended(k, "X_DONE"), <<>>, dest)
S_numbered(k, p) ==
  IF Expected(k, p)
  THEN IF p.type = "Y" THEN S_expected([k EXCEPT !.rtr = 0]) ELSE resend([k EXCEPT !.rtr = 0], dest)
  ELSE IF p.seq = prev(k) THEN Again(k, dest) ELSE resend(k, dest)
S_packet(k, p) ==
  CASE p.type = "runt" -> [resend(k, dest) EXCEPT !.k = Leaked(@)]
    [] p.type = "bad" -> resend(k, dest)
    [] p.type = "E" -> Result(Ended(k, "X_ERROR"), <<>>, dest)
    [] OTHER -> S_numbered(k, p)
-----------------------------------------------------------------------------
(* main()'s loop: one packet, or one silence, per turn of the engine.       *)
Engaged(k) == k.status = "X_OK"
R_turn(r) == /\ rcv' = r.k /\ toS' = toS \o r.tx /\ dest' = r.dest
             /\ UNCHANGED <<snd, file>>
S_turn(r) == /\ snd' = r.k /\ toR' = toR \o r.tx /\ UNCHANGED <<rcv, file, dest>>

Receive == /\ Engaged(rcv) /\ toR # <<>> /\ toR' = Tail(toR)
           /\ R_turn(R_packet([rcv EXCEPT !.started = TRUE, !.idle = 0], dest, Head(toR)))
           /\ UNCHANGED noise
Acked == /\ Engaged(snd) /\ toS # <<>> /\ toS' = Tail(toS)
         /\ S_turn(S_packet(snd, Head(toS)))
         /\ UNCHANGED noise

(* readpkt() waits far longer than a packet and its answer take: it returns *)
(* 0 when the line is quiet, and earlier only by a fault.                   *)
Quiet == toR = <<>> /\ toS = <<>>
Patience == noise' = IF Quiet THEN noise ELSE noise - 1
MayGiveUp == Quiet \/ noise > 0
R_timeout == /\ Engaged(rcv) /\ toR = <<>> /\ MayGiveUp /\ Patience
             /\ R_turn(R_silence(rcv, dest)) /\ UNCHANGED toR
S_timeout == /\ Engaged(snd) /\ toS = <<>> /\ MayGiveUp /\ Patience
             /\ S_turn(resend(snd, dest)) /\ UNCHANGED toS

(* The line.  A spoiled packet fails its block check or is cut short.       *)
Spoiled == {Packet("bad", 0, 0), Packet("runt", 0, 0)}
Fault(line) == {Tail(line)} \cup {<<p>> \o Tail(line) : p \in Spoiled}
LineToR == /\ noise > 0 /\ toR # <<>> /\ toR' \in Fault(toR) /\ noise' = noise - 1
           /\ UNCHANGED <<snd, rcv, toS, file, dest>>
LineToS == /\ noise > 0 /\ toS # <<>> /\ toS' \in Fault(toS) /\ noise' = noise - 1
           /\ UNCHANGED <<snd, rcv, toR, file, dest>>
(* What is sent to a program that has ended goes nowhere.                   *)
Ignored == /\ \/ ~Engaged(rcv) /\ toR # <<>> /\ toR' = <<>> /\ UNCHANGED toS
              \/ ~Engaged(snd) /\ toS # <<>> /\ toS' = <<>> /\ UNCHANGED toR
           /\ UNCHANGED <<snd, rcv, file, dest, noise>>

Receiver == Receive \/ R_timeout
Sender == Acked \/ S_timeout
KermitNext == Receiver \/ Sender \/ LineToR \/ LineToS \/ Ignored
KermitSpec == /\ KermitInit /\ [][KermitNext]_kervars
              /\ WF_kervars(Receiver) /\ WF_kervars(Sender) /\ WF_kervars(Ignored)
-----------------------------------------------------------------------------
(* "Which is what the protocol is for": whatever the line does, the file is *)
(* built of the sender's blocks, each once and in order.                    *)
Whole == dest.text = file \/ Len(file) > dest.room
InOrder == LET got == dest.text \o dest.obuf
           IN Len(got) <= Len(file) /\ got = SubSeq(file, 1, Len(got))

(* A sender that ends well leaves the whole file closed at the other end,   *)
(* unless the last flush met a full disk, which nothing reports.            *)
DoneIsDelivered == snd.status = "X_DONE" => rcv.status = "X_DONE" /\ dest.closed /\ Whole

(* "Every byte that went out came back": a file closed at the far end is    *)
(* whole.                                                                   *)
ArrivesWhole == dest.closed => Whole

(* "An unattended machine still comes back to the prompt": a receiver ends, *)
(* whatever the line and the other end do.                                  *)
ReceiverEnds == Engaged(rcv) ~> ~Engaged(rcv)
=============================================================================
