------------------------------ MODULE Z80Flags ------------------------------
(***************************************************************************)
(* The flags of the Z80 executor (src/shim/z80exec.c).  An instruction     *)
(* leaves a record of its class, operands and result, and the flags are    *)
(* made from it when something reads them.  Of the guest the model keeps   *)
(* A, the flag byte and the record; other registers, memory, the two bytes *)
(* of a pair and the counter of a block instruction are operands.  A       *)
(* record that has been made into flags is dropped.                        *)
(***************************************************************************)
EXTENDS Integers, Words
CONSTANTS OPERANDS, WORDS,   \* the bytes and pairs that instructions meet
          PSWS,              \* the flag bytes that POP PSW meets
          LOOPS,             \* what a delay loop's first DCR may leave
          DIGITS             \* a decimal digit is below this (10)
ASSUME OperandsAssumption == OPERANDS \subseteq Byte /\ WORDS \subseteq Word
ASSUME DigitsAssumption == BITS = 2 * HALF /\ DIGITS \in 1 .. 2^HALF - 1
ASSUME LoopsAssumption == LOOPS \subseteq Byte \ {0}

VARIABLES m,                 \* struct z80: a, f and the record lz la lb lr lc
          eager              \* history: the flags of an executor that makes
                             \* them after every instruction, by arithmetic
z80vars == <<m, eager>>

F_LAZY == {"CY", "PA", "AC", "ZE", "SI"}
SIGN == BITS - 1
Wrap(v) == v % 2^BITS
NoRecord == [lz |-> "NONE", la |-> 0, lb |-> 0, lr |-> 0, lc |-> 0]
Guest(a, f, rec) == [a |-> a, f |-> f, rec |-> rec]
-----------------------------------------------------------------------------
(* z80flags(), lazy() and z80lcond().                                       *)
ByResult(r) == When(r = 0, "ZE") \cup When(Bit(r, SIGN), "SI") \cup When(Even(r), "PA")
Crossed(rec) == Bit(rec.la, HALF) # (Bit(rec.lb, HALF) # Bit(rec.lr, HALF))
CarryOf(rec) ==
  CASE rec.lz = "ADD" -> IF rec.lc = 1 THEN rec.lr <= rec.la ELSE rec.lr < rec.la
    [] rec.lz = "SUB" -> IF rec.lc = 1 THEN rec.la <= rec.lb ELSE rec.la < rec.lb
    [] rec.lz = "ROT" -> rec.lc = 1
    [] OTHER -> FALSE

z80flags(f, rec) ==
  CASE rec.lz = "NONE" -> f
    [] rec.lz = "ADD" ->
         ByResult(rec.lr) \cup When(CarryOf(rec), "CY") \cup When(Crossed(rec), "AC")
    [] rec.lz = "SUB" ->
         ByResult(rec.lr) \cup When(CarryOf(rec), "CY") \cup When(~ Crossed(rec), "AC")
    [] rec.lz = "AND" ->
         ByResult(rec.lr) \cup When(Bit(Or(rec.la, rec.lb), HALF - 1), "AC")
    [] rec.lz = "LOG" -> ByResult(rec.lr)
    [] rec.lz = "INR" ->
         ByResult(rec.lr) \cup (f \cap {"CY"}) \cup When(Crossed(rec), "AC")
    [] rec.lz = "DCR" ->
         ByResult(rec.lr) \cup (f \cap {"CY"}) \cup When(~ Crossed(rec), "AC")
    [] rec.lz = "ROT" -> ByResult(rec.lr) \cup When(CarryOf(rec), "CY")
    [] rec.lz = "BIT" -> ByResult(rec.lr) \cup (f \cap {"CY"}) \cup {"AC"}
    [] rec.lz = "LDBLK" -> (f \cap {"SI", "ZE", "CY"}) \cup When(rec.lc = 1, "PA")
    [] rec.lz = "CPBLK" ->
         (ByResult(rec.lr) \ {"PA"}) \cup When(rec.lc = 1, "PA") \cup (f \cap {"CY"})
           \cup When(~ Crossed(rec), "AC")

Folded(g) == Guest(g.a, z80flags(g.f, g.rec), NoRecord)
Flags(g) == z80flags(g.f, g.rec)

(* A class that keeps some of the flags finds them in f; a mistaken one     *)
(* keeps what an earlier fold has left there.                               *)
lazyUnfolded(g, cls, a, b, r, c) ==
  [g EXCEPT !.rec = [lz |-> cls, la |-> a, lb |-> b, lr |-> r, lc |-> c]]
lazy(g, cls, a, b, r, c) ==
  LET fold == IF cls \in {"INR", "DCR"} THEN g.rec.lz \notin {"INR", "DCR"}
              ELSE cls \in {"BIT", "LDBLK", "CPBLK"} /\ g.rec.lz # cls
  IN [IF fold THEN Folded(g) ELSE g EXCEPT
        !.rec = [lz |-> cls, la |-> a, lb |-> b, lr |-> r, lc |-> c]]

Conditions == {"NZ", "Z", "NC", "C", "PO", "PE", "P", "M"}
z80cond(f, cc) ==
  CASE cc = "Z" -> "ZE" \in f  [] cc = "NZ" -> "ZE" \notin f
    [] cc = "C" -> "CY" \in f  [] cc = "NC" -> "CY" \notin f
    [] cc = "PE" -> "PA" \in f [] cc = "PO" -> "PA" \notin f
    [] cc = "M" -> "SI" \in f  [] cc = "P" -> "SI" \notin f
z80lcond(g, cc) ==
  LET r == g.rec
      parity == IF r.lz = "CPBLK" THEN r.lc = 1 ELSE Even(r.lr)
      carry == IF r.lz \in {"ADD", "SUB", "AND", "LOG", "ROT"} THEN CarryOf(r) ELSE "CY" \in g.f
      shown == When(r.lr = 0, "ZE") \cup When(carry, "CY") \cup When(parity, "PA")
                 \cup When(Bit(r.lr, SIGN), "SI")
  IN IF r.lz \in {"NONE", "LDBLK"} THEN z80cond(Flags(g), cc) ELSE z80cond(shown, cc)
-----------------------------------------------------------------------------
(* What the instructions do to the flags, by arithmetic.                    *)
Arithmetic(carry, half, r) == When(carry, "CY") \cup When(half, "AC") \cup ByResult(r)
OfSum(a, b, c) ==
  Arithmetic(a + b + c >= 2^BITS, Digit(a) + Digit(b) + c >= 2^HALF, Wrap(a + b + c))
OfDifference(a, b, c) == Arithmetic(a < b + c, Digit(a) >= Digit(b) + c, Wrap(a - b - c))
Keeping(kept, new) == (eager \cap kept) \cup (new \ kept)
-----------------------------------------------------------------------------
(* The instructions, z80exec().                                             *)
Carry(f) == IF "CY" \in f THEN 1 ELSE 0
Z80Init == /\ m \in {Guest(0, f, NoRecord) : f \in PSWS}
           /\ eager = m.f

(* alu(), and the caller's store into A.                                    *)
Sum(c, a, b) ==
  /\ m' = lazy([c.on EXCEPT !.a = Wrap(a + b + c.in)], "ADD", a, b, Wrap(a + b + c.in), c.in)
  /\ eager' = OfSum(a, b, c.in)
Difference(c, a, b, kept) ==
  LET r == Wrap(a - b - c.in)
  IN /\ m' = lazy([c.on EXCEPT !.a = IF kept THEN a ELSE r], "SUB", a, b, r, c.in)
     /\ eager' = OfDifference(a, b, c.in)
Plain == [on |-> m, in |-> 0]
WithCarry == [on |-> Folded(m), in |-> Carry(Flags(m))]
Logic(cls, a, b, r, half) ==
  m' = lazy([m EXCEPT !.a = r], cls, a, b, r, 0) /\ eager' = Arithmetic(FALSE, half, r)

Alu(b) == \/ Sum(Plain, m.a, b)                        \* ADD, ADC
          \/ Sum(WithCarry, m.a, b)
          \/ Difference(Plain, m.a, b, FALSE)          \* SUB, SBB, CMP
          \/ Difference(WithCarry, m.a, b, FALSE)
          \/ Difference(Plain, m.a, b, TRUE)
          \/ Logic("AND", m.a, b, And(m.a, b), Bit(Or(m.a, b), HALF - 1))
          \/ Logic("LOG", m.a, b, Xor(m.a, b), FALSE)
          \/ Logic("LOG", m.a, b, Or(m.a, b), FALSE)
Neg == /\ m' = lazy([m EXCEPT !.a = Wrap(-m.a)], "SUB", 0, m.a, Wrap(-m.a), 0)
       /\ eager' = OfDifference(0, m.a, 0)

(* A register that is A (`to' says so) or another one.                      *)
Store(g, to, r) == IF to = "A" THEN [g EXCEPT !.a = r] ELSE g
Inr(to, v) == /\ m' = Store(lazy(m, "INR", v, 1, Wrap(v + 1), 0), to, Wrap(v + 1))
              /\ eager' = Keeping({"CY"}, OfSum(v, 1, 0))
dcr(g, to, v) == Store(lazy(g, "DCR", v, 1, Wrap(v - 1), 0), to, Wrap(v - 1))
Dcr(to, v) == /\ m' = dcr(m, to, v)
              /\ eager' = Keeping({"CY"}, OfDifference(v, 1, 0))

(* The decimal adjust, on the flags it finds.                               *)
Sixes == 2^HALF - DIGITS
daa(a, f) ==
  LET low   == IF Digit(a) >= DIGITS \/ "AC" \in f THEN Sixes ELSE 0
      carry == a > (DIGITS - 1) * (2^HALF + 1) \/ "CY" \in f
      r     == Wrap(a + low + IF carry THEN Sixes * 2^HALF ELSE 0)
  IN [a |-> r, f |-> Arithmetic(carry, Digit(a) + low >= 2^HALF, r)]
Daa == LET d == daa(m.a, Flags(m))
       IN m' = Guest(d.a, d.f, NoRecord) /\ eager' = daa(m.a, eager).f

(* The bit that leaves a byte, and the byte it leaves.                      *)
Left(v, in)  == [cy |-> Bit(v, SIGN), r |-> Wrap(2 * v) + in]
Right(v, in) == [cy |-> Bit(v, 0), r |-> v \div 2 + in * 2^SIGN]
Low(v) == v % 2
Top(v) == v \div 2^SIGN
Rotated(how, v, c) ==
  CASE how = "RLC" -> Left(v, Top(v)) [] how = "RRC" -> Right(v, Low(v))
    [] how = "RL"  -> Left(v, c)      [] how = "RR"  -> Right(v, c)
    [] how = "SLA" -> Left(v, 0)      [] how = "SRA" -> Right(v, Top(v))
    [] how = "SLL" -> Left(v, 1)      [] how = "SRL" -> Right(v, 0)

CarryEdited(f, cy) == (f \ {"CY"}) \cup When(cy, "CY")
Rot(how) ==
  LET s == Rotated(how, m.a, Carry(Flags(m)))
  IN /\ m' = Guest(s.r, CarryEdited(Flags(m), s.cy), NoRecord)
     /\ eager' = CarryEdited(eager, Rotated(how, m.a, Carry(eager)).cy)
CbRotate(how, to, v) ==
  LET on == IF how \in {"RL", "RR"} THEN Folded(m) ELSE m
      s  == Rotated(how, v, Carry(on.f))
      e  == Rotated(how, v, Carry(eager))
  IN /\ m' = lazy(Store(on, to, s.r), "ROT", v, 0, s.r, IF s.cy THEN 1 ELSE 0)
     /\ eager' = Arithmetic(e.cy, FALSE, e.r)
CbBit(b, v) ==
  LET masked == And(v, 2^b)
  IN /\ m' = lazy(m, "BIT", v, b, masked, 0)
     /\ eager' = Keeping({"CY"}, {"AC"} \cup When(~ Bit(v, b), "ZE")
                           \cup When(~ Bit(v, b), "PA") \cup When(b = SIGN /\ Bit(v, b), "SI"))

(* One round of a block instruction; `more' is BC # 0 after it.             *)
BlockMove(more) ==
  /\ m' = lazy(m, "LDBLK", 0, 0, 0, IF more THEN 1 ELSE 0)
  /\ eager' = Keeping({"SI", "ZE", "CY"}, When(more, "PA"))
BlockCompare(v, more) ==
  /\ m' = lazy(m, "CPBLK", m.a, v, Wrap(m.a - v), IF more THEN 1 ELSE 0)
  /\ eager' = Keeping({"CY"}, (OfDifference(m.a, v, 0) \ {"PA"}) \cup When(more, "PA"))

(* The sixteen-bit group makes its flags at once: DAD, STC and CMC edit the *)
(* carry, ADC HL and SBC HL set them all, P as overflow.                    *)
SetCarry(cy) == /\ m' = Guest(m.a, CarryEdited(Flags(m), cy), NoRecord)
                /\ eager' = CarryEdited(eager, cy)
Cmc == /\ m' = Guest(m.a, CarryEdited(Flags(m), "CY" \notin Flags(m)), NoRecord)
       /\ eager' = CarryEdited(eager, "CY" \notin eager)

PAIR == 2 * BITS
PairBit(v, w, r, i) == Bit(v, i) # (Bit(w, i) # Bit(r, i))
OfPair(carry, overflow, half, r) ==
  When(carry, "CY") \cup When(overflow, "PA") \cup When(half, "AC")
    \cup When(r = 0, "ZE") \cup When(Bit(r, PAIR - 1), "SI")
AdcHl(hl, ss) ==
  LET w == hl + ss + Carry(Flags(m))
      r == w % 2^PAIR
      s == PAIR - 1
      digit(v) == v % 2^(BITS + HALF)
      c == Carry(eager)
      total == Signed(hl, PAIR) + Signed(ss, PAIR) + c
  IN /\ m' = Guest(m.a, OfPair(w >= 2^PAIR, Bit(hl, s) # Bit(r, s) /\ Bit(ss, s) # Bit(r, s),
                               PairBit(hl, ss, r, BITS + HALF), r), NoRecord)
     /\ eager' = OfPair(hl + ss + c >= 2^PAIR, total \notin -(2^s) .. 2^s - 1,
                        digit(hl) + digit(ss) + c >= 2^(BITS + HALF), total % 2^PAIR)
SbcHl(hl, ss) ==
  LET w == hl - ss - Carry(Flags(m))
      r == w % 2^PAIR
      s == PAIR - 1
      digit(v) == v % 2^(BITS + HALF)
      c == Carry(eager)
      total == Signed(hl, PAIR) - Signed(ss, PAIR) - c
  IN /\ m' = Guest(m.a, OfPair(w < 0, Bit(hl, s) # Bit(ss, s) /\ Bit(hl, s) # Bit(r, s),
                               ~ PairBit(hl, ss, r, BITS + HALF), r), NoRecord)
     /\ eager' = OfPair(hl < ss + c, total \notin -(2^s) .. 2^s - 1,
                        digit(hl) >= digit(ss) + c, total % 2^PAIR)

(* Loads and moves leave the flags; PUSH PSW and EX AF,AF' make them, POP   *)
(* PSW and EX AF,AF' bring others; a condition reads them, and makes them   *)
(* after a block move only.                                                 *)
Load(v) == m' = [m EXCEPT !.a = v] /\ UNCHANGED eager
Psw == m' = Folded(m) /\ UNCHANGED eager
PopPsw(a, f) == m' = Guest(a, f, NoRecord) /\ eager' = f
Condition == m.rec.lz = "LDBLK" /\ m' = Folded(m) /\ UNCHANGED eager
-----------------------------------------------------------------------------
(* z80delay(): a DCR that a jump back to it follows, with r left in the      *)
(* register, is run to its end at once.  What it leaves: the guest, the      *)
(* instructions it stands for, and the T-states owed for the whole loop.     *)
T_DEC == 4
TJump == [JP |-> [taken |-> 10, last |-> 10], JR |-> [taken |-> 12, last |-> 7]]
(* A mistaken count leaves the jump out that falls through.                 *)
z80delayShort(g, to, r, jump) ==
  [g |-> lazy(Store(g, to, 0), "DCR", 1, 1, 0, 0),
   insns |-> 2 * r,
   owed |-> (r + 1) * T_DEC + r * TJump[jump].taken]
z80delay(g, to, r, jump) ==
  [g |-> lazy(Store(g, to, 0), "DCR", 1, 1, 0, 0),
   insns |-> 2 * r + 1,
   owed |-> (r + 1) * T_DEC + r * TJump[jump].taken + TJump[jump].last]

(* The same loop stepped, from the jump after the first DCR on.              *)
Stepped(g, to, r, jump) ==
  LET round[k \in 0 .. r] ==
        IF k = 0 THEN [g |-> g, insns |-> 0, owed |-> T_DEC]
        ELSE LET s == round[k - 1]
             IN IF ~ z80lcond(s.g, "NZ") THEN s
                ELSE [g |-> dcr(s.g, to, r - k + 1), insns |-> s.insns + 2,
                      owed |-> s.owed + TJump[jump].taken + T_DEC]
      end == round[r]
  IN [g |-> end.g, insns |-> end.insns + 1, owed |-> end.owed + TJump[jump].last]

Delay(to, r) == /\ m' = z80delay(dcr(m, to, r + 1), to, r, "JP").g
                /\ eager' = Keeping({"CY"}, OfDifference(1, 1, 0))
-----------------------------------------------------------------------------
Rotates == {"RLC", "RRC", "RL", "RR", "SLA", "SRA", "SLL", "SRL"}
OnRegister == \/ \E v \in OPERANDS : Inr("other", v) \/ Dcr("other", v)
              \/ Inr("A", m.a) \/ Dcr("A", m.a)
              \/ \E how \in Rotates : \/ CbRotate(how, "A", m.a)
                                      \/ \E v \in OPERANDS : CbRotate(how, "other", v)
              \/ \E b \in 0 .. SIGN, v \in OPERANDS \cup {m.a} : CbBit(b, v)
Z80Next == \/ \E b \in OPERANDS : Alu(b) \/ Load(b)
           \/ Neg \/ Daa \/ Cmc \/ Psw \/ Condition \/ OnRegister
           \/ \E how \in {"RLC", "RRC", "RL", "RR"} : Rot(how)
           \/ \E cy \in BOOLEAN : SetCarry(cy)
           \/ \E more \in BOOLEAN : \/ BlockMove(more)
                                    \/ \E v \in OPERANDS : BlockCompare(v, more)
           \/ \E hl, ss \in WORDS : AdcHl(hl, ss) \/ SbcHl(hl, ss)
           \/ \E f \in PSWS : PopPsw(m.a, f)
           \/ \E r \in LOOPS : Delay("A", r)
Z80Spec == Z80Init /\ [][Z80Next]_z80vars
-----------------------------------------------------------------------------
(* Whatever the sequence of instructions, the record stands for the flags   *)
(* an executor would have that makes them every time.                       *)
FlagsAreEager == Flags(m) = eager

(* "z80cond(z80flags(m), cc) without materialising": a jump sees the flags  *)
(* the arithmetic says.                                                     *)
JumpsSeeFlags == \A cc \in Conditions : z80lcond(m, cc) = z80cond(eager, cc)

(* ADD or ADC of packed decimals and then DAA is decimal addition, carry in *)
(* and out.                                                                 *)
Decimal(v) == Digit(v) < DIGITS /\ v \div 2^HALF < DIGITS
ValueOf(v) == (v \div 2^HALF) * DIGITS + Digit(v)
DecimalSums ==
  LET rec == m.rec  d == daa(m.a, Flags(m))
      sum == ValueOf(rec.la) + ValueOf(rec.lb) + rec.lc
  IN rec.lz = "ADD" /\ m.a = rec.lr /\ Decimal(rec.la) /\ Decimal(rec.lb) =>
       /\ Decimal(d.a) /\ ValueOf(d.a) = sum % (DIGITS * DIGITS)
       /\ ("CY" \in d.f) = (sum >= DIGITS * DIGITS)

(* "leaving the state and counts its 2r+1 remaining instructions would".    *)
DelayIsStepping ==
  \A to \in {"A", "other"}, r \in LOOPS, jump \in DOMAIN TJump :
    LET first == dcr(m, to, Wrap(r + 1))
    IN z80delay(first, to, r, jump) = Stepped(first, to, r, jump)
=============================================================================
