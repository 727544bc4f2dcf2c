------------------------------ MODULE I86Flags ------------------------------
(***************************************************************************)
(* The flags of the 8086 executor (src/shim/i86exec.c), which are made     *)
(* from a record of the last operation as those of module Z80Flags are,    *)
(* with a width: an operand is a byte or a word, and a byte's record holds *)
(* its result with the bits above the byte.  Of the guest the model keeps  *)
(* the six flags an operation sets and the record; registers and memory    *)
(* are operands.                                                           *)
(***************************************************************************)
EXTENDS Integers, Sequences, Words
CONSTANTS BYTES, WIDES,        \* the bytes and the words that operations meet
          COUNTS,              \* counts of a shift
          PSWS86,              \* the flags that POPF meets, and SAHF
          LOOPS86,             \* what a delay loop's first DEC may leave
          DIGITS86             \* a decimal digit is below this (10)
ASSUME Operands86Assumption == BYTES \subseteq Byte /\ WIDES \subseteq Word
ASSUME Digits86Assumption == BITS = 2 * HALF /\ DIGITS86 \in 1 .. 2^HALF - 1
(* The powers by which a shift multiplies and divides, and PowersAssumption *)
(* one bit further, for a rotation through the carry.                       *)
ASSUME CountsAssumption ==
  /\ COUNTS \subseteq Nat
  /\ \A n \in COUNTS : \A i \in 0 .. n - 1 : 2^(i + 1) = 2 * 2^i
  /\ 2^(2 * BITS + 1) = 2 * 2^(2 * BITS)
ASSUME Loops86Assumption == LOOPS86 \subseteq Word \ {0}

VARIABLES g,                   \* struct i86: fl, and the record lz lw la lb lr lc
          eager86              \* history: the flags an executor without
                               \* records has, by arithmetic
i86vars == <<g, eager86>>

F_LAZY86 == {"CF", "PF", "AF", "ZF", "SF", "OF"}
Nothing == [lz |-> "NONE", lw |-> FALSE, la |-> 0, lb |-> 0, lr |-> 0, lc |-> 0]
Width(w) == IF w THEN 2 * BITS ELSE BITS
Msb(v, w) == Bit(v, Width(w) - 1)
Masked(v, w) == v % 2^Width(w)
i16(v) == v % 2^(2 * BITS)
-----------------------------------------------------------------------------
(* i86flags(), lazy() and i86lcond().                                       *)
ResultBits(r, w) ==
  When(Masked(r, w) = 0, "ZF") \cup When(Msb(r, w), "SF") \cup When(Even(r), "PF")
Adding(rec) == rec.lz \in {"ADD", "INC"}
CarryFlag(rec, fl) ==
  LET a == Masked(rec.la, rec.lw)  b == Masked(rec.lb, rec.lw)  r == Masked(rec.lr, rec.lw)
  IN CASE rec.lz = "ADD" -> IF rec.lc = 1 THEN r <= a ELSE r < a
       [] rec.lz = "SUB" -> IF rec.lc = 1 THEN a <= b ELSE a < b
       [] rec.lz \in {"INC", "DEC"} -> "CF" \in fl
       [] OTHER -> FALSE
OverflowFlag(rec) ==
  LET a == Msb(rec.la, rec.lw)  b == Msb(rec.lb, rec.lw)  r == Msb(rec.lr, rec.lw)
  IN /\ rec.lz # "LOG"
     /\ IF Adding(rec) THEN a # r /\ b # r ELSE a # b /\ a # r
HalfFlag(rec) == rec.lz # "LOG" /\ Bit(rec.la, HALF) # (Bit(rec.lb, HALF) # Bit(rec.lr, HALF))
i86flags(fl, rec) ==
  IF rec.lz = "NONE" THEN fl
  ELSE ResultBits(rec.lr, rec.lw) \cup When(CarryFlag(rec, fl), "CF")
         \cup When(HalfFlag(rec), "AF") \cup When(OverflowFlag(rec), "OF")
Made(h) == [fl |-> i86flags(h.fl, h.rec), rec |-> Nothing]
FlagsNow == i86flags(g.fl, g.rec)

i86lazy(h, cls, w, a, b, r, c) ==
  [IF cls \in {"INC", "DEC"} /\ h.rec.lz \notin {"INC", "DEC"} THEN Made(h) ELSE h EXCEPT
     !.rec = [lz |-> cls, lw |-> w, la |-> a, lb |-> b, lr |-> r, lc |-> c]]

(* A condition is one of eight tests or its opposite.                       *)
Tests == {"O", "B", "E", "BE", "S", "P", "L", "LE"}
Test(f, cc) ==
  CASE cc = "O" -> "OF" \in f [] cc = "B" -> "CF" \in f [] cc = "E" -> "ZF" \in f
    [] cc = "BE" -> f \cap {"CF", "ZF"} # {} [] cc = "S" -> "SF" \in f
    [] cc = "P" -> "PF" \in f [] cc = "L" -> ("SF" \in f) # ("OF" \in f)
    [] cc = "LE" -> ("SF" \in f) # ("OF" \in f) \/ "ZF" \in f
i86cond(f, cc, not) == Test(f, cc) # not
i86lcond(h, cc, not) ==
  LET r == h.rec  value == Masked(r.lr, r.lw)
      less == Msb(r.lr, r.lw) # OverflowFlag(r)
      t == CASE cc = "E" -> value = 0 [] cc = "S" -> Msb(r.lr, r.lw) [] cc = "P" -> Even(r.lr)
             [] cc = "O" -> OverflowFlag(r) [] cc = "B" -> CarryFlag(r, h.fl)
             [] cc = "BE" -> CarryFlag(r, h.fl) \/ value = 0
             [] cc = "L" -> less [] cc = "LE" -> less \/ value = 0
  IN IF r.lz = "NONE" THEN i86cond(h.fl, cc, not) ELSE t # not
-----------------------------------------------------------------------------
(* What the operations do to the flags, by arithmetic.                      *)
Bound(w) == 2^Width(w)
InRange(v, w) == v \in -(Bound(w) \div 2) .. Bound(w) \div 2 - 1
ByValue(carry, half, fits, r, w) ==
  When(carry, "CF") \cup When(half, "AF") \cup When(~ fits, "OF") \cup ResultBits(r, w)
OfSum86(a, b, c, w) ==
  ByValue(a + b + c >= Bound(w), Digit(a) + Digit(b) + c >= 2^HALF,
          InRange(Signed(a, Width(w)) + Signed(b, Width(w)) + c, w), Masked(a + b + c, w), w)
OfDifference86(a, b, c, w) ==
  ByValue(a < b + c, Digit(a) < Digit(b) + c,
          InRange(Signed(a, Width(w)) - Signed(b, Width(w)) - c, w), Masked(a - b - c, w), w)
Keeping86(kept, new) == (eager86 \cap kept) \cup (new \ kept)
CarryIn(f) == IF "CF" \in f THEN 1 ELSE 0
Operands(w) == IF w THEN WIDES ELSE BYTES
-----------------------------------------------------------------------------
(* The operations.                                                          *)
I86Init == g \in {[fl |-> f, rec |-> Nothing] : f \in PSWS86} /\ eager86 = g.fl

(* alu(): ADD, ADC, SUB (CMP, NEG and a string compare too), SBB, and the   *)
(* logical ones.                                                            *)
i86add(h, w, a, b, c) == i86lazy(h, "ADD", w, a, b, i16(a + b + c), c)
i86sub(h, w, a, b, c) == i86lazy(h, "SUB", w, a, b, i16(a - b - c), c)
AluArith(w, a, b) ==
  \/ g' = i86add(g, w, a, b, 0) /\ eager86' = OfSum86(a, b, 0, w)
  \/ /\ g' = i86add(Made(g), w, a, b, CarryIn(FlagsNow))
     /\ eager86' = OfSum86(a, b, CarryIn(eager86), w)
  \/ g' = i86sub(g, w, a, b, 0) /\ eager86' = OfDifference86(a, b, 0, w)
  \/ /\ g' = i86sub(Made(g), w, a, b, CarryIn(FlagsNow))
     /\ eager86' = OfDifference86(a, b, CarryIn(eager86), w)
AluLogic(w, a, b) ==
  \E r \in {And(a, b), Or(a, b), Xor(a, b)} :
    g' = i86lazy(g, "LOG", w, a, b, r, 0) /\ eager86' = ByValue(FALSE, FALSE, TRUE, r, w)
NegOp(w, b) == /\ g' = i86sub(g, w, 0, b, 0)
               /\ eager86' = OfDifference86(0, b, 0, w)
IncOp(w, a) == /\ g' = i86lazy(g, "INC", w, a, 1, i16(a + 1), 0)
               /\ eager86' = Keeping86({"CF"}, OfSum86(a, 1, 0, w))
decop(h, w, a) == i86lazy(h, "DEC", w, a, 1, i16(a - 1), 0)
DecOp(w, a) == g' = decop(g, w, a) /\ eager86' = Keeping86({"CF"}, OfDifference86(a, 1, 0, w))

(* shift(), a bit at a time: sop is its variant, n its count.               *)
Shifts == {"ROL", "ROR", "RCL", "RCR", "SHL", "SHR", "SAR"}
OneBit(sop, w, v, cf) ==
  LET top == v \div 2^(Width(w) - 1)
      left(in)  == [v |-> Masked(2 * v, w) + in, cf |-> top]
      right(in) == [v |-> v \div 2 + in * 2^(Width(w) - 1), cf |-> v % 2]
  IN CASE sop = "ROL" -> left(top)  [] sop = "ROR" -> right(v % 2)
       [] sop = "RCL" -> left(cf)   [] sop = "RCR" -> right(cf)
       [] sop = "SHL" -> left(0)    [] sop = "SHR" -> right(0)
       [] sop = "SAR" -> right(top)
shift(sop, w, v, n, cf) ==
  LET after[i \in 0 .. n] == IF i = 0 THEN [v |-> v, cf |-> cf]
                             ELSE LET s == after[i - 1] IN OneBit(sop, w, s.v, s.cf)
  IN after[n]

(* The same in one go: a rotation of w or w + 1 bits, a shift as division.  *)
Turned(x, bits, n) == LET k == n % bits IN ((x * 2^k) % 2^bits) + x \div 2^(bits - k)
Back(x, bits, n) == Turned(x, bits, bits - (n % bits))
AtOnce(sop, w, v, n, cf) ==
  LET bits == Width(w)
      through(y) == [v |-> y % 2^bits, cf |-> y \div 2^bits]
      odd(y) == y % 2
  IN CASE sop = "ROL" -> [v |-> Turned(v, bits, n), cf |-> odd(Turned(v, bits, n))]
       [] sop = "ROR" -> [v |-> Back(v, bits, n), cf |-> Back(v, bits, n) \div 2^(bits - 1)]
       [] sop = "RCL" -> through(Turned(cf * 2^bits + v, bits + 1, n))
       [] sop = "RCR" -> through(Back(cf * 2^bits + v, bits + 1, n))
       [] sop = "SHL" -> [v |-> (v * 2^n) % 2^bits, cf |-> odd((v * 2^n) \div 2^bits)]
       [] sop = "SHR" -> [v |-> v \div 2^n, cf |-> odd(v \div 2^(n - 1))]
       [] sop = "SAR" -> [v |-> Masked(Signed(v, bits) \div 2^n, w),
                          cf |-> odd(Signed(v, bits) \div 2^(n - 1))]

Rotating == {"ROL", "ROR", "RCL", "RCR"}
ShiftOverflow(sop, w, v, s) ==
  LET top == Width(w) - 1
  IN CASE sop \in {"ROL", "RCL", "SHL"} -> Bit(s.v, top) # (s.cf = 1)
       [] sop \in {"ROR", "RCR"} -> Bit(s.v, top) # Bit(s.v, top - 1)
       [] sop = "SHR" -> Bit(v, top)
       [] sop = "SAR" -> FALSE
ShiftFlags(f, sop, w, s, over) ==
  When(s.cf = 1, "CF") \cup When(over, "OF")
    \cup IF sop \in Rotating THEN f \cap {"SF", "ZF", "PF", "AF"} ELSE ResultBits(s.v, w)

(* The overflow flag of one bit says that the sign has changed; of several, *)
(* it is what the code makes it.                                            *)
Shift(sop, w, v, n) ==
  LET s == shift(sop, w, v, n, CarryIn(FlagsNow))
      e == AtOnce(sop, w, v, n, CarryIn(eager86))
      turned == IF n = 1 THEN Msb(v, w) # Msb(e.v, w) ELSE ShiftOverflow(sop, w, v, e)
  IN IF n = 0 THEN UNCHANGED i86vars
     ELSE /\ g' = [fl |-> ShiftFlags(FlagsNow, sop, w, s, ShiftOverflow(sop, w, v, s)),
                   rec |-> Nothing]
          /\ eager86' = ShiftFlags(eager86, sop, w, e, turned)

(* strop(): CMPS or SCAS under a REP prefix, over the pairs it would meet   *)
(* until CX is 0; ZF may stop it.                                           *)
Compared(w, pairs, untilequal) ==
  LET after[i \in 0 .. Len(pairs)] ==
        IF i = 0 THEN [h |-> g, ended |-> FALSE]
        ELSE LET s == after[i - 1]
                 h == Made(i86sub(s.h, w, pairs[i][1], pairs[i][2], 0))
             IN IF s.ended THEN s ELSE [h |-> h, ended |-> ("ZF" \in h.fl) = untilequal]
  IN after[Len(pairs)].h
LastCompared(pairs, untilequal) ==
  CHOOSE i \in DOMAIN pairs :
    /\ i = Len(pairs) \/ (pairs[i][1] = pairs[i][2]) = untilequal
    /\ \A j \in 1 .. i - 1 : (pairs[j][1] = pairs[j][2]) # untilequal
RepCompare(w, pairs, untilequal) ==
  LET last == pairs[LastCompared(pairs, untilequal)]
  IN /\ g' = Compared(w, pairs, untilequal)
     /\ eager86' = OfDifference86(last[1], last[2], 0, w)

(* DAA and DAS on AL and the flags they find; AAA and AAS.                  *)
Correction == 2^HALF - DIGITS86
adjust(al, f, add) ==
  LET low  == IF Digit(al) >= DIGITS86 \/ "AF" \in f THEN Correction ELSE 0
      high == IF al > (DIGITS86 - 1) * (2^HALF + 1) \/ "CF" \in f THEN Correction * 2^HALF ELSE 0
      r    == (IF add THEN al + low + high ELSE al - low - high) % 2^BITS
  IN [al |-> r, f |-> (f \cap {"OF"}) \cup When(low # 0, "AF") \cup When(high # 0, "CF")
                        \cup ResultBits(r, FALSE)]
Adjust(al, add) == /\ g' = [fl |-> adjust(al, FlagsNow, add).f, rec |-> Nothing]
                   /\ eager86' = adjust(al, eager86, add).f
ascii(al, f) == (f \ {"AF", "CF"}) \cup
                  IF Digit(al) >= DIGITS86 \/ "AF" \in f THEN {"AF", "CF"} ELSE {}
AsciiAdjust(al) == /\ g' = [fl |-> ascii(al, FlagsNow), rec |-> Nothing]
                   /\ eager86' = ascii(al, eager86)
AamAad(r) == /\ g' = i86lazy(g, "LOG", FALSE, 0, 0, r, 0)
             /\ eager86' = ByValue(FALSE, FALSE, TRUE, r, FALSE)

(* Instructions that edit the flags: MUL and IMUL (`both', the high half is *)
(* wanted or not), CLC, STC and CMC, SAHF; that read them all: PUSHF, LAHF, *)
(* an interrupt, DIV; that bring others: POPF, IRET.                        *)
Edit(f, those, in) == IF in THEN f \cup those ELSE f \ those
Edited86(those, in) == /\ g' = [fl |-> Edit(FlagsNow, those, in), rec |-> Nothing]
                       /\ eager86' = Edit(eager86, those, in)
Multiply(both) == Edited86({"CF", "OF"}, both)
SetCarryFlag(in) == Edited86({"CF"}, in)
Complement == /\ g' = [fl |-> Edit(FlagsNow, {"CF"}, "CF" \notin FlagsNow), rec |-> Nothing]
              /\ eager86' = Edit(eager86, {"CF"}, "CF" \notin eager86)
Sahf(ah) == /\ g' = [fl |-> (FlagsNow \cap {"OF"}) \cup (ah \ {"OF"}), rec |-> Nothing]
            /\ eager86' = (eager86 \cap {"OF"}) \cup (ah \ {"OF"})
ReadFlags == g' = Made(g) /\ UNCHANGED eager86
Popf(f) == g' = [fl |-> f, rec |-> Nothing] /\ eager86' = f
-----------------------------------------------------------------------------
(* delay(): a register DEC that JNZ back to it follows, r left, run to its  *)
(* end at once; the loop stepped, from the jump after the first DEC on.     *)
ClocksOf == [dec |-> 2, decrm |-> 3, taken |-> 16, last |-> 4]
delay(h, w, r, form) ==
  [h |-> i86lazy(h, "DEC", w, 1, 1, 0, 0), insns |-> 2 * r + 1,
   owed |-> (r + 1) * ClocksOf[form] + r * ClocksOf.taken + ClocksOf.last]
Stepped86(h, w, r, form) ==
  LET round[k \in 0 .. r] ==
        IF k = 0 THEN [h |-> h, insns |-> 0, owed |-> ClocksOf[form]]
        ELSE LET s == round[k - 1]
             IN IF ~ i86lcond(s.h, "E", TRUE) THEN s
                ELSE [h |-> decop(s.h, w, r - k + 1), insns |-> s.insns + 2,
                      owed |-> s.owed + ClocksOf.taken + ClocksOf[form]]
      end == round[r]
  IN [h |-> end.h, insns |-> end.insns + 1, owed |-> end.owed + ClocksOf.last]
DelayLoop(w, r) == /\ g' = delay(decop(g, w, r + 1), w, r, "dec").h
                   /\ eager86' = Keeping86({"CF"}, OfDifference86(1, 1, 0, w))
-----------------------------------------------------------------------------
ALs == BYTES \cup IF g.rec.lz = "NONE" THEN {} ELSE {g.rec.lr % 2^BITS}
OnOperand(w, a) ==
  \/ \E b \in Operands(w) : AluArith(w, a, b) \/ AluLogic(w, a, b)
  \/ NegOp(w, a) \/ IncOp(w, a) \/ DecOp(w, a)
  \/ \E sop \in Shifts, n \in COUNTS : Shift(sop, w, a, n)
  \/ a \in LOOPS86 /\ DelayLoop(w, a)
I86Next ==
  \/ \E w \in BOOLEAN : \E a \in Operands(w) :
       \/ OnOperand(w, a)
       \/ \E b \in Operands(w), not \in BOOLEAN : RepCompare(w, <<<<a, a>>, <<a, b>>, <<b, a>>>>, not)
  \/ \E al \in ALs : AsciiAdjust(al) \/ AamAad(al) \/ \E add \in BOOLEAN : Adjust(al, add)
  \/ \E in \in BOOLEAN : Multiply(in) \/ SetCarryFlag(in)
  \/ Complement \/ ReadFlags
  \/ \E f \in PSWS86 : Popf(f) \/ (Sahf(f) /\ "OF" \notin f)
I86Spec == I86Init /\ [][I86Next]_i86vars
-----------------------------------------------------------------------------
(* The record stands for the flags, and each of the sixteen conditions      *)
(* tested on the record is that condition on the flags.                     *)
WideFlagsAreEager ==
  /\ FlagsNow = eager86
  /\ \A cc \in Tests, not \in BOOLEAN : i86lcond(g, cc, not) = i86cond(eager86, cc, not)

(* ADD or ADC of packed decimals and then DAA is decimal addition, SUB or   *)
(* SBB and then DAS decimal subtraction, carry and borrow in and out.       *)
DecimalArithmetic ==
  LET rec == g.rec  al == rec.lr % 2^BITS
      packed(v) == Digit(v) < DIGITS86 /\ v \div 2^HALF < DIGITS86
      value(v) == (v \div 2^HALF) * DIGITS86 + Digit(v)
      exact == IF rec.lz = "ADD" THEN value(rec.la) + value(rec.lb) + rec.lc
               ELSE value(rec.la) - value(rec.lb) - rec.lc
      d == adjust(al, FlagsNow, rec.lz = "ADD")
  IN rec.lz \in {"ADD", "SUB"} /\ ~ rec.lw /\ packed(rec.la) /\ packed(rec.lb) =>
       /\ packed(d.al) /\ value(d.al) = exact % (DIGITS86 * DIGITS86)
       /\ ("CF" \in d.f) = (exact \notin 0 .. DIGITS86 * DIGITS86 - 1)

(* "leaving the state and counts its 2r+1 remaining instructions would".    *)
WideDelayIsStepping ==
  \A w \in BOOLEAN, form \in {"dec", "decrm"} : \A r \in {l \in LOOPS86 : l < Bound(w)} :
    LET first == decop(g, w, Masked(r + 1, w))
    IN delay(first, w, r, form) = Stepped86(first, w, r, form)
=============================================================================
