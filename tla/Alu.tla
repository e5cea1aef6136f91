--------------------------------- MODULE Alu ---------------------------------
(***************************************************************************)
(* The arithmetic of core.sv in CpuExecute, on words of WordBits bits.     *)
(***************************************************************************)
EXTENDS Integers

CONSTANT WordBits  \* 32 in the code

LOCAL WordCount == 2 ^ WordBits
LOCAL signed(w) == IF w < WordCount \div 2 THEN w ELSE w - WordCount
LOCAL flag(b)   == IF b THEN 1 ELSE 0
LOCAL bit(w, i) == (w \div 2 ^ i) % 2

\* the word whose bit i is f[i]
LOCAL word(f) == LET upto[n \in 0..WordBits] ==
                       IF n = 0 THEN 0 ELSE upto[n - 1] + f[n - 1] * 2 ^ (n - 1)
                 IN  upto[WordBits]

LOCAL bitwise(Op(_, _), a, b) ==
  word([i \in 0..(WordBits - 1) |-> Op(bit(a, i), bit(b, i))])

LOCAL Xor(p, q) == flag(p # q)
LOCAL Or(p, q)  == flag(p + q > 0)
LOCAL And(p, q) == p * q

\* SUB is ADD and SRA is SRL with 'alt', bit 30, set
logical(funct3, alt, a, b) ==
  LET amount == b % WordBits IN
  CASE funct3 = 0 -> (IF alt THEN a - b ELSE a + b) % WordCount
    [] funct3 = 1 -> (a * 2 ^ amount) % WordCount
    [] funct3 = 2 -> flag(signed(a) < signed(b))
    [] funct3 = 3 -> flag(a < b)
    [] funct3 = 4 -> bitwise(Xor, a, b)
    [] funct3 = 5 -> ((IF alt THEN signed(a) ELSE a) \div 2 ^ amount) % WordCount
    [] funct3 = 6 -> bitwise(Or, a, b)
    [] funct3 = 7 -> bitwise(And, a, b)
=============================================================================
