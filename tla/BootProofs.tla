----------------------------- MODULE BootProofs -----------------------------
(***************************************************************************)
(* The program is in the memory when the CPU starts: proofs about module   *)
(* Boot.  The invariant ties the core to the flash, of either kind, bit by *)
(* bit: in each state of the boot, which bits have been sent and which     *)
(* have been read.                                                         *)
(***************************************************************************)
EXTENDS Boot, TLAPS

\* flash.sv: the low bits of the address that are zero
LowBits == CHOOSE k \in 0 .. 22 : chip.bytes = 2 ^ k
ZeroBits == LowBits + 2

FlashTypes ==
  flash \in [state : {"ReceiveCommand", "ReceiveAddress", "SendData"}, counter : -1 .. 22,
             address : 0 .. chip.bytes - 1, current_byte : ByteValues, miso : {0, 1}]

Nothing_asked == request = NoRequest /\ ramio_address_next = 0

\* the words up to w are those of the program
Copied(w) == \A v \in 0 .. w - 1 : memory[v] = image(v)

AtReset == /\ Nothing_asked /\ flash = FlashAtReset /\ flash_clk = 0 /\ flash_cs_n = 1
           /\ state = "BootLoadCommandToSend" => flash_counter = 0

\* A bit takes two cycles; flash.sv is one falling edge behind, the flash of the board
\* half a bit less.
ahead == IF chip.at_rise THEN 1 - flash_counter ELSE 0

InCommand ==
  /\ Nothing_asked /\ flash_cs_n = 0 /\ flash.state = "ReceiveCommand" /\ flash.address = 0
  /\ \/ /\ flash_counter = 0 /\ flash_num_bits_to_send = 8 /\ flash_clk = 0
        /\ flash.counter = 6
     \/ /\ flash_counter \in {0, 1} /\ flash_clk = 1 - flash_counter
        /\ flash_num_bits_to_send \in 1 - flash_counter .. 7
        /\ flash.counter = flash_num_bits_to_send - 1 - ahead

\* the command is sent: flash.sv has yet to see the edge that follows its last bit
AwaitsAddress ==
  IF chip.at_rise
  THEN flash.state = "ReceiveAddress" /\ flash.counter = 22 /\ flash.address = 0
  ELSE flash.state = "ReceiveCommand" /\ flash.counter = -1

BeforeAddress == /\ Nothing_asked /\ flash_cs_n = 0 /\ flash_counter = 0 /\ flash_clk = 1
                 /\ AwaitsAddress

\* the rest of the address is at the top of the shift register
RestOfAddress ==
  flash_data_to_send = (FlashTransferFromAddress * 2 ^ (24 - flash_num_bits_to_send)) % 2 ^ 24

\* what of the address has been sent when n bits are left
Sent(n) == (FlashTransferFromAddress * 2 ^ (24 - n)) \div 2 ^ 24

\* Of the bits that flash.sv takes for an address the last ones are zero.
EmulatedInAddress ==
  /\ flash_num_bits_to_send <= ZeroBits => flash_data_to_send = 0
  /\ \/ /\ flash_counter = 0 /\ flash_num_bits_to_send = 24 /\ flash_clk = 1
        /\ flash.state = "ReceiveCommand" /\ flash.counter = -1
     \/ /\ flash_counter \in {0, 1} /\ flash_clk = 1 - flash_counter
        /\ flash_num_bits_to_send \in 1 - flash_counter .. 23
        /\ flash.state = "ReceiveAddress" /\ flash.counter = flash_num_bits_to_send - 1
        /\ flash_num_bits_to_send < ZeroBits => flash_mosi = 0
        /\ flash_num_bits_to_send \in 1 .. LowBits + 1 =>
             (flash.address * 2 ^ (flash_num_bits_to_send - 1)) % chip.bytes = 0
        /\ flash_num_bits_to_send = 0 => /\ flash.address = FlashTransferFromAddress % chip.bytes
                                        /\ flash.current_byte = stored(0)

\* The flash of the board has the bits that are sent, but for the one that is on the line.
BoardInAddress ==
  /\ flash_counter \in {0, 1} /\ flash_clk = 1 - flash_counter
  /\ flash_num_bits_to_send \in 1 - flash_counter .. 24 - flash_counter
  /\ flash.state = "ReceiveAddress" /\ flash.counter = flash_num_bits_to_send - 2 + flash_counter
  /\ flash.address = Sent(flash_num_bits_to_send + flash_counter) % chip.bytes
  /\ flash_counter = 1 =>
       Sent(flash_num_bits_to_send) = 2 * Sent(flash_num_bits_to_send + 1) + flash_mosi

InAddress ==
  /\ Nothing_asked /\ flash_cs_n = 0 /\ flash_current_byte_num = 0
  /\ RestOfAddress
  /\ IF chip.at_rise THEN BoardInAddress ELSE EmulatedInAddress

\* what the flash has put on its output after s bits, and the core shifted in after r
Sends(s) ==
  IF s = 0 /\ ~chip.at_rise
  THEN /\ flash.state = "ReceiveAddress" /\ flash.counter = -1
       /\ flash.address = FlashTransferFromAddress % chip.bytes
       /\ flash.current_byte = stored(0)
  ELSE /\ flash.state = "SendData" /\ flash.counter = 6 - (s % 8)
       /\ flash.address = (FlashTransferFromAddress + (s \div 8) + 1) % chip.bytes
       /\ flash.current_byte = (stored(s \div 8) * 2 ^ (s % 8)) % 256
       /\ s > 0 => flash.miso = bit(stored((s - 1) \div 8), 7 - ((s - 1) % 8))

Reads(r) ==
  r > 0 => flash_current_byte_out % 2 ^ (((r - 1) % 8) + 1)
           = stored((r - 1) \div 8) \div 2 ^ (7 - ((r - 1) % 8))

bytes_taken == IF flash_counter = 0 THEN 0 ELSE (flash_counter - 1) \div 16

InData == /\ flash_cs_n = 0 /\ flash_clk = 1 - (flash_counter % 2)
          /\ \E s, r \in Nat : /\ s = (flash_counter + 1) \div 2 /\ r = flash_counter \div 2
                             /\ Sends(s) /\ Reads(r)

InWord(w) ==
  /\ ramio_address_next = 4 * w /\ ~request.enable /\ 4 * w < FlashTransferByteCount
  /\ Copied(w)

ReadingWord(w) ==
  /\ InWord(w)
  /\ flash_current_byte_num \in Lanes /\ bytes_taken = 4 * w + flash_current_byte_num
  /\ \A b \in 0 .. flash_current_byte_num - 1 : flash_data_out[b] = stored(4 * w + b)

WordIsRead(w) ==
  /\ InWord(w) /\ flash_counter = 64 * w + 65 /\ flash_data_out = image(w)

WritingWord(w) ==
  /\ ramio_address_next = 4 * w + 4 /\ flash_counter = 64 * w + 65
  /\ 4 * w < FlashTransferByteCount /\ Copied(w)
  /\ request = [enable |-> TRUE, read |-> 0, write |-> 4, address |-> 4 * w,
                data_in |-> image(w)]

Running == /\ Copied(ImageWords) /\ flash_cs_n = 1
           /\ request.enable /\ request.read = 4 /\ request.write = 0 /\ request.address = 0

InPhase ==
  /\ state \in {"BootInit", "BootLoadCommandToSend"} => AtReset
  /\ state = "BootSend" => \/ return_state = "BootLoadAddressToSend" /\ InCommand
                           \/ return_state = "BootReadData" /\ InAddress
  /\ state = "BootLoadAddressToSend" => BeforeAddress
  /\ state \in {"BootReadData", "BootStartWrite", "BootWrite"} => InData
  /\ state = "BootReadData"   => \E w \in Nat : ReadingWord(w)
  /\ state = "BootStartWrite" => \E w \in Nat : WordIsRead(w)
  /\ state = "BootWrite"      => \E w \in Nat : WritingWord(w)
  /\ state = "CpuFetch" => Running

BootInv == TypeOK /\ FlashTypes /\ chip \in Flashes /\ InPhase

-----------------------------------------------------------------------------

(* Arithmetic. *)



LEMMA DoublesOf ==
  ASSUME NEW i \in 0 .. 24
  PROVE  /\ 2 ^ i \in Nat \ {0}
         /\ i < 24 => 2 ^ (i + 1) = 2 * 2 ^ i
         /\ 2 ^ i * 2 ^ (24 - i) = 2 ^ 24
<1>1. CASE i = 0
  BY <1>1
<1>2. CASE i = 1
  BY <1>2
<1>3. CASE i = 2
  BY <1>3
<1>4. CASE i = 3
  BY <1>4
<1>5. CASE i = 4
  BY <1>5
<1>6. CASE i = 5
  BY <1>6
<1>7. CASE i = 6
  BY <1>7
<1>8. CASE i = 7
  BY <1>8
<1>9. CASE i = 8
  BY <1>9
<1>10. CASE i = 9
  BY <1>10
<1>11. CASE i = 10
  BY <1>11
<1>12. CASE i = 11
  BY <1>12
<1>13. CASE i = 12
  BY <1>13
<1>14. CASE i = 13
  BY <1>14
<1>15. CASE i = 14
  BY <1>15
<1>16. CASE i = 15
  BY <1>16
<1>17. CASE i = 16
  BY <1>17
<1>18. CASE i = 17
  BY <1>18
<1>19. CASE i = 18
  BY <1>19
<1>20. CASE i = 19
  BY <1>20
<1>21. CASE i = 20
  BY <1>21
<1>22. CASE i = 21
  BY <1>22
<1>23. CASE i = 22
  BY <1>23
<1>24. CASE i = 23
  BY <1>24
<1>25. CASE i = 24
  BY <1>25
<1> QED
  BY <1>1, <1>2, <1>3, <1>4, <1>5, <1>6, <1>7, <1>8, <1>9, <1>10, <1>11, <1>12, <1>13, <1>14, <1>15, <1>16, <1>17, <1>18, <1>19, <1>20, <1>21, <1>22, <1>23, <1>24, <1>25

LEMMA Doubles ==
  /\ \A i \in 0 .. 24 : 2 ^ i \in Nat \ {0} /\ 2 ^ i * 2 ^ (24 - i) = 2 ^ 24
  /\ \A i \in 0 .. 23 : 2 ^ (i + 1) = 2 * 2 ^ i
BY DoublesOf

LEMMA MultipleOf ==
  ASSUME NEW x \in Nat, NEW m \in Nat \ {0}, x % m = 0
  PROVE  \E q \in Nat : x = m * q
<1>1. x = m * (x \div m) + (x % m) /\ x \div m \in Nat
  OBVIOUS
<1>2. x = m * (x \div m)
  BY <1>1
<1> QED
  BY <1>1, <1>2

LEMMA RemainderIs ==
  ASSUME NEW x \in Nat, NEW m \in Nat \ {0}, NEW q \in Int, NEW r \in 0 .. m - 1, x = m * q + r
  PROVE  x % m = r
<1>1. x = m * (x \div m) + (x % m) /\ x \div m \in Nat /\ x % m \in 0 .. m - 1
  OBVIOUS
<1>2. (x % m) - r = m * (q - x \div m)
  BY <1>1
<1>3. CASE q - x \div m = 0
  BY <1>1, <1>2, <1>3
<1>4. CASE q - x \div m >= 1
  <2>1. \A d \in Int : d >= 1 => m * d >= m
    OBVIOUS
  <2> QED
    BY <1>1, <1>2, <1>4, <2>1
<1>5. CASE q - x \div m <= -1
  <2>1. \A d \in Int : d <= -1 => m * d <= -m
    OBVIOUS
  <2> QED
    BY <1>1, <1>2, <1>5, <2>1
<1> QED
  BY <1>1, <1>3, <1>4, <1>5

LEMMA NothingRemains ==
  ASSUME NEW x \in Nat, NEW m \in Nat \ {0}, NEW q \in Int, x = m * q
  PROVE  x % m = 0
<1>1. x = m * q + 0 /\ 0 \in 0 .. m - 1
  OBVIOUS
<1> QED
  BY <1>1, RemainderIs

LEMMA RemainderOfNext ==
  ASSUME NEW x \in Nat, NEW m \in Nat \ {0}
  PROVE  ((x % m) + 1) % m = (x + 1) % m
<1> DEFINE q == x \div m
           r == x % m
<1>1. x = m * q + r /\ q \in Nat /\ r \in 0 .. m - 1
  OBVIOUS
<1> HIDE DEF q, r
<1>2. CASE r + 1 < m
  <2>1. x + 1 = m * q + (r + 1) /\ r + 1 \in 0 .. m - 1 /\ x + 1 \in Nat /\ q \in Int
    BY <1>1, <1>2
  <2>2. (x + 1) % m = r + 1
    BY <2>1, RemainderIs
  <2>3. (r + 1) % m = r + 1
    BY <1>1, <1>2
  <2> QED
    BY <2>2, <2>3 DEF r
<1>3. CASE r + 1 = m
  <2>1. x + 1 = m * (q + 1) /\ x + 1 \in Nat /\ q + 1 \in Int
    BY <1>1, <1>3
  <2>2. (x + 1) % m = 0
    BY <2>1, NothingRemains
  <2>3. (r + 1) % m = 0
    <3>1. m = m * 1 /\ m \in Nat
      OBVIOUS
    <3> QED
      BY <1>3, <3>1, NothingRemains
  <2> QED
    BY <2>2, <2>3 DEF r
<1> QED
  BY <1>1, <1>2, <1>3

\* A shift to the left within m keeps that so many shifts more make a multiple of m.
LEMMA ShiftedMultiple ==
  ASSUME NEW a \in Nat, NEW p \in Nat, NEW m \in Nat \ {0}, (a * (2 * p)) % m = 0
  PROVE  (((2 * a) % m) * p) % m = 0
<1> DEFINE q == (2 * a) \div m
           r == (2 * a) % m
<1>1. 2 * a = m * q + r /\ q \in Nat /\ r \in Nat
  OBVIOUS
<1>2. PICK s \in Nat : a * (2 * p) = m * s
  BY MultipleOf
<1>3. (2 * a) * p = m * s
  BY <1>2
<1> HIDE DEF q, r
<1>4. (m * q + r) * p = m * (q * p) + r * p
  BY <1>1
<1>5. r * p = m * (s - q * p)
  BY <1>1, <1>3, <1>4
<1>6. r * p \in Nat /\ s - q * p \in Int
  BY <1>1
<1>7. (r * p) % m = 0
  BY <1>5, <1>6, NothingRemains
<1> QED
  BY <1>7 DEF r

LEMMA ChipIs ==
  ASSUME chip \in Flashes
  PROVE  /\ chip.at_rise \in BOOLEAN /\ chip.bytes \in Nat \ {0}
         /\ chip.content \in [0 .. chip.bytes - 1 -> ByteValues]
         /\ FlashTransferFromAddress \in Nat
         /\ \A x \in Nat : x % chip.bytes \in 0 .. chip.bytes - 1 /\ x % chip.bytes \in Nat
         /\ \A a \in 0 .. chip.bytes - 1 : chip.content[a] \in ByteValues
<1>1. /\ chip.at_rise \in BOOLEAN /\ chip.bytes \in Nat \ {0}
      /\ chip.content \in [0 .. chip.bytes - 1 -> ByteValues]
  BY BootAssumption DEF IsFlash
<1>2. FlashTransferFromAddress \in Nat
  BY BootAssumption
<1>3. \A m \in Nat \ {0} : \A x \in Nat : x % m \in 0 .. m - 1 /\ x % m \in Nat
  OBVIOUS
<1> QED
  BY <1>1, <1>2, <1>3

LEMMA LowBitsAre ==
  ASSUME chip \in Flashes, ~chip.at_rise
  PROVE  /\ LowBits \in 0 .. 22 /\ chip.bytes = 2 ^ LowBits
         /\ ZeroBits = LowBits + 2 /\ 4 * chip.bytes = 2 ^ ZeroBits
         /\ FlashTransferFromAddress % (4 * chip.bytes) = 0
         /\ FlashTransferFromAddress % chip.bytes = 0
<1>1. LowBits \in 0 .. 22 /\ chip.bytes = 2 ^ LowBits
  BY BootAssumption DEF LowBits
<1>2. /\ 2 ^ LowBits \in Nat \ {0}
      /\ 2 ^ (LowBits + 1) = 2 * 2 ^ LowBits
      /\ 2 ^ (LowBits + 1 + 1) = 2 * 2 ^ (LowBits + 1)
  <2>1. LowBits \in 0 .. 23 /\ LowBits \in 0 .. 24 /\ LowBits + 1 \in 0 .. 23
    BY <1>1
  <2> QED
    BY <2>1, Doubles
<1>3. LowBits + 1 + 1 = ZeroBits
  BY <1>1 DEF ZeroBits
<1>4. 4 * chip.bytes = 2 ^ ZeroBits
  BY <1>1, <1>2, <1>3
<1>5. FlashTransferFromAddress \in Nat /\ FlashTransferFromAddress % (4 * chip.bytes) = 0
  BY BootAssumption
<1>6. FlashTransferFromAddress % chip.bytes = 0
  <2>1. chip.bytes \in Nat \ {0} /\ 4 * chip.bytes \in Nat \ {0}
    <3>1. \A m \in Nat \ {0} : 4 * m \in Nat \ {0}
      OBVIOUS
    <3> QED
      BY <3>1, ChipIs
  <2> DEFINE m == chip.bytes
  <2> HIDE DEF m
  <2>2. PICK q \in Nat : FlashTransferFromAddress = (4 * m) * q
    BY <1>5, <2>1, MultipleOf DEF m
  <2>3. m \in Nat \ {0} /\ FlashTransferFromAddress = m * (4 * q) /\ 4 * q \in Int
    <3>1. m \in Nat \ {0}
      BY <2>1 DEF m
    <3> QED
      BY <2>2, <3>1
  <2>4. FlashTransferFromAddress % m = 0
    BY <1>5, <2>3, NothingRemains
  <2> QED
    BY <2>4 DEF m
<1> QED
  BY <1>1, <1>2, <1>4, <1>5, <1>6 DEF ZeroBits

\* When as many bits of the address are left as are zero, the shift register is.
LEMMA RestVanishes ==
  ASSUME chip \in Flashes, ~chip.at_rise
  PROVE  (FlashTransferFromAddress * 2 ^ (24 - ZeroBits)) % 2 ^ 24 = 0
<1> DEFINE f == FlashTransferFromAddress
           c == 2 ^ (24 - ZeroBits)
           m == 2 ^ 24
<1>1. ZeroBits \in 0 .. 24 /\ 24 - ZeroBits \in 0 .. 24 /\ 24 \in 0 .. 24
  BY LowBitsAre
<1>2. 2 ^ ZeroBits \in Nat \ {0} /\ 2 ^ ZeroBits * c = m /\ c \in Nat \ {0} /\ m \in Nat \ {0}
  <2>1. 2 ^ ZeroBits \in Nat \ {0} /\ 2 ^ ZeroBits * c = m
    BY <1>1, Doubles
  <2>2. c \in Nat \ {0}
    BY <1>1, Doubles
  <2>3. m \in Nat \ {0}
    BY <1>1, Doubles
  <2> QED
    BY <2>1, <2>2, <2>3
<1>3. PICK q \in Nat : f = 2 ^ ZeroBits * q
  <2>1. f \in Nat /\ f % 2 ^ ZeroBits = 0
    BY LowBitsAre, ChipIs
  <2> QED
    BY <1>2, <2>1, MultipleOf
<1> HIDE DEF c, m
<1>4. \A z, k \in Nat : (z * q) * k = (z * k) * q
  OBVIOUS
<1>5. f * c = m * q
  BY <1>2, <1>3, <1>4
<1>6. f * c \in Nat
  <2>1. f \in Nat
    BY BootAssumption
  <2> QED
    BY <1>2, <2>1
<1>7. m \in Nat \ {0} /\ q \in Int
  BY <1>2
<1>8. (f * c) % m = 0
  BY <1>5, <1>6, <1>7, NothingRemains
<1> QED
  BY <1>8 DEF c, m

LEMMA ShiftedRest ==
  ASSUME NEW n \in 1 .. 24
  PROVE  (2 * ((FlashTransferFromAddress * 2 ^ (24 - n)) % 2 ^ 24)) % 2 ^ 24
         = (FlashTransferFromAddress * 2 ^ (24 - (n - 1))) % 2 ^ 24
<1> DEFINE x == FlashTransferFromAddress * 2 ^ (24 - n)
<1>1. 24 - n \in 0 .. 23 /\ 24 - (n - 1) = (24 - n) + 1
  OBVIOUS
<1>2. 2 ^ (24 - (n - 1)) = 2 * 2 ^ (24 - n) /\ 2 ^ (24 - n) \in Nat
  <2>1. 24 - n \in 0 .. 24 /\ 24 - n \in 0 .. 23
    BY <1>1
  <2>2. 2 ^ ((24 - n) + 1) = 2 * 2 ^ (24 - n) /\ 2 ^ (24 - n) \in Nat
    BY <2>1, Doubles
  <2> QED
    BY <1>1, <2>2
<1>3. x \in Nat /\ FlashTransferFromAddress * 2 ^ (24 - (n - 1)) = 2 * x
  <2>1. FlashTransferFromAddress \in Nat
    BY BootAssumption
  <2> QED
    BY <1>2, <2>1
<1>4. \A y \in Nat : (2 * (y % 2 ^ 24)) % 2 ^ 24 = (2 * y) % 2 ^ 24
  OBVIOUS
<1> HIDE DEF x
<1>5. (2 * (x % 2 ^ 24)) % 2 ^ 24 = (2 * x) % 2 ^ 24
  BY <1>3, <1>4
<1> QED
  BY <1>3, <1>5 DEF x

\* The next of the eight bits of a byte, as flash.sv sends and the core reads it.
SentAndRead(byte, e) ==
  /\ (byte * 2 ^ e) % 256 \in ByteValues
  /\ bit((byte * 2 ^ e) % 256, 7) = bit(byte, 7 - e)
  /\ bit(byte, 7 - e) \in {0, 1}
  /\ shifted((byte * 2 ^ e) % 256, 0) = (byte * 2 ^ (e + 1)) % 256
  /\ byte \div 2 ^ (7 - e) \in Nat
  /\ e > 0 => byte \div 2 ^ (7 - e) = 2 * (byte \div 2 ^ (7 - (e - 1))) + bit(byte, 7 - e)
  /\ e = 0 => byte \div 2 ^ 7 = bit(byte, 7)

LEMMA NextBit ==
  ASSUME NEW byte \in ByteValues, NEW e \in 0 .. 7
  PROVE  SentAndRead(byte, e)
<1>1. SentAndRead(byte, 0)
  BY DEF SentAndRead, bit, shifted, ByteValues
<1>2. SentAndRead(byte, 1)
  BY DEF SentAndRead, bit, shifted, ByteValues
<1>3. SentAndRead(byte, 2)
  BY DEF SentAndRead, bit, shifted, ByteValues
<1>4. SentAndRead(byte, 3)
  BY DEF SentAndRead, bit, shifted, ByteValues
<1>5. SentAndRead(byte, 4)
  BY DEF SentAndRead, bit, shifted, ByteValues
<1>6. SentAndRead(byte, 5)
  BY DEF SentAndRead, bit, shifted, ByteValues
<1>7. SentAndRead(byte, 6)
  BY DEF SentAndRead, bit, shifted, ByteValues
<1>8. SentAndRead(byte, 7)
  BY DEF SentAndRead, bit, shifted, ByteValues
<1>9. e = 0 \/ e = 1 \/ e = 2 \/ e = 3 \/ e = 4 \/ e = 5 \/ e = 6 \/ e = 7
  OBVIOUS
<1> QED
  BY <1>1, <1>2, <1>3, <1>4, <1>5, <1>6, <1>7, <1>8, <1>9

LEMMA BitsShift ==
  ASSUME NEW byte \in ByteValues, NEW b \in {0, 1}, NEW e \in 1 .. 7
  PROVE  shifted(byte, b) % 2 ^ (e + 1) = 2 * (byte % 2 ^ e) + b
<1> DEFINE P(k) == shifted(byte, b) % 2 ^ (k + 1) = 2 * (byte % 2 ^ k) + b
<1>1. P(1)
  BY DEF shifted, ByteValues
<1>2. P(2)
  BY DEF shifted, ByteValues
<1>3. P(3)
  BY DEF shifted, ByteValues
<1>4. P(4)
  BY DEF shifted, ByteValues
<1>5. P(5)
  BY DEF shifted, ByteValues
<1>6. P(6)
  BY DEF shifted, ByteValues
<1>7. P(7)
  BY DEF shifted, ByteValues
<1> HIDE DEF P
<1>8. e = 1 \/ e = 2 \/ e = 3 \/ e = 4 \/ e = 5 \/ e = 6 \/ e = 7
  OBVIOUS
<1>9. P(e)
  BY <1>1, <1>2, <1>3, <1>4, <1>5, <1>6, <1>7, <1>8
<1> QED
  BY <1>9 DEF P

-----------------------------------------------------------------------------
(* The memory. *)

LEMMA ImageFits ==
  /\ ImageWords \in Nat \ {0} /\ RamWords \in Nat \ {0} /\ ImageWords <= RamWords
  /\ FlashTransferByteCount \in Nat
  /\ \A w \in Nat : 4 * w < FlashTransferByteCount => w < ImageWords
  /\ \A w \in Nat : 4 * w + 4 >= FlashTransferByteCount => w + 1 >= ImageWords
BY BootAssumption DEF ImageWords

LEMMA StoredIsAByte ==
  ASSUME chip \in Flashes
  PROVE  \A index \in Nat : stored(index) \in ByteValues
<1>1. ASSUME NEW index \in Nat PROVE stored(index) \in ByteValues
  <2>1. FlashTransferFromAddress + index \in Nat
    <3>1. FlashTransferFromAddress \in Nat
      BY BootAssumption
    <3> QED
      BY <3>1
  <2> QED
    BY <2>1, ChipIs DEF stored
<1> QED
  BY <1>1

\* While no word is being written, no request is made.
LEMMA NothingStored ==
  ASSUME BootInv, state \notin {"BootWrite", "CpuFetch"}
  PROVE  ~request.enable /\ ~busy /\ (Store => memory' = memory)
<1>1. ~request.enable
  <2>1. NoRequest.enable = FALSE
    BY DEF NoRequest
  <2> QED
    BY <2>1 DEF BootInv, TypeOK, BootStates, InPhase, AtReset, InCommand, BeforeAddress, InAddress,
                ReadingWord, WordIsRead, InWord, Nothing_asked
<1> QED
  BY <1>1 DEF busy, Store

\* The words that were those of the program stay, unless the memory changes.
LEMMA CopiedStays ==
  ASSUME NEW w, Copied(w), memory' = memory, chip' = chip
  PROVE  Copied(w)'
BY DEF Copied, image, stored

LEMMA WordIsStored ==
  ASSUME TypeOK, Store, chip' = chip, NEW w \in Nat, WritingWord(w)
  PROVE  /\ w < ImageWords
         /\ hit => memory' = [memory EXCEPT ![w] = image(w)] /\ Copied(w + 1)'
         /\ ~hit => memory' = memory
         /\ Copied(w)'
<1>1. w < ImageWords /\ w \in 0 .. RamWords - 1
  BY ImageFits DEF WritingWord
<1>2. /\ request.enable /\ request.write = 4 /\ request.address = 4 * w
      /\ request.data_in = image(w)
  BY DEF WritingWord
<1>3. ((4 * w) \div 4) % RamWords = w
  BY <1>1, ImageFits
<1>4. hit => memory' = [memory EXCEPT ![w] = image(w)]
  BY <1>2, <1>3 DEF Store
<1>5. ~hit => memory' = memory
  BY DEF Store
<1>6. \A v : image(v)' = image(v)
  BY DEF image, stored
<1>7. memory \in [0 .. RamWords - 1 -> [Lanes -> ByteValues]]
  BY DEF TypeOK
<1>8. \A v \in 0 .. w - 1 : v \in 0 .. RamWords - 1 /\ v # w /\ memory[v] = image(v)
  BY <1>1, ImageFits DEF WritingWord, Copied
<1>9. Copied(w)'
  BY <1>4, <1>5, <1>6, <1>7, <1>8 DEF Copied
<1>10. ASSUME hit PROVE Copied(w + 1)'
  <2>1. memory'[w] = image(w)
    BY <1>1, <1>4, <1>7, <1>10
  <2>2. \A v \in 0 .. (w + 1) - 1 : v = w \/ v \in 0 .. w - 1
    OBVIOUS
  <2> QED
    BY <1>6, <1>9, <2>1, <2>2 DEF Copied
<1> QED
  BY <1>1, <1>4, <1>5, <1>9, <1>10

-----------------------------------------------------------------------------
(* The flash. *)

\* The registers after a falling edge, one by one.
LEMMA FlashRegisters ==
  ASSUME FlashTypes, NEW mosi
  PROVE
    /\ flash.counter >= 0 =>
         /\ ReceiveCommand
              = [state |-> flash.state, counter |-> flash.counter - 1, address |-> flash.address,
                 current_byte |-> flash.current_byte, miso |-> flash.miso]
         /\ ReceiveAddress(mosi)
              = [state |-> flash.state, counter |-> flash.counter - 1,
                 address |-> (2 * flash.address + mosi) % chip.bytes,
                 current_byte |-> chip.content[flash.address], miso |-> flash.miso]
         /\ SendData
              = [state |-> flash.state, counter |-> flash.counter - 1, address |-> flash.address,
                 current_byte |-> shifted(flash.current_byte, 0),
                 miso |-> bit(flash.current_byte, 7)]
    /\ ~(flash.counter >= 0) =>
         /\ ReceiveCommand
              = [state |-> "ReceiveAddress", counter |-> 22, address |-> flash.address,
                 current_byte |-> flash.current_byte, miso |-> flash.miso]
         /\ ReceiveAddress(mosi)
              = [state |-> "SendData", counter |-> 5, address |-> (flash.address + 1) % chip.bytes,
                 current_byte |-> shifted(flash.current_byte, 0),
                 miso |-> bit(flash.current_byte, 7)]
         /\ SendData
              = [state |-> "SendData", counter |-> 6, address |-> (flash.address + 1) % chip.bytes,
                 current_byte |-> chip.content[flash.address], miso |-> bit(flash.current_byte, 7)]
<1>1. flash \in [state : {"ReceiveCommand", "ReceiveAddress", "SendData"}, counter : -1 .. 22,
                 address : 0 .. chip.bytes - 1, current_byte : ByteValues, miso : {0, 1}]
  BY DEF FlashTypes
<1>2. CASE flash.counter >= 0
  <2>1. ReceiveCommand
          = [state |-> flash.state, counter |-> flash.counter - 1, address |-> flash.address,
             current_byte |-> flash.current_byte, miso |-> flash.miso]
    BY <1>1, <1>2 DEF ReceiveCommand
  <2>2. ReceiveAddress(mosi)
          = [state |-> flash.state, counter |-> flash.counter - 1,
             address |-> (2 * flash.address + mosi) % chip.bytes,
             current_byte |-> chip.content[flash.address], miso |-> flash.miso]
    BY <1>1, <1>2 DEF ReceiveAddress
  <2>3. SendData
          = [state |-> flash.state, counter |-> flash.counter - 1, address |-> flash.address,
             current_byte |-> shifted(flash.current_byte, 0),
             miso |-> bit(flash.current_byte, 7)]
    BY <1>1, <1>2 DEF SendData
  <2> QED
    BY <1>2, <2>1, <2>2, <2>3
<1>3. CASE ~(flash.counter >= 0)
  <2>1. ReceiveCommand
          = [state |-> "ReceiveAddress", counter |-> 22, address |-> flash.address,
             current_byte |-> flash.current_byte, miso |-> flash.miso]
    <3>1. ReceiveCommand = [flash EXCEPT !.counter = 22, !.state = "ReceiveAddress"]
      BY <1>3 DEF ReceiveCommand
    <3> QED
      BY <1>1, <3>1
  <2>2. ReceiveAddress(mosi)
          = [state |-> "SendData", counter |-> 5, address |-> (flash.address + 1) % chip.bytes,
             current_byte |-> shifted(flash.current_byte, 0),
             miso |-> bit(flash.current_byte, 7)]
    BY <1>1, <1>3 DEF ReceiveAddress
  <2>3. SendData
          = [state |-> "SendData", counter |-> 6, address |-> (flash.address + 1) % chip.bytes,
             current_byte |-> chip.content[flash.address], miso |-> bit(flash.current_byte, 7)]
    BY <1>3 DEF SendData
  <2> QED
    BY <1>3, <2>1, <2>2, <2>3
<1> QED
  BY <1>2, <1>3

LEMMA TakesAddress ==
  ASSUME FlashTypes, NEW mosi, NEW here, here = (2 * flash.address + mosi) % chip.bytes
  PROVE  /\ flash.counter >= 0 =>
              TakeAddress(mosi) = [state |-> flash.state, counter |-> flash.counter - 1,
                                   address |-> here, current_byte |-> flash.current_byte,
                                   miso |-> flash.miso]
         /\ ~(flash.counter >= 0) =>
              TakeAddress(mosi) = [state |-> "SendData", counter |-> 6,
                                   address |-> (here + 1) % chip.bytes,
                                   current_byte |-> chip.content[here], miso |-> flash.miso]
<1>1. flash \in [state : {"ReceiveCommand", "ReceiveAddress", "SendData"}, counter : -1 .. 22,
                 address : 0 .. chip.bytes - 1, current_byte : ByteValues, miso : {0, 1}]
  BY DEF FlashTypes
<1>2. TakeAddress(mosi)
        = IF flash.counter >= 0 THEN [flash EXCEPT !.address = here, !.counter = @ - 1]
          ELSE [state |-> "SendData", counter |-> 6, miso |-> flash.miso,
                current_byte |-> chip.content[here], address |-> (here + 1) % chip.bytes]
  BY DEF TakeAddress
<1>3. CASE flash.counter >= 0
  BY <1>1, <1>2, <1>3
<1>4. CASE ~(flash.counter >= 0)
  BY <1>2, <1>4
<1> QED
  BY <1>3, <1>4

\* It moves only at an edge of its clock; the flash of the board, while it sends, only
\* at a falling one.
LEMMA FlashStays ==
  ASSUME Flash, ~(flash_clk = 1 /\ flash_clk' = 0 /\ flash_cs_n = 0),
         chip.at_rise => \/ ~(flash_clk = 0 /\ flash_clk' = 1 /\ flash_cs_n = 0)
                         \/ flash.state = "SendData"
  PROVE  flash' = flash
<1>1. CASE chip.at_rise
  <2>1. BoardFlash /\ ~FlashClockFalls
    BY <1>1 DEF Flash, FlashClockFalls
  <2>2. ~FlashClockRises \/ flash.state \notin {"ReceiveCommand", "ReceiveAddress"}
    BY <1>1 DEF FlashClockRises
  <2> QED
    BY <2>1, <2>2 DEF BoardFlash
<1>2. CASE ~chip.at_rise
  BY <1>2 DEF Flash, EmulatedFlash, FlashClockFalls
<1> QED
  BY <1>1, <1>2

LEMMA FlashMoves ==
  ASSUME Flash, flash_clk = 1, flash_clk' = 0, flash_cs_n = 0
  PROVE  /\ ~chip.at_rise =>
              /\ flash.state = "ReceiveCommand" => flash' = ReceiveCommand
              /\ flash.state = "ReceiveAddress" =>
                   \E mosi \in {flash_mosi, flash_mosi'} : flash' = ReceiveAddress(mosi)
         /\ chip.at_rise /\ flash.state # "SendData" => flash' = flash
         /\ flash.state = "SendData" => flash' = SendData
<1>1. FlashClockFalls /\ ~FlashClockRises
  BY DEF FlashClockFalls, FlashClockRises
<1>2. CASE chip.at_rise
  BY <1>1, <1>2 DEF Flash, BoardFlash
<1>3. CASE ~chip.at_rise
  BY <1>1, <1>3 DEF Flash, EmulatedFlash
<1> QED
  BY <1>2, <1>3

LEMMA FlashTakes ==
  ASSUME Flash, chip.at_rise, flash_clk = 0, flash_clk' = 1, flash_cs_n = 0
  PROVE  /\ flash.state = "ReceiveCommand" => flash' = ReceiveCommand
         /\ flash.state = "ReceiveAddress" => flash' = TakeAddress(flash_mosi)
<1>1. ~FlashClockFalls /\ FlashClockRises
  BY DEF FlashClockFalls, FlashClockRises
<1> QED
  BY <1>1 DEF Flash, BoardFlash

LEMMA FlashTypesStep ==
  ASSUME FlashTypes, chip \in Flashes, chip' = chip, {flash_mosi, flash_mosi'} \subseteq {0, 1},
         Flash, {flash_clk, flash_clk', flash_cs_n} \subseteq {0, 1}
  PROVE  FlashTypes'
<1>1. /\ flash.state \in {"ReceiveCommand", "ReceiveAddress", "SendData"}
      /\ flash.counter \in -1 .. 22 /\ flash.address \in 0 .. chip.bytes - 1
      /\ flash.current_byte \in ByteValues /\ flash.miso \in {0, 1}
      /\ chip.bytes \in Nat \ {0} /\ chip.at_rise \in BOOLEAN
  BY ChipIs DEF FlashTypes
<1>2. /\ chip.content[flash.address] \in ByteValues
      /\ bit(flash.current_byte, 7) \in {0, 1} /\ shifted(flash.current_byte, 0) \in ByteValues
      /\ \A mosi \in {0, 1} : (2 * flash.address + mosi) % chip.bytes \in 0 .. chip.bytes - 1
      /\ \A here \in 0 .. chip.bytes - 1 : /\ (here + 1) % chip.bytes \in 0 .. chip.bytes - 1
                                         /\ chip.content[here] \in ByteValues
  <2>1. \A byte \in ByteValues : bit(byte, 7) \in {0, 1} /\ shifted(byte, 0) \in ByteValues
    BY DEF bit, shifted, ByteValues
  <2>2. \A x \in Nat : x % chip.bytes \in 0 .. chip.bytes - 1
    BY ChipIs
  <2>3. /\ \A here \in 0 .. chip.bytes - 1 : here + 1 \in Nat
        /\ \A mosi \in {0, 1} : 2 * flash.address + mosi \in Nat
    BY <1>1
  <2>4. \A a \in 0 .. chip.bytes - 1 : chip.content[a] \in ByteValues
    BY ChipIs
  <2> QED
    BY <1>1, <2>1, <2>2, <2>3, <2>4
<1>3. flash.counter - 1 \in -1 .. 22 \/ ~(flash.counter >= 0)
  BY <1>1
<1>4. ASSUME flash' = ReceiveCommand PROVE FlashTypes'
  BY <1>1, <1>2, <1>3, <1>4, FlashRegisters DEF FlashTypes
<1>5. ASSUME NEW mosi \in {0, 1}, flash' = ReceiveAddress(mosi) PROVE FlashTypes'
  BY <1>1, <1>2, <1>3, <1>5, FlashRegisters DEF FlashTypes
<1>6. ASSUME flash' = SendData PROVE FlashTypes'
  BY <1>1, <1>2, <1>3, <1>6, FlashRegisters DEF FlashTypes
<1>7. ASSUME NEW mosi \in {0, 1}, flash' = TakeAddress(mosi) PROVE FlashTypes'
  <2> DEFINE here == (2 * flash.address + mosi) % chip.bytes
  <2>1. here \in 0 .. chip.bytes - 1
    BY <1>2
  <2>2. \/ TakeAddress(mosi) = [state |-> flash.state, counter |-> flash.counter - 1,
                                address |-> here, current_byte |-> flash.current_byte,
                                miso |-> flash.miso]
           /\ flash.counter >= 0
        \/ TakeAddress(mosi) = [state |-> "SendData", counter |-> 6,
                                address |-> (here + 1) % chip.bytes,
                                current_byte |-> chip.content[here], miso |-> flash.miso]
    BY TakesAddress
  <2> HIDE DEF here
  <2> QED
    BY <1>1, <1>2, <1>3, <1>7, <2>1, <2>2 DEF FlashTypes
<1>8. ASSUME flash' = flash PROVE FlashTypes'
  BY <1>8 DEF FlashTypes
<1>9. CASE flash_clk = 1 /\ flash_clk' = 0 /\ flash_cs_n = 0
  BY <1>1, <1>4, <1>5, <1>6, <1>8, <1>9, FlashMoves
<1>10. CASE flash_clk = 0 /\ flash_clk' = 1 /\ flash_cs_n = 0 /\ chip.at_rise
  <2>1. CASE flash.state = "SendData"
    BY <1>8, <1>10, <2>1, FlashStays
  <2>2. CASE flash.state # "SendData"
    BY <1>1, <1>4, <1>7, <1>10, <2>2, FlashTakes
  <2> QED
    BY <2>1, <2>2
<1> QED
  BY <1>8, <1>9, <1>10, FlashStays

\* While the byte of a step is sent the next bit of it is put out.
LEMMA NextBitSent ==
  ASSUME FlashTypes, chip \in Flashes, chip' = chip, Flash,
         flash_clk = 1, flash_clk' = 0, flash_cs_n = 0,
         NEW s \in Nat, Sends(s)
  PROVE  Sends(s + 1)'
<1> DEFINE from == FlashTransferFromAddress
<1>1. chip.bytes \in Nat \ {0} /\ flash.counter \in -1 .. 22 /\ from \in Nat
  BY ChipIs DEF FlashTypes
<1>2. \A i : stored(i)' = stored(i)
  BY DEF stored
<1>3. \A i \in Nat : stored(i) \in ByteValues
  BY StoredIsAByte
<1>4. CASE s = 0 /\ ~chip.at_rise
  <2>1. /\ flash.state = "ReceiveAddress" /\ flash.counter = -1
        /\ flash.address = from % chip.bytes /\ flash.current_byte = stored(0)
    BY <1>4 DEF Sends
  <2>2. PICK mosi : flash' = ReceiveAddress(mosi)
    BY <1>4, <2>1, FlashMoves
  <2>3. ((from % chip.bytes) + 1) % chip.bytes = (from + 1) % chip.bytes
    BY <1>1, RemainderOfNext
  <2>4. flash' = [state |-> "SendData", counter |-> 5, address |-> (from + 1) % chip.bytes,
                  current_byte |-> shifted(stored(0), 0), miso |-> bit(stored(0), 7)]
    BY <2>1, <2>2, <2>3, FlashRegisters
  <2>5. stored(0) \in ByteValues
    BY <1>3
  <2>6. shifted(stored(0), 0) = (stored(0) * 2 ^ 1) % 256
    BY <2>5 DEF shifted, ByteValues
  <2>7. 1 \div 8 = 0 /\ 1 % 8 = 1 /\ 0 \div 8 = 0 /\ 0 % 8 = 0 /\ from + 0 + 1 = from + 1
    BY <1>1
  <2>8. Sends(1)'
    BY <1>2, <2>4, <2>6, <2>7 DEF Sends
  <2> QED
    BY <1>4, <2>8
<1>5. CASE s > 0 \/ chip.at_rise
  <2> DEFINE byte == stored(s \div 8)
             e == s % 8
             q == s \div 8 + 1
  <2>1. /\ flash.state = "SendData" /\ flash.counter = 6 - e
        /\ flash.address = (from + (s \div 8) + 1) % chip.bytes
        /\ flash.current_byte = (byte * 2 ^ e) % 256
    BY <1>5 DEF Sends
  <2>2. s \div 8 \in Nat /\ e \in 0 .. 7 /\ byte \in ByteValues /\ s = 8 * (s \div 8) + e
    BY <1>3
  <2>3. /\ bit(flash.current_byte, 7) = bit(byte, 7 - e)
        /\ shifted(flash.current_byte, 0) = (byte * 2 ^ (e + 1)) % 256
    <3>1. SentAndRead(byte, e)
      BY <2>2, NextBit
    <3> QED
      BY <2>1, <3>1 DEF SentAndRead
  <2>4. flash' = SendData
    BY <2>1, FlashMoves
  <2>5. flash'.miso = bit(stored(((s + 1) - 1) \div 8), 7 - (((s + 1) - 1) % 8))
    <3>1. (s + 1) - 1 = s
      OBVIOUS
    <3>2. flash'.miso = bit(byte, 7 - e)
      <4> DEFINE top == bit(flash.current_byte, 7)
                 rest == shifted(flash.current_byte, 0)
                 next == chip.content[flash.address]
      <4>1. \/ SendData = [state |-> flash.state, counter |-> flash.counter - 1,
                           address |-> flash.address, current_byte |-> rest, miso |-> top]
            \/ SendData = [state |-> "SendData", counter |-> 6,
                           address |-> (flash.address + 1) % chip.bytes,
                           current_byte |-> next, miso |-> top]
        BY FlashRegisters
      <4> HIDE DEF top, rest, next
      <4>2. SendData.miso = top
        BY <4>1
      <4> QED
        BY <2>3, <2>4, <4>2 DEF top
    <3> QED
      BY <3>1, <3>2
  <2>6. CASE e < 7
    <3>1. flash.counter >= 0
      BY <2>1, <2>2, <2>6
    <3>2. /\ (s + 1) \div 8 = s \div 8 /\ (s + 1) % 8 = e + 1
      BY <2>2, <2>6
    <3>3. flash' = [state |-> "SendData", counter |-> 6 - e - 1,
                    address |-> (from + (s \div 8) + 1) % chip.bytes,
                    current_byte |-> (byte * 2 ^ (e + 1)) % 256, miso |-> flash'.miso]
      BY <2>1, <2>3, <2>4, <3>1, FlashRegisters
    <3>4. s + 1 # 0 /\ 6 - e - 1 = 6 - (e + 1)
      BY <2>2
    <3> HIDE DEF byte, e
    <3>5. /\ flash'.state = "SendData" /\ flash'.counter = 6 - ((s + 1) % 8)
          /\ flash'.address = (from + ((s + 1) \div 8) + 1) % chip.bytes
          /\ flash'.current_byte = (byte * 2 ^ ((s + 1) % 8)) % 256
      BY <3>2, <3>3, <3>4
    <3> QED
      BY <1>2, <2>5, <3>2, <3>4, <3>5 DEF Sends, byte
  <2>7. CASE e = 7
    <3>1. ~(flash.counter >= 0)
      BY <2>1, <2>7
    <3>2. /\ (s + 1) \div 8 = q /\ (s + 1) % 8 = 0 /\ q \in Nat
      BY <2>2, <2>7
    <3>3. /\ from + (s \div 8) + 1 = from + q /\ from + q \in Nat
          /\ (from + q) + 1 = from + q + 1
      BY <1>1, <2>2
    <3> HIDE DEF q
    <3>4. (((from + q) % chip.bytes) + 1) % chip.bytes = (from + q + 1) % chip.bytes
      BY <1>1, <3>3, RemainderOfNext
    <3>5. flash' = [state |-> "SendData", counter |-> 6,
                    address |-> (from + q + 1) % chip.bytes,
                    current_byte |-> stored(q), miso |-> flash'.miso]
      <4>1. flash.address = (from + q) % chip.bytes
        BY <2>1, <3>3
      <4>2. chip.content[flash.address] = stored(q)
        BY <4>1 DEF stored
      <4> QED
        BY <2>4, <3>1, <3>4, <4>1, <4>2, FlashRegisters
    <3>6. stored(q) = (stored(q) * 2 ^ 0) % 256
      <4>1. stored(q) \in ByteValues
        BY <1>3, <3>2
      <4>2. \A x \in ByteValues : x = (x * 2 ^ 0) % 256
        BY DEF ByteValues
      <4> QED
        BY <4>1, <4>2
    <3>7. s + 1 # 0
      OBVIOUS
    <3>8. /\ flash'.state = "SendData" /\ flash'.counter = 6 - ((s + 1) % 8)
          /\ flash'.address = (from + ((s + 1) \div 8) + 1) % chip.bytes
          /\ flash'.current_byte = (stored((s + 1) \div 8) * 2 ^ ((s + 1) % 8)) % 256
      <4>1. /\ flash'.state = "SendData" /\ flash'.counter = 6 - 0
            /\ flash'.address = (from + q + 1) % chip.bytes
        BY <3>5
      <4>2. flash'.current_byte = (stored(q) * 2 ^ 0) % 256
        BY <3>5, <3>6
      <4> QED
        BY <3>2, <4>1, <4>2
    <3> QED
      BY <1>2, <2>5, <3>7, <3>8 DEF Sends
  <2> QED
    BY <2>2, <2>6, <2>7
<1> QED
  <2>1. (s = 0 /\ ~chip.at_rise) \/ s > 0 \/ chip.at_rise
    <3>1. chip.at_rise \in BOOLEAN
      BY ChipIs
    <3>2. s = 0 \/ s > 0
      OBVIOUS
    <3> QED
      BY <3>1, <3>2
  <2> QED
    BY <1>4, <1>5, <2>1

\* The output stays while the flash does.
LEMMA SendsStays ==
  ASSUME NEW s, Sends(s), flash' = flash, chip' = chip
  PROVE  Sends(s)'
BY DEF Sends, stored, bit

LEMMA ReadsStays ==
  ASSUME NEW r, Reads(r), flash_current_byte_out' = flash_current_byte_out, chip' = chip
  PROVE  Reads(r)'
BY DEF Reads, stored

\* The core shifts in the bit that is on the line.
LEMMA NextBitRead ==
  ASSUME flash_current_byte_out \in ByteValues, chip \in Flashes, chip' = chip,
         NEW r \in Nat, Sends(r + 1), Reads(r),
         flash_current_byte_out' = shifted(flash_current_byte_out, flash.miso)
  PROVE  Reads(r + 1)'
<1> DEFINE byte == stored(r \div 8)
           e == r % 8
<1>2. r \div 8 \in Nat /\ e \in 0 .. 7 /\ r = 8 * (r \div 8) + e
  OBVIOUS
<1>3. byte \in ByteValues
  BY <1>2, StoredIsAByte
<1>4. \A a : stored(a)' = stored(a)
  BY DEF stored
<1>5. (r + 1) - 1 = r /\ r + 1 # 0 /\ r + 1 > 0
  OBVIOUS
<1>10. SentAndRead(byte, e)
  BY <1>2, <1>3, NextBit
<1>6. flash.miso = bit(byte, 7 - e) /\ flash.miso \in {0, 1}
  <2>1. flash.miso = bit(byte, 7 - e)
    BY <1>5 DEF Sends
  <2> QED
    BY <1>10, <2>1 DEF SentAndRead
<1>7. flash_current_byte_out' % 2 ^ (e + 1) = byte \div 2 ^ (7 - e)
  <2>1. CASE e = 0
    <3>1. \A x \in ByteValues : \A b \in {0, 1} : shifted(x, b) % 2 ^ 1 = b
      BY DEF shifted, ByteValues
    <3>2. byte \div 2 ^ 7 = bit(byte, 7)
      BY <1>10, <2>1 DEF SentAndRead
    <3>3. e + 1 = 1 /\ 7 - e = 7
      BY <2>1
    <3>4. flash_current_byte_out' % 2 ^ 1 = byte \div 2 ^ 7
      BY <1>6, <2>1, <3>1, <3>2
    <3> QED
      BY <3>3, <3>4
  <2>2. CASE e # 0
    <3>1. e \in 1 .. 7 /\ r > 0
      BY <1>2, <2>2
    <3>2. (r - 1) \div 8 = r \div 8 /\ (r - 1) % 8 = e - 1 /\ (e - 1) + 1 = e
      BY <1>2, <3>1
    <3>3. flash_current_byte_out % 2 ^ e = byte \div 2 ^ (7 - (e - 1))
      BY <3>1, <3>2 DEF Reads
    <3>4. shifted(flash_current_byte_out, flash.miso) % 2 ^ (e + 1)
            = 2 * (flash_current_byte_out % 2 ^ e) + flash.miso
      BY <1>6, <3>1, BitsShift
    <3>5. byte \div 2 ^ (7 - e) = 2 * (byte \div 2 ^ (7 - (e - 1))) + bit(byte, 7 - e)
      BY <1>10, <3>1 DEF SentAndRead
    <3> QED
      BY <1>6, <3>3, <3>4, <3>5
  <2> QED
    BY <2>1, <2>2
<1> QED
  BY <1>4, <1>5, <1>7 DEF Reads

\* Eight bits are a byte.
LEMMA ByteComplete ==
  ASSUME flash_current_byte_out \in ByteValues, chip \in Flashes, NEW j \in Nat, Reads(8 * j + 8)
  PROVE  flash_current_byte_out = stored(j)
<1>1. ((8 * j + 8) - 1) % 8 = 7 /\ ((8 * j + 8) - 1) \div 8 = j /\ 8 * j + 8 > 0
  OBVIOUS
<1>2. flash_current_byte_out % 2 ^ 8 = stored(j) \div 2 ^ 0
  <2>1. 7 + 1 = 8 /\ 7 - 7 = 0
    OBVIOUS
  <2> QED
    BY <1>1, <2>1 DEF Reads
<1>3. stored(j) \in ByteValues
  BY StoredIsAByte
<1>4. \A x \in ByteValues : x % 2 ^ 8 = x /\ x \div 2 ^ 0 = x
  BY DEF ByteValues
<1> QED
  BY <1>2, <1>3, <1>4

-----------------------------------------------------------------------------
(* The registers keep their widths. *)

LEMMA MemoryTypes ==
  ASSUME TypeOK, Store
  PROVE  memory' \in [0 .. RamWords - 1 -> [Lanes -> ByteValues]]
BY DEF TypeOK, Store

LEMMA ClockTypes ==
  ASSUME BootInv, rst_n, BootStep, Flash, Store, Inputs,
         state' = "BootReadData" => flash_current_byte_num' \in Lanes
  PROVE  TypeOK' /\ FlashTypes' /\ chip' \in Flashes
<1>1. TypeOK /\ FlashTypes /\ chip \in Flashes /\ InPhase
  BY DEF BootInv
<1>2. rst_n' \in BOOLEAN /\ hit' \in BOOLEAN /\ chip' = chip
  BY DEF Inputs
<1>3. memory' \in [0 .. RamWords - 1 -> [Lanes -> ByteValues]]
  BY <1>1, MemoryTypes
<1>4. \A b : b \in 0 .. (2 ^ 24 - 1) => bit(b, 23) \in {0, 1} /\ (2 * b) % 2 ^ 24 \in 0 .. (2 ^ 24 - 1)
  BY DEF bit
<1>5. /\ state' \in BootStates \cup {"CpuFetch"} /\ return_state' \in BootStates
      /\ flash_counter' \in Nat
      /\ {flash_clk', flash_mosi', flash_cs_n'} \subseteq {0, 1}
      /\ flash_data_to_send' \in 0..(2^24 - 1) /\ flash_num_bits_to_send' \in 0..31
      /\ flash_current_byte_out' \in ByteValues
      /\ flash_data_out' \in [Lanes -> ByteValues]
      /\ request'.data_in \in [Lanes -> ByteValues]
  <2>1. CASE BootInit
    BY <1>1, <2>1 DEF BootInit, TypeOK, BootStates, sendVars, readVars, portVars
  <2>2. CASE BootLoadCommandToSend
    BY <1>1, <2>2 DEF BootLoadCommandToSend, TypeOK, BootStates, readVars, portVars
  <2>3. CASE BootLoadAddressToSend
    BY <1>1, <2>3, BootAssumption DEF BootLoadAddressToSend, TypeOK, BootStates, portVars
  <2>4. CASE BootSend
    <3>1. CASE flash_counter = 0
      BY <1>1, <1>4, <2>4, <3>1 DEF BootSend, TypeOK, BootStates, readVars, portVars
    <3>2. CASE flash_counter # 0
      BY <1>1, <2>4, <3>2 DEF BootSend, TypeOK, BootStates, readVars, portVars
    <3> QED
      BY <3>1, <3>2
  <2>5. CASE BootReadData
    <3>1. flash.miso \in {0, 1}
      BY <1>1 DEF FlashTypes
    <3>2. \A byte \in ByteValues : \A b \in {0, 1} : shifted(byte, b) \in ByteValues
      BY DEF shifted, ByteValues
    <3>3. [flash_data_out EXCEPT ![flash_current_byte_num] = flash_current_byte_out]
            \in [Lanes -> ByteValues]
      BY <1>1 DEF TypeOK
    <3> QED
      BY <1>1, <2>5, <3>1, <3>2, <3>3
         DEF BootReadData, ByteIsRead, TypeOK, BootStates, sendVars, portVars
  <2>6. CASE BootStartWrite
    BY <1>1, <2>6 DEF BootStartWrite, TypeOK, BootStates, sendVars, readVars, portVars
  <2>7. CASE BootWrite
    <3>1. PICK w \in Nat : WritingWord(w)
      BY <1>1, <2>7 DEF BootWrite, InPhase
    <3>2. request = [enable |-> TRUE, read |-> 0, write |-> 4, address |-> 4 * w,
                     data_in |-> image(w)]
      BY <3>1 DEF WritingWord
    <3>3. [request EXCEPT !.enable = FALSE].data_in = request.data_in
      BY <3>2
    <3>4. request'.data_in = request.data_in
      <4> DEFINE words == request.data_in
                 fetch == [enable |-> TRUE, read |-> 4, write |-> 0, address |-> 0,
                           data_in |-> words]
      <4>1. \/ request' = request
            \/ request' = [request EXCEPT !.enable = FALSE]
            \/ request' = fetch
        BY <2>7 DEF BootWrite, StartCpu
      <4>2. fetch.data_in = words
        <5> HIDE DEF words
        <5> QED
          OBVIOUS
      <4> HIDE DEF fetch
      <4> QED
        BY <3>3, <4>1, <4>2
    <3> QED
      BY <1>1, <2>7, <3>4 DEF BootWrite, StartCpu, TypeOK, BootStates, sendVars
  <2> QED
    BY <2>1, <2>2, <2>3, <2>4, <2>5, <2>6, <2>7 DEF BootStep
<1>6. FlashTypes'
  <2>1. {flash_mosi, flash_clk, flash_cs_n} \subseteq {0, 1}
    BY <1>1 DEF TypeOK
  <2> QED
    BY <1>1, <1>2, <1>5, <2>1, FlashTypesStep
<1>7. flash'.counter \in -1 .. 22 /\ flash'.address \in 0 .. (chip'.bytes - 1)
  BY <1>2, <1>6 DEF FlashTypes
<1> QED
  BY <1>1, <1>2, <1>3, <1>5, <1>6, <1>7 DEF TypeOK

-----------------------------------------------------------------------------
(* Each state of the boot leads to the next one.  The lemmas are about one edge of the *)
(* clock at which reset is not asserted.                                               *)

LEMMA InitPhase ==
  ASSUME BootInv, rst_n, BootInit, Flash, Store, Inputs
  PROVE  InPhase'
<1>1. AtReset /\ state = "BootInit"
  BY DEF BootInv, InPhase, BootInit
<1>2. flash' = flash /\ flash_clk' = 0 /\ flash_cs_n' = 1
  BY <1>1, FlashStays DEF BootInit, AtReset
<1>3. request' = request /\ ramio_address_next' = ramio_address_next
  BY DEF BootInit, portVars
<1>4. Nothing_asked' /\ flash' = FlashAtReset
  BY <1>1, <1>2, <1>3 DEF AtReset, Nothing_asked, NoRequest, Lanes
<1>5. state' \in {"BootInit", "BootLoadCommandToSend"}
  BY <1>1 DEF BootInit
<1>6. state' = "BootLoadCommandToSend" => flash_counter' = 0
  BY <1>1 DEF BootInit
<1>7. AtReset'
  BY <1>2, <1>4, <1>6 DEF AtReset, FlashAtReset
<1> QED
  BY <1>5, <1>7 DEF InPhase

LEMMA LoadCommandPhase ==
  ASSUME BootInv, rst_n, BootLoadCommandToSend, Flash, Store, Inputs
  PROVE  InPhase'
<1>1. AtReset /\ flash_counter = 0
  BY DEF BootInv, InPhase, BootLoadCommandToSend, AtReset
<1>2. flash' = flash /\ flash_clk' = 0
  BY <1>1, FlashStays DEF BootLoadCommandToSend, AtReset
<1>3. flash'.state = "ReceiveCommand" /\ flash'.counter = 6 /\ flash'.address = 0
  BY <1>1, <1>2 DEF AtReset, FlashAtReset
<1>4. Nothing_asked'
  BY <1>1 DEF BootLoadCommandToSend, portVars, AtReset, Nothing_asked, NoRequest, Lanes
<1>5. InCommand'
  BY <1>1, <1>2, <1>3, <1>4 DEF BootLoadCommandToSend, InCommand
<1> QED
  BY <1>5 DEF BootLoadCommandToSend, InPhase

LEMMA LoadAddressPhase ==
  ASSUME BootInv, rst_n, BootLoadAddressToSend, Flash, Store, Inputs
  PROVE  InPhase'
<1>1. BeforeAddress
  BY DEF BootInv, InPhase, BootLoadAddressToSend
<1>2. /\ flash' = flash /\ flash_clk' = 1 /\ flash_cs_n' = 0 /\ flash_counter' = 0
      /\ flash_current_byte_num' = 0 /\ chip' = chip /\ chip \in Flashes
  BY <1>1, FlashStays DEF BootLoadAddressToSend, BeforeAddress, BootInv, Inputs
<1>3. Nothing_asked'
  BY <1>1 DEF BootLoadAddressToSend, portVars, BeforeAddress, Nothing_asked, NoRequest, Lanes
<1>4. flash_data_to_send' = FlashTransferFromAddress /\ flash_num_bits_to_send' = 24
  BY DEF BootLoadAddressToSend
<1>5. RestOfAddress'
  <2>1. 24 - 24 = 0 /\ FlashTransferFromAddress \in 0 .. (2 ^ 24 - 1)
    BY BootAssumption
  <2>2. \A x \in 0 .. (2 ^ 24 - 1) : x = (x * 2 ^ 0) % 2 ^ 24
    OBVIOUS
  <2> QED
    BY <1>4, <2>1, <2>2 DEF RestOfAddress
<1>6. CASE chip.at_rise
  <2>1. Sent(24) % chip.bytes = 0
    <3>1. 24 - 24 = 0 /\ FlashTransferFromAddress \in 0 .. (2 ^ 24 - 1)
      BY BootAssumption
    <3>2. \A x \in 0 .. (2 ^ 24 - 1) : (x * 2 ^ 0) \div 2 ^ 24 = 0
      OBVIOUS
    <3>3. 0 % chip.bytes = 0
      <4>1. \A m \in Nat \ {0} : 0 % m = 0
        OBVIOUS
      <4> QED
        BY <1>2, <4>1, ChipIs
    <3> QED
      BY <3>1, <3>2, <3>3 DEF Sent
  <2>2. flash'.state = "ReceiveAddress" /\ flash'.counter = 22 /\ flash'.address = 0
    BY <1>1, <1>2, <1>6 DEF BeforeAddress, AwaitsAddress
  <2>3. (Sent(24) % chip.bytes)' = Sent(24) % chip.bytes
    BY <1>2 DEF Sent
  <2>4. BoardInAddress'
    BY <1>2, <1>4, <2>1, <2>2, <2>3 DEF BoardInAddress, Sent
  <2> QED
    <3>1. InAddress'
      BY <1>2, <1>3, <1>5, <1>6, <2>4 DEF InAddress
    <3> QED
      BY <3>1 DEF BootLoadAddressToSend, InPhase
<1>7. CASE ~chip.at_rise
  <2>1. 24 <= ZeroBits => flash_data_to_send' = 0
    <3>1. 24 <= ZeroBits => ZeroBits = 24
      BY <1>2, <1>7, LowBitsAre
    <3> QED
      BY <1>2, <1>4, <1>5, <1>7, <3>1, RestVanishes DEF RestOfAddress
  <2>2. ZeroBits' = ZeroBits
    BY <1>2 DEF ZeroBits, LowBits
  <2>3. flash'.state = "ReceiveCommand" /\ flash'.counter = -1
    BY <1>1, <1>2, <1>7 DEF BeforeAddress, AwaitsAddress
  <2>4. EmulatedInAddress'
    BY <1>2, <1>4, <2>1, <2>2, <2>3 DEF EmulatedInAddress
  <2> QED
    <3>1. InAddress'
      BY <1>2, <1>3, <1>5, <1>7, <2>4 DEF InAddress
    <3> QED
      BY <3>1 DEF BootLoadAddressToSend, InPhase
<1>8. chip.at_rise \in BOOLEAN
  BY <1>2, ChipIs
<1> QED
  BY <1>6, <1>7, <1>8

LEMMA SendCommandPhase ==
  ASSUME BootInv, rst_n, BootSend, Flash, Store, Inputs,
         return_state = "BootLoadAddressToSend", InCommand
  PROVE  InPhase'
<1> DEFINE n == flash_num_bits_to_send
<1>1. /\ Nothing_asked' /\ flash_cs_n' = 0 /\ return_state' = return_state
  BY DEF BootSend, portVars, InCommand, Nothing_asked, NoRequest, Lanes
<1>2. /\ n \in 0 .. 31 /\ chip' = chip /\ chip.at_rise \in BOOLEAN /\ FlashTypes
      /\ flash.state = "ReceiveCommand" /\ flash.address = 0
  BY ChipIs DEF BootInv, TypeOK, Inputs, InCommand
<1>3. /\ flash.counter >= 0 =>
           ReceiveCommand = [state |-> flash.state, counter |-> flash.counter - 1,
                             address |-> flash.address, current_byte |-> flash.current_byte,
                             miso |-> flash.miso]
      /\ ~(flash.counter >= 0) =>
           ReceiveCommand = [state |-> "ReceiveAddress", counter |-> 22,
                             address |-> flash.address, current_byte |-> flash.current_byte,
                             miso |-> flash.miso]
  BY <1>2, FlashRegisters
<1>4. CASE flash_counter = 0 /\ n = 8 /\ flash_clk = 0
  <2>1. flash_counter' = 1 /\ flash_clk' = 0 /\ flash_num_bits_to_send' = 7 /\ state' = "BootSend"
    BY <1>4 DEF BootSend
  <2>2. flash' = flash /\ flash.counter = 6
    BY <1>4, <2>1, FlashStays DEF InCommand
  <2>3. InCommand'
    BY <1>1, <1>2, <2>1, <2>2 DEF InCommand, ahead
  <2> QED
    BY <1>1, <2>1, <2>3 DEF InPhase
<1>5. CASE flash_counter = 0 /\ flash_clk = 1 /\ n \in 1 .. 7
  <2>1. /\ flash_counter' = 1 /\ flash_clk' = 0 /\ state' = "BootSend"
        /\ flash_num_bits_to_send' = n - 1
    BY <1>5 DEF BootSend
  <2>2. flash'.state = "ReceiveCommand" /\ flash'.address = 0 /\ flash'.counter = n - 2
    <3>1. CASE chip.at_rise
      <4>1. flash' = flash /\ flash.counter = n - 2
        BY <1>2, <1>5, <2>1, <3>1, FlashMoves DEF InCommand, ahead
      <4> QED
        BY <1>2, <4>1
    <3>2. CASE ~chip.at_rise
      <4>1. flash.counter = n - 1 /\ flash' = ReceiveCommand
        BY <1>2, <1>5, <2>1, <3>2, FlashMoves DEF InCommand, ahead
      <4> QED
        BY <1>2, <1>3, <1>5, <4>1
    <3> QED
      BY <1>2, <3>1, <3>2
  <2>3. InCommand'
    BY <1>1, <1>2, <1>5, <2>1, <2>2 DEF InCommand, ahead
  <2> QED
    BY <1>1, <2>1, <2>3 DEF InPhase
<1>6. CASE flash_counter = 1
  <2>1. n \in 0 .. 7 /\ flash_clk = 0 /\ flash_cs_n = 0 /\ flash.counter = n - 1
    BY <1>2, <1>6 DEF InCommand, ahead
  <2>2. /\ flash_counter' = 0 /\ flash_clk' = 1 /\ flash_num_bits_to_send' = n
        /\ state' = IF n = 0 THEN return_state ELSE state
    BY <1>6 DEF BootSend
  <2>3. /\ chip.at_rise => flash' = ReceiveCommand
        /\ ~chip.at_rise => flash' = flash
    BY <1>2, <2>1, <2>2, FlashTakes, FlashStays
  <2>4. CASE n = 0
    <3>1. AwaitsAddress'
      <4>1. CASE chip.at_rise
        BY <1>2, <1>3, <2>1, <2>3, <2>4, <4>1 DEF AwaitsAddress
      <4>2. CASE ~chip.at_rise
        BY <1>2, <2>1, <2>3, <2>4, <4>2 DEF AwaitsAddress
      <4> QED
        BY <1>2, <4>1, <4>2
    <3>2. BeforeAddress' /\ state' = "BootLoadAddressToSend"
      BY <1>1, <2>2, <2>4, <3>1 DEF BeforeAddress
    <3> QED
      BY <3>2 DEF InPhase
  <2>5. CASE n # 0
    <3>1. /\ flash'.state = "ReceiveCommand" /\ flash'.address = 0
          /\ flash'.counter = n - 1 - ahead'
      <4>1. CASE chip.at_rise
        BY <1>2, <1>3, <2>1, <2>2, <2>3, <2>5, <4>1 DEF ahead
      <4>2. CASE ~chip.at_rise
        BY <1>2, <2>1, <2>2, <2>3, <4>2 DEF ahead
      <4> QED
        BY <1>2, <4>1, <4>2
    <3>2. n \in 1 .. 7
      BY <2>1, <2>5
    <3>3. InCommand' /\ state' = "BootSend"
      BY <1>1, <2>2, <2>5, <3>1, <3>2 DEF InCommand, BootSend
    <3> QED
      BY <1>1, <3>3 DEF InPhase
  <2> QED
    BY <2>4, <2>5
<1> QED
  BY <1>4, <1>5, <1>6 DEF InCommand

\* With the last bit of the address the first bit of the first byte can be asked for.
LEMMA AddressIsSent ==
  ASSUME BootInv, InAddress, BootSend, Flash, Inputs, flash_counter = 1,
         flash_num_bits_to_send = 0, return_state = "BootReadData", Sends(0)'
  PROVE  InPhase'
<1>1. /\ Nothing_asked' /\ flash_cs_n' = 0 /\ flash_current_byte_num' = 0
  BY DEF BootSend, portVars, readVars, InAddress, Nothing_asked, NoRequest, Lanes
<1>2. flash_counter' = 0 /\ flash_clk' = 1 /\ state' = "BootReadData"
  BY DEF BootSend
<1>3. Reads(0)'
  BY DEF Reads
<1>4. InData'
  <2>1. 0 \in Nat /\ 0 = (0 + 1) \div 2 /\ 0 = 0 \div 2 /\ 1 = 1 - (0 % 2)
    OBVIOUS
  <2> QED
    BY <1>1, <1>2, <1>3, <2>1 DEF InData
<1>5. ReadingWord(0)'
  <2>1. /\ ramio_address_next' = 0 /\ request'.enable = FALSE
    BY <1>1 DEF Nothing_asked, NoRequest
  <2>2. 4 * 0 < FlashTransferByteCount
    BY BootAssumption
  <2>3. Copied(0)'
    BY DEF Copied
  <2> QED
    BY <1>1, <1>2, <2>1, <2>2, <2>3 DEF ReadingWord, InWord, bytes_taken, Lanes
<1> QED
  BY <1>2, <1>4, <1>5 DEF InPhase

\* The shift register puts out the address from its highest bit on.
LEMMA AddressShifts ==
  ASSUME BootInv, InAddress, BootSend, flash_counter = 0, flash_num_bits_to_send \in 1 .. 24
  PROVE  /\ flash_mosi' = bit(flash_data_to_send, 23)
         /\ flash_data_to_send' = (2 * flash_data_to_send) % 2 ^ 24
         /\ flash_num_bits_to_send' = flash_num_bits_to_send - 1
         /\ flash_clk' = 0 /\ flash_counter' = 1 /\ state' = "BootSend"
         /\ flash_mosi' \in {0, 1} /\ RestOfAddress'
<1>1. /\ flash_mosi' = bit(flash_data_to_send, 23)
      /\ flash_data_to_send' = (2 * flash_data_to_send) % 2 ^ 24
      /\ flash_num_bits_to_send' = flash_num_bits_to_send - 1
      /\ flash_clk' = 0 /\ flash_counter' = 1 /\ state' = "BootSend"
  BY DEF BootSend
<1>2. RestOfAddress'
  BY <1>1, ShiftedRest DEF RestOfAddress, InAddress
<1>3. flash_mosi' \in {0, 1}
  BY <1>1 DEF bit, BootInv, TypeOK
<1> QED
  BY <1>1, <1>2, <1>3

\* What has been sent of the address, bit by bit.
LEMMA SentNext ==
  ASSUME NEW n \in 1 .. 24
  PROVE  Sent(n - 1)
         = 2 * Sent(n) + bit((FlashTransferFromAddress * 2 ^ (24 - n)) % 2 ^ 24, 23)
<1> DEFINE x == FlashTransferFromAddress * 2 ^ (24 - n)
<1>1. 24 - n \in 0 .. 23 /\ 24 - n \in 0 .. 24 /\ 24 - (n - 1) = (24 - n) + 1
  OBVIOUS
<1>2. 2 ^ (24 - (n - 1)) = 2 * 2 ^ (24 - n) /\ 2 ^ (24 - n) \in Nat
  BY <1>1, Doubles
<1>3. x \in Nat /\ FlashTransferFromAddress * 2 ^ (24 - (n - 1)) = 2 * x
  <2>1. FlashTransferFromAddress \in Nat
    BY BootAssumption
  <2> QED
    BY <1>2, <2>1
<1>4. \A y \in Nat : (2 * y) \div 2 ^ 24
                      = 2 * (y \div 2 ^ 24) + (((y % 2 ^ 24) \div 2 ^ 23) % 2)
  OBVIOUS
<1> HIDE DEF x
<1>5. (2 * x) \div 2 ^ 24 = 2 * (x \div 2 ^ 24) + bit(x % 2 ^ 24, 23)
  BY <1>3, <1>4 DEF bit
<1> QED
  BY <1>3, <1>5 DEF Sent, x

LEMMA SentAll ==
  /\ Sent(0) = FlashTransferFromAddress
  /\ \A n \in 0 .. 24 : Sent(n) \in Nat
<1>1. FlashTransferFromAddress \in Nat
  BY BootAssumption
<1>2. Sent(0) = FlashTransferFromAddress
  <2>1. 24 - 0 = 24
    OBVIOUS
  <2>2. \A x \in Nat : (x * 2 ^ 24) \div 2 ^ 24 = x
    OBVIOUS
  <2> QED
    BY <1>1, <2>1, <2>2 DEF Sent
<1>3. ASSUME NEW n \in 0 .. 24 PROVE Sent(n) \in Nat
  <2>1. 2 ^ (24 - n) \in Nat
    <3>1. 24 - n \in 0 .. 24
      OBVIOUS
    <3> QED
      BY <3>1, Doubles
  <2>2. FlashTransferFromAddress * 2 ^ (24 - n) \in Nat
    BY <1>1, <2>1
  <2>3. \A x \in Nat : x \div 2 ^ 24 \in Nat
    OBVIOUS
  <2> QED
    BY <2>2, <2>3 DEF Sent
<1> QED
  BY <1>2, <1>3

\* The address in the flash follows what has been sent.
LEMMA AddressFollows ==
  ASSUME NEW x \in Nat, NEW b \in {0, 1}, NEW m \in Nat \ {0}
  PROVE  (2 * (x % m) + b) % m = (2 * x + b) % m
<1> DEFINE q == x \div m
           r == x % m
           y == 2 * r + b
<1>1. x = m * q + r /\ q \in Nat /\ r \in Nat
  OBVIOUS
<1> HIDE DEF q, r
<1>2. y = m * (y \div m) + (y % m) /\ y \div m \in Nat /\ y % m \in 0 .. m - 1
  BY <1>1
<1>3. 2 * x + b = m * (2 * q) + y
  BY <1>1
<1> HIDE DEF y
<1>4. 2 * x + b = m * (2 * q + y \div m) + (y % m)
  BY <1>1, <1>2, <1>3
<1>5. 2 * x + b \in Nat /\ 2 * q + y \div m \in Int
  BY <1>1, <1>2
<1>6. (2 * x + b) % m = y % m
  BY <1>2, <1>4, <1>5, RemainderIs
<1> QED
  BY <1>6 DEF y, r

LEMMA BoardSendAddressPhase ==
  ASSUME BootInv, rst_n, BootSend, Flash, Store, Inputs,
         return_state = "BootReadData", InAddress, chip.at_rise
  PROVE  InPhase'
<1> DEFINE n == flash_num_bits_to_send
           from == FlashTransferFromAddress
<1>1. /\ Nothing_asked' /\ flash_cs_n' = 0 /\ return_state' = return_state
      /\ flash_current_byte_num' = 0 /\ flash_cs_n = 0
  BY DEF BootSend, portVars, readVars, InAddress, Nothing_asked, NoRequest, Lanes
<1>2. /\ FlashTypes /\ chip \in Flashes /\ chip' = chip /\ chip.bytes \in Nat \ {0}
      /\ flash_mosi \in {0, 1} /\ n \in 0 .. 31 /\ from \in Nat
  BY ChipIs DEF BootInv, TypeOK, Inputs
<1>3. BoardInAddress
  BY DEF InAddress
<1>4. \A k : Sent(k)' = Sent(k)
  BY DEF Sent
<1>5. CASE flash_counter = 0
  <2>1. n \in 1 .. 24 /\ flash_clk = 1 /\ n + 0 = n /\ n - 2 + 0 = n - 2
    BY <1>2, <1>3, <1>5 DEF BoardInAddress
  <2>2. /\ flash.state = "ReceiveAddress" /\ flash.counter = n - 2
        /\ flash.address = Sent(n) % chip.bytes
    BY <1>3, <1>5, <2>1 DEF BoardInAddress
  <2>3. /\ flash_mosi' = bit(flash_data_to_send, 23) /\ flash_num_bits_to_send' = n - 1
        /\ flash_clk' = 0 /\ flash_counter' = 1 /\ state' = "BootSend" /\ RestOfAddress'
    BY <1>5, <2>1, AddressShifts
  <2>4. flash' = flash
    BY <1>1, <2>1, <2>2, <2>3, FlashMoves
  <2>5. Sent(n - 1) = 2 * Sent(n) + flash_mosi'
    BY <2>1, <2>3, SentNext DEF InAddress, RestOfAddress
  <2>6. (n - 1) + 1 = n /\ (n - 1) - 2 + 1 = n - 2 /\ n - 1 \in 1 - 1 .. 24 - 1
    BY <2>1
  <2>7. BoardInAddress'
    BY <1>2, <1>4, <2>2, <2>3, <2>4, <2>5, <2>6 DEF BoardInAddress
  <2> QED
    BY <1>1, <1>2, <2>3, <2>7 DEF InAddress, InPhase
<1>6. CASE flash_counter = 1
  <2>1. /\ n \in 0 .. 23 /\ flash_clk = 0 /\ flash.state = "ReceiveAddress"
        /\ flash.counter = n - 1 /\ flash.address = Sent(n + 1) % chip.bytes
        /\ Sent(n) = 2 * Sent(n + 1) + flash_mosi
    BY <1>2, <1>3, <1>6 DEF BoardInAddress
  <2>2. /\ flash_counter' = 0 /\ flash_clk' = 1 /\ flash_num_bits_to_send' = n
        /\ flash_data_to_send' = flash_data_to_send
        /\ state' = IF n = 0 THEN return_state ELSE state
    BY <1>6 DEF BootSend
  <2>3. flash' = TakeAddress(flash_mosi)
    BY <1>1, <2>1, <2>2, FlashTakes
  <2> DEFINE here == Sent(n) % chip.bytes
  <2>4. here = (2 * flash.address + flash_mosi) % chip.bytes
    <3>1. Sent(n + 1) \in Nat
      BY <2>1, SentAll
    <3> QED
      <4> DEFINE x == Sent(n + 1)
                 m == chip.bytes
      <4>1. (2 * (x % m) + flash_mosi) % m = (2 * x + flash_mosi) % m
        BY <1>2, <3>1, AddressFollows
      <4> QED
        BY <2>1, <4>1
  <2>5. CASE n # 0
    <3>1. flash.counter >= 0 /\ n \in 1 .. 23
      BY <2>1, <2>5
    <3>2. flash' = [state |-> flash.state, counter |-> flash.counter - 1, address |-> here,
                    current_byte |-> flash.current_byte, miso |-> flash.miso]
      BY <1>2, <2>3, <2>4, <3>1, TakesAddress
    <3>3. /\ flash'.state = "ReceiveAddress" /\ flash'.counter = n - 2 + 0
          /\ flash'.address = Sent(n + 0) % chip.bytes
      <4>1. n + 0 = n /\ n - 2 + 0 = n - 1 - 1
        BY <2>1
      <4> QED
        BY <2>1, <3>2, <4>1
    <3>4. n \in 1 - 0 .. 24 - 0
      BY <3>1
    <3>5. BoardInAddress'
      BY <1>2, <1>4, <2>2, <3>3, <3>4 DEF BoardInAddress
    <3>6. RestOfAddress'
      BY <2>2 DEF RestOfAddress, InAddress
    <3>7. state' = "BootSend"
      BY <2>2, <2>5 DEF BootSend
    <3> QED
      BY <1>1, <1>2, <3>5, <3>6, <3>7 DEF InAddress, InPhase
  <2>6. CASE n = 0
    <3>1. ~(flash.counter >= 0)
      BY <2>1, <2>6
    <3>2. flash' = [state |-> "SendData", counter |-> 6, address |-> (here + 1) % chip.bytes,
                    current_byte |-> chip.content[here], miso |-> flash.miso]
      BY <1>2, <2>3, <2>4, <3>1, TakesAddress
    <3>3. here = from % chip.bytes /\ here = (from + 0) % chip.bytes
      BY <1>2, <2>6, SentAll
    <3>4. (here + 1) % chip.bytes = (from + 0 + 1) % chip.bytes
      BY <1>2, <3>3, RemainderOfNext
    <3>5. chip.content[here] = (stored(0) * 2 ^ 0) % 256
      <4>1. chip.content[here] = stored(0) /\ stored(0) \in ByteValues
        BY <1>2, <3>3, StoredIsAByte DEF stored
      <4>2. \A x \in ByteValues : x = (x * 2 ^ 0) % 256
        BY DEF ByteValues
      <4> QED
        BY <4>1, <4>2
    <3> HIDE DEF here
    <3>6. /\ flash'.state = "SendData" /\ flash'.counter = 6 - 0
          /\ flash'.address = (from + 0 + 1) % chip.bytes
          /\ flash'.current_byte = (stored(0) * 2 ^ 0) % 256
      BY <3>2, <3>4, <3>5
    <3>7. 0 \div 8 = 0 /\ 0 % 8 = 0 /\ stored(0)' = stored(0)
      BY <1>2 DEF stored
    <3>8. Sends(0)'
      BY <1>2, <3>6, <3>7 DEF Sends
    <3> QED
      BY <1>6, <2>6, <3>8, AddressIsSent
  <2> QED
    BY <2>5, <2>6
<1> QED
  BY <1>3, <1>5, <1>6 DEF BoardInAddress

LEMMA EmulatedSendAddressPhase ==
  ASSUME BootInv, rst_n, BootSend, Flash, Store, Inputs,
         return_state = "BootReadData", InAddress, ~chip.at_rise
  PROVE  InPhase'
<1> DEFINE n == flash_num_bits_to_send
           d == flash_data_to_send
           from == FlashTransferFromAddress
<1>1. /\ Nothing_asked' /\ flash_cs_n' = 0 /\ return_state' = return_state
      /\ flash_current_byte_num' = 0
  BY DEF BootSend, portVars, readVars, InAddress, Nothing_asked, NoRequest, Lanes
<1>2. /\ FlashTypes /\ chip \in Flashes /\ chip' = chip /\ d \in 0 .. (2 ^ 24 - 1)
      /\ flash.address \in 0 .. chip.bytes - 1 /\ flash.current_byte \in ByteValues
      /\ flash_mosi \in {0, 1}
  BY DEF BootInv, TypeOK, FlashTypes, Inputs
<1>3. /\ LowBits \in 0 .. 22 /\ ZeroBits = LowBits + 2 /\ chip.bytes = 2 ^ LowBits
      /\ chip.bytes \in Nat \ {0} /\ from % chip.bytes = 0
      /\ LowBits' = LowBits /\ ZeroBits' = ZeroBits /\ EmulatedInAddress
  BY <1>2, LowBitsAre, ChipIs DEF LowBits, ZeroBits, InAddress
\* a bit goes out: the shift register, and what is known of flash_mosi
<1>4. ASSUME flash_counter = 0, n \in 1 .. 24
      PROVE  /\ RestOfAddress'
             /\ flash_num_bits_to_send' = n - 1
             /\ n - 1 <= ZeroBits => flash_data_to_send' = 0
             /\ n - 1 < ZeroBits => flash_mosi' = 0
             /\ flash_mosi' \in {0, 1} /\ flash_clk' = 0 /\ flash_counter' = 1
             /\ state' = "BootSend"
  <2>1. /\ flash_mosi' = bit(d, 23) /\ flash_data_to_send' = (2 * d) % 2 ^ 24
        /\ flash_num_bits_to_send' = n - 1 /\ flash_clk' = 0 /\ flash_counter' = 1
        /\ state' = "BootSend" /\ flash_mosi' \in {0, 1}
    BY <1>4, AddressShifts
  <2>2. RestOfAddress'
    BY <1>4, AddressShifts
  <2>3. d = 0 => flash_mosi' = 0 /\ flash_data_to_send' = 0
    <3>1. bit(0, 23) = 0 /\ (2 * 0) % 2 ^ 24 = 0
      BY DEF bit
    <3> QED
      BY <2>1, <3>1
  <2>4. n <= ZeroBits => d = 0
    BY <1>3 DEF EmulatedInAddress
  <2>5. n - 1 = ZeroBits => flash_data_to_send' = 0
    BY <1>2, <2>1, <2>2, RestVanishes DEF RestOfAddress
  <2>6. n - 1 <= ZeroBits => n <= ZeroBits \/ n - 1 = ZeroBits
    BY <1>3, <1>4
  <2>7. n - 1 < ZeroBits => n <= ZeroBits
    BY <1>3, <1>4
  <2> QED
    BY <2>1, <2>2, <2>3, <2>4, <2>5, <2>6, <2>7
\* once as many bits as flash.sv keeps are left, any address is a multiple
<1>5. \A a \in Nat : (a * 2 ^ LowBits) % chip.bytes = 0
  <2>1. ASSUME NEW a \in Nat PROVE (a * 2 ^ LowBits) % chip.bytes = 0
    <3>1. a * chip.bytes \in Nat /\ a * chip.bytes = chip.bytes * a /\ a \in Int
      BY <1>3
    <3>2. (a * chip.bytes) % chip.bytes = 0
      BY <1>3, <3>1, NothingRemains
    <3> QED
      BY <1>3, <3>2
  <2> QED
    BY <2>1
<1>6. CASE flash_counter = 0 /\ n = 24 /\ flash_clk = 1 /\ flash.state = "ReceiveCommand"
  <2>1. flash.counter = -1
    BY <1>3, <1>6 DEF EmulatedInAddress
  <2>2. flash' = ReceiveCommand
    BY <1>4, <1>6, FlashMoves DEF InAddress
  <2>3. flash'.state = "ReceiveAddress" /\ flash'.counter = 22 /\ flash'.address = flash.address
    BY <1>2, <2>1, <2>2, FlashRegisters
  <2>4. 23 \in 1 .. LowBits + 1 => (flash'.address * 2 ^ (23 - 1)) % chip.bytes = 0
    <3>1. 23 \in 1 .. LowBits + 1 => LowBits = 22 /\ 23 - 1 = 22
      BY <1>3
    <3> QED
      BY <1>2, <1>3, <1>5, <2>3, <3>1
  <2>5. InAddress'
    <3>1. EmulatedInAddress'
      BY <1>2, <1>3, <1>4, <1>6, <2>3, <2>4 DEF EmulatedInAddress
    <3> QED
      BY <1>1, <1>2, <1>4, <1>6, <3>1 DEF InAddress
  <2> QED
    BY <1>1, <1>4, <1>6, <2>5 DEF InPhase
<1>7. CASE flash_counter = 0 /\ flash_clk = 1 /\ n \in 1 .. 23 /\ flash.state = "ReceiveAddress"
  <2>1. flash.counter = n - 1 /\ flash.counter >= 0
    BY <1>3, <1>7 DEF EmulatedInAddress
  <2>2. PICK mosi \in {flash_mosi, flash_mosi'} : flash' = ReceiveAddress(mosi)
    BY <1>4, <1>7, FlashMoves DEF InAddress
  <2>3. /\ flash'.state = "ReceiveAddress" /\ flash'.counter = n - 2
        /\ flash'.address = (2 * flash.address + mosi) % chip.bytes
        /\ flash'.current_byte = chip.content[flash.address]
    <3>1. n - 1 - 1 = n - 2
      BY <1>7
    <3> QED
      BY <1>2, <1>7, <2>1, <2>2, <3>1, FlashRegisters
  <2>4. n < ZeroBits => mosi = 0
    <3>1. n < ZeroBits => flash_mosi = 0
      BY <1>3, <1>7 DEF EmulatedInAddress
    <3>2. n < ZeroBits => flash_mosi' = 0
      BY <1>3, <1>4, <1>7
    <3> QED
      BY <2>2, <3>1, <3>2
  <2>5. mosi \in {0, 1}
    BY <1>2, <1>4, <1>7, <2>2
  <2>6. n \in 1 .. LowBits + 1 => (flash.address * 2 ^ (n - 1)) % chip.bytes = 0
    BY <1>3, <1>7 DEF EmulatedInAddress
  <2>7. ASSUME n - 1 \in 1 .. LowBits + 1
        PROVE  (flash'.address * 2 ^ ((n - 1) - 1)) % chip.bytes = 0
    <3>1. CASE n - 1 = LowBits + 1
      <4>1. (n - 1) - 1 = LowBits /\ (2 * flash.address + mosi) % chip.bytes \in Nat
        BY <1>2, <1>3, <1>7, <2>5, <3>1
      <4> QED
        BY <1>5, <2>3, <4>1
    <3>2. CASE n - 1 < LowBits + 1
      <4>1. n \in 1 .. LowBits + 1 /\ n < ZeroBits /\ n - 2 \in 0 .. 23 /\ n - 2 \in 0 .. 24
            /\ n - 1 = (n - 2) + 1 /\ (n - 1) - 1 = n - 2
        BY <1>3, <1>7, <2>7, <3>2
      <4>2. 2 ^ (n - 1) = 2 * 2 ^ (n - 2) /\ 2 ^ (n - 2) \in Nat
        BY <4>1, Doubles
      <4>3. (flash.address * (2 * 2 ^ (n - 2))) % chip.bytes = 0
        BY <2>6, <4>1, <4>2
      <4>4. flash.address \in Nat
        BY <1>2, <1>3
      <4>5. (((2 * flash.address) % chip.bytes) * 2 ^ (n - 2)) % chip.bytes = 0
        BY <1>3, <4>2, <4>3, <4>4, ShiftedMultiple
      <4>6. flash'.address = (2 * flash.address) % chip.bytes
        BY <2>3, <2>4, <4>1, <4>4
      <4> QED
        BY <4>1, <4>5, <4>6
    <3> QED
      BY <1>3, <1>7, <2>7, <3>1, <3>2
  <2>8. ASSUME n = 1
        PROVE  /\ flash'.address = from % chip.bytes
               /\ flash'.current_byte = stored(0)
    <3>1. n \in 1 .. LowBits + 1 /\ n < ZeroBits /\ n - 1 = 0
      BY <1>3, <2>8
    <3>2. (flash.address * 2 ^ 0) % chip.bytes = 0
      BY <2>6, <3>1
    <3>3. flash.address = 0
      BY <1>2, <1>3, <3>2
    <3>4. mosi = 0 /\ (2 * 0 + 0) % chip.bytes = 0
      BY <1>3, <2>4, <3>1
    <3>5. chip.content[0] = stored(0)
      <4>1. from + 0 = from
        BY <1>2, ChipIs
      <4> QED
        BY <1>3, <4>1 DEF stored
    <3> QED
      BY <1>3, <2>3, <3>3, <3>4, <3>5
  <2>9. n - 1 \in 0 .. 23 /\ n - 2 = (n - 1) - 1 /\ (n - 1 = 0 => n = 1) /\ n \in 1 .. 24
    BY <1>7
  <2>10. stored(0)' = stored(0)
    BY <1>2 DEF stored
  <2>11. InAddress'
    <3>1. /\ flash_num_bits_to_send' = n - 1 /\ flash_counter' = 1 /\ flash_clk' = 0
          /\ RestOfAddress'
          /\ n - 1 <= ZeroBits' => flash_data_to_send' = 0
          /\ n - 1 < ZeroBits' => flash_mosi' = 0
      BY <1>3, <1>4, <1>7, <2>9
    <3>2. /\ flash'.state = "ReceiveAddress" /\ flash'.counter = (n - 1) - 1
          /\ n - 1 \in 1 .. LowBits' + 1 =>
               (flash'.address * 2 ^ ((n - 1) - 1)) % chip'.bytes = 0
      BY <1>2, <1>3, <2>3, <2>7, <2>9
    <3>3. n - 1 = 0 => /\ flash'.address = from % chip'.bytes
                       /\ flash'.current_byte = stored(0)'
      BY <1>2, <2>8, <2>9, <2>10
    <3>4. n - 1 \in 1 - 1 .. 23 /\ 0 = 1 - 1
      BY <2>9
    <3>5. EmulatedInAddress'
      BY <3>1, <3>2, <3>3, <3>4 DEF EmulatedInAddress
    <3> QED
      BY <1>1, <1>2, <3>1, <3>5 DEF InAddress
  <2> QED
    BY <1>1, <1>4, <1>7, <2>9, <2>11 DEF InPhase
<1>8. CASE flash_counter = 1
  <2>1. /\ flash_clk = 0 /\ n \in 0 .. 23
        /\ flash.state = "ReceiveAddress" /\ flash.counter = n - 1
    BY <1>3, <1>8 DEF EmulatedInAddress
  <2>2. flash' = flash
    BY <2>1, FlashStays
  <2>3. /\ flash_counter' = 0 /\ flash_clk' = 1 /\ flash_num_bits_to_send' = n
        /\ flash_data_to_send' = d /\ flash_mosi' = flash_mosi
        /\ state' = IF n = 0 THEN return_state ELSE state
    BY <1>8 DEF BootSend
  <2>4. stored(0)' = stored(0)
    BY <1>2 DEF stored
  <2>5. CASE n # 0
    <3>1. RestOfAddress'
      BY <2>3 DEF RestOfAddress, InAddress
    <3>2. n \in 1 .. 23
      BY <2>1, <2>5
    <3>3. InAddress'
      <4>1. EmulatedInAddress'
        BY <1>2, <1>3, <1>8, <2>1, <2>2, <2>3, <2>5, <3>2 DEF EmulatedInAddress
      <4> QED
        BY <1>1, <1>2, <3>1, <4>1 DEF InAddress
    <3>4. state' = "BootSend"
      BY <2>3, <2>5 DEF BootSend
    <3> QED
      BY <1>1, <3>3, <3>4 DEF InPhase
  <2>6. CASE n = 0
    <3>1. /\ flash.address = from % chip.bytes /\ flash.current_byte = stored(0)
          /\ flash.counter = -1
      BY <1>3, <1>8, <2>1, <2>6 DEF EmulatedInAddress
    <3>2. Sends(0)'
      BY <1>2, <2>1, <2>2, <2>4, <3>1 DEF Sends
    <3> QED
      BY <1>8, <2>6, <3>2, AddressIsSent
  <2> QED
    BY <2>5, <2>6
<1> QED
  BY <1>3, <1>6, <1>7, <1>8 DEF EmulatedInAddress

LEMMA SendAddressPhase ==
  ASSUME BootInv, rst_n, BootSend, Flash, Store, Inputs,
         return_state = "BootReadData", InAddress
  PROVE  InPhase'
BY BoardSendAddressPhase, EmulatedSendAddressPhase

LEMMA ReadDataPhase ==
  ASSUME BootInv, rst_n, BootReadData, Flash, Store, Inputs
  PROVE  InPhase'
<1> DEFINE c == flash_counter
           num == flash_current_byte_num
<1>1. /\ state = "BootReadData" /\ InData /\ FlashTypes /\ chip \in Flashes /\ chip' = chip
      /\ c \in Nat /\ flash_current_byte_out \in ByteValues
      /\ flash_data_out \in [Lanes -> ByteValues]
  BY DEF BootReadData, BootInv, InPhase, TypeOK, Inputs
<1>2. PICK w \in Nat : ReadingWord(w)
  BY <1>1 DEF BootInv, InPhase
<1>3. PICK s, r \in Nat : s = (c + 1) \div 2 /\ r = c \div 2 /\ Sends(s) /\ Reads(r)
  BY <1>1 DEF InData
<1>4. InWord(w)'
  <2>1. memory' = memory
    BY <1>1, NothingStored
  <2>2. Copied(w)'
    BY <1>1, <1>2, <2>1, CopiedStays DEF ReadingWord, InWord
  <2> QED
    BY <1>2, <2>2 DEF ReadingWord, InWord, BootReadData, portVars
<1>5. flash_counter' = c + 1 /\ flash_cs_n = 0 /\ flash_cs_n' = 0 /\ flash_clk = 1 - (c % 2)
  BY <1>1 DEF InData, BootReadData
<1>6. num \in Lanes /\ bytes_taken = 4 * w + num
      /\ \A b \in 0 .. num - 1 : flash_data_out[b] = stored(4 * w + b)
  BY <1>2 DEF ReadingWord
<1>7. \A a : stored(a)' = stored(a)
  BY <1>1 DEF stored
<1>8. InData'
  <2>1. CASE c % 2 = 0
    <3>1. flash_clk = 1 /\ flash_clk' = 0 /\ flash_current_byte_out' = flash_current_byte_out
      BY <1>5, <2>1 DEF BootReadData
    <3>2. Sends(s + 1)' /\ Reads(r)'
      BY <1>1, <1>3, <1>5, <3>1, NextBitSent, ReadsStays
    <3>3. /\ s + 1 \in Nat /\ s + 1 = ((c + 1) + 1) \div 2 /\ r = (c + 1) \div 2
          /\ 0 = 1 - ((c + 1) % 2)
      BY <1>1, <1>3, <2>1
    <3> QED
      BY <1>5, <3>1, <3>2, <3>3 DEF InData
  <2>2. CASE c % 2 # 0
    <3>1. /\ flash_clk = 0 /\ flash_clk' = 1
          /\ flash_current_byte_out' = shifted(flash_current_byte_out, flash.miso)
      <4>1. c % 2 = 1
        BY <1>1, <2>2
      <4> QED
        BY <1>5, <4>1 DEF BootReadData
    <3>2. flash' = flash
      <4>1. s > 0
        BY <1>1, <1>3, <2>2
      <4>2. flash.state = "SendData"
        BY <1>3, <4>1 DEF Sends
      <4> QED
        BY <3>1, <4>2, FlashStays
    <3>3. /\ s = r + 1 /\ s = ((c + 1) + 1) \div 2 /\ s = (c + 1) \div 2
          /\ 1 = 1 - ((c + 1) % 2)
      BY <1>1, <1>3, <2>2
    <3>4. Sends(s)' /\ Reads(s)'
      BY <1>1, <1>3, <3>1, <3>2, <3>3, NextBitRead, SendsStays
    <3> QED
      BY <1>5, <3>1, <3>3, <3>4 DEF InData
  <2> QED
    BY <2>1, <2>2
\* one more byte
<1>9. CASE c % 16 = 0 /\ c > 0
  <2>1. c % 2 = 0 /\ c = 16 * (4 * w + num) + 16 /\ r = 8 * (4 * w + num) + 8
    <3>1. (c - 1) \div 16 = 4 * w + num
      BY <1>6, <1>9 DEF bytes_taken
    <3>2. num \in Nat
      BY <1>6 DEF Lanes
    <3> QED
      BY <1>1, <1>3, <1>9, <3>1, <3>2
  <2>2. flash_current_byte_out = stored(4 * w + num)
    <3>1. 4 * w + num \in Nat
      BY <1>6 DEF Lanes
    <3> QED
      BY <1>1, <1>3, <2>1, <3>1, ByteComplete
  <2>3. /\ flash_data_out' = [flash_data_out EXCEPT ![num] = flash_current_byte_out]
        /\ flash_current_byte_num' = (num + 1) % 256
        /\ state' = IF num = 3 THEN "BootStartWrite" ELSE "BootReadData"
    BY <1>1, <1>9, <2>1 DEF BootReadData, ByteIsRead
  <2>4. \A b \in 0 .. num : flash_data_out'[b] = stored(4 * w + b)
    <3>1. \A b \in 0 .. num : b \in Lanes /\ (b = num \/ b \in 0 .. num - 1)
      BY <1>6 DEF Lanes
    <3> QED
      BY <1>1, <1>6, <2>2, <2>3, <3>1
  <2>5. bytes_taken' = 4 * w + num + 1
    <3>1. ((c + 1) - 1) \div 16 = 4 * w + num + 1 /\ c + 1 # 0
      BY <1>1, <1>6, <2>1 DEF Lanes
    <3> QED
      BY <1>5, <3>1 DEF bytes_taken
  <2>6. CASE num = 3
    <3>1. flash_counter' = 64 * w + 65
      BY <1>5, <2>1, <2>6
    <3>2. flash_data_out' = [b \in Lanes |-> stored(4 * w + b)]
      <4>1. \A b \in Lanes : b \in 0 .. num
        BY <2>6 DEF Lanes
      <4> QED
        BY <1>1, <2>3, <2>4, <4>1
    <3>3. WordIsRead(w)'
      BY <1>4, <1>7, <3>1, <3>2 DEF WordIsRead, image
    <3> QED
      BY <1>8, <2>3, <2>6, <3>3 DEF InPhase
  <2>7. CASE num # 3
    <3>1. num + 1 \in Lanes /\ (num + 1) % 256 = num + 1 /\ (num + 1) - 1 = num
          /\ 4 * w + (num + 1) = 4 * w + num + 1
      BY <1>6, <2>7 DEF Lanes
    <3>2. ReadingWord(w)'
      BY <1>4, <1>7, <2>3, <2>4, <2>5, <3>1 DEF ReadingWord
    <3> QED
      BY <1>8, <2>3, <2>7, <3>2 DEF InPhase
  <2> QED
    BY <2>6, <2>7
\* no byte
<1>10. CASE ~(c % 16 = 0 /\ c > 0)
  <2>1. /\ flash_data_out' = flash_data_out /\ flash_current_byte_num' = num
        /\ state' = "BootReadData"
    BY <1>1, <1>10 DEF BootReadData
  <2>2. bytes_taken' = bytes_taken
    <3>1. CASE c = 0
      <4>1. (1 - 1) \div 16 = 0
        OBVIOUS
      <4> QED
        BY <1>5, <3>1, <4>1 DEF bytes_taken
    <3>2. CASE c # 0
      <4>1. (c + 1) - 1 = c /\ c + 1 # 0 /\ c \div 16 = (c - 1) \div 16
        BY <1>1, <1>10, <3>2
      <4> QED
        BY <1>5, <3>2, <4>1 DEF bytes_taken
    <3> QED
      BY <3>1, <3>2
  <2>3. ReadingWord(w)'
    BY <1>4, <1>6, <1>7, <2>1, <2>2 DEF ReadingWord
  <2> QED
    BY <1>8, <2>1, <2>3 DEF InPhase
<1> QED
  BY <1>9, <1>10

\* While a word is written nothing moves on the wires of the flash.
LEMMA WiresStay ==
  ASSUME InData, Flash, chip' = chip, flash_counter' = flash_counter, flash_clk' = flash_clk,
         flash_cs_n' = flash_cs_n, flash_current_byte_out' = flash_current_byte_out
  PROVE  InData'
<1>1. flash' = flash
  BY FlashStays
<1>2. PICK s, r \in Nat : /\ s = (flash_counter + 1) \div 2 /\ r = flash_counter \div 2
                          /\ Sends(s) /\ Reads(r)
  BY DEF InData
<1>3. Sends(s)' /\ Reads(r)'
  BY <1>1, <1>2, SendsStays, ReadsStays
<1> QED
  BY <1>2, <1>3 DEF InData

LEMMA StartWritePhase ==
  ASSUME BootInv, rst_n, BootStartWrite, Flash, Store, Inputs
  PROVE  InPhase'
<1>1. state = "BootStartWrite" /\ InData /\ chip' = chip
  BY DEF BootStartWrite, BootInv, InPhase, Inputs
<1>2. PICK w \in Nat : WordIsRead(w)
  BY <1>1 DEF BootInv, InPhase
<1>3. ~busy /\ memory' = memory
  BY <1>1, NothingStored
<1>4. /\ flash_counter' = flash_counter /\ flash_clk' = flash_clk /\ flash_cs_n' = flash_cs_n
      /\ flash_current_byte_out' = flash_current_byte_out
  BY DEF BootStartWrite, readVars
<1>5. InData'
  BY <1>1, <1>4, WiresStay
<1>6. Copied(w)'
  BY <1>1, <1>2, <1>3, CopiedStays DEF WordIsRead, InWord
<1>7. image(w)' = image(w)
  BY <1>1 DEF image, stored
<1>8. WritingWord(w)'
  BY <1>2, <1>3, <1>4, <1>6, <1>7 DEF BootStartWrite, WordIsRead, InWord, WritingWord
<1>9. state' = "BootWrite"
  BY <1>3 DEF BootStartWrite
<1> QED
  BY <1>5, <1>8, <1>9 DEF InPhase

LEMMA WritePhase ==
  ASSUME BootInv, rst_n, BootWrite, Flash, Store, Inputs
  PROVE  InPhase'
<1>1. state = "BootWrite" /\ InData /\ chip' = chip /\ TypeOK
  BY DEF BootWrite, BootInv, InPhase, Inputs
<1>2. PICK w \in Nat : WritingWord(w)
  BY <1>1 DEF BootInv, InPhase
<1>3. /\ request.enable /\ ramio_address_next = 4 * w + 4 /\ flash_counter = 64 * w + 65
      /\ request = [enable |-> TRUE, read |-> 0, write |-> 4, address |-> 4 * w,
                    data_in |-> image(w)]
  BY <1>2 DEF WritingWord
<1>4. image(w)' = image(w)
  BY <1>1 DEF image, stored
<1>5. /\ flash_counter' = flash_counter /\ flash_clk' = flash_clk
      /\ flash_current_byte_out' = flash_current_byte_out
      /\ ramio_address_next' = ramio_address_next
  BY DEF BootWrite
<1>6. CASE busy
  <2>1. ~hit
    BY <1>6 DEF busy
  <2>2. state' = "BootWrite" /\ request' = request /\ flash_cs_n' = flash_cs_n
    BY <1>1, <1>6 DEF BootWrite
  <2>3. Copied(w)'
    BY <1>1, <1>2, WordIsStored
  <2>4. WritingWord(w)'
    BY <1>2, <1>4, <1>5, <2>2, <2>3 DEF WritingWord
  <2>5. InData'
    BY <1>1, <1>5, <2>2, WiresStay
  <2> QED
    BY <2>2, <2>4, <2>5 DEF InPhase
<1>7. CASE ~busy
  <2>1. hit
    BY <1>3, <1>7 DEF busy
  <2>2. Copied(w + 1)'
    BY <1>1, <1>2, <2>1, WordIsStored
  <2>3. CASE ramio_address_next < FlashTransferByteCount
    <3>1. /\ request' = [request EXCEPT !.enable = FALSE] /\ state' = "BootReadData"
          /\ flash_cs_n' = flash_cs_n /\ flash_current_byte_num' = 0
      BY <1>7, <2>3 DEF BootWrite
    <3>2. ~request'.enable
      BY <1>3, <3>1
    <3>3. InData'
      BY <1>1, <1>5, <3>1, WiresStay
    <3>4. bytes_taken' = 4 * (w + 1) + 0 /\ 4 * w + 4 = 4 * (w + 1)
      <4>1. (64 * w + 65 - 1) \div 16 = 4 * (w + 1) + 0 /\ 64 * w + 65 # 0
        OBVIOUS
      <4> QED
        BY <1>3, <1>5, <4>1 DEF bytes_taken
    <3>5. ReadingWord(w + 1)'
      BY <1>3, <1>5, <2>2, <2>3, <3>1, <3>2, <3>4 DEF ReadingWord, InWord, Lanes
    <3>6. w + 1 \in Nat
      OBVIOUS
    <3> QED
      BY <3>1, <3>3, <3>5, <3>6 DEF InPhase
  <2>4. CASE ~(ramio_address_next < FlashTransferByteCount)
    <3>1. StartCpu
      BY <1>7, <2>4 DEF BootWrite
    <3>2. /\ request'.enable /\ request'.read = 4 /\ request'.write = 0 /\ request'.address = 0
      <4> DEFINE words == request.data_in
      <4>1. request' = [enable |-> TRUE, read |-> 4, write |-> 0, address |-> 0,
                        data_in |-> words]
        BY <3>1 DEF StartCpu
      <4> HIDE DEF words
      <4> QED
        BY <4>1
    <3>3. \A v \in 0 .. ImageWords - 1 : v \in 0 .. (w + 1) - 1
      <4>1. w + 1 >= ImageWords
        BY <1>3, <2>4, ImageFits
      <4> QED
        BY <4>1, ImageFits
    <3>4. Copied(ImageWords)'
      BY <2>2, <3>3 DEF Copied
    <3>5. Running' /\ state' = "CpuFetch"
      BY <3>1, <3>2, <3>4 DEF Running, StartCpu
    <3> QED
      BY <3>5 DEF InPhase
  <2> QED
    BY <2>3, <2>4
<1> QED
  BY <1>6, <1>7

-----------------------------------------------------------------------------
(* The invariant, from reset to the first fetch. *)

LEMMA LeftoverTypes ==
  \A m \in Leftovers : m \in [0 .. RamWords - 1 -> [Lanes -> ByteValues]]
BY DEF Leftovers, ByteValues

LEMMA FlashAtResetTypes ==
  ASSUME flash = FlashAtReset, chip \in Flashes
  PROVE  FlashTypes
BY ChipIs DEF FlashAtReset, FlashTypes, ByteValues

LEMMA BootInvInit ==
  ASSUME Init
  PROVE  BootInv
<1>1. TypeOK
  <2>1. flash.counter \in -1 .. 22 /\ flash.address \in 0 .. (chip.bytes - 1)
    BY FlashAtResetTypes DEF Init, FlashTypes
  <2>2. request.data_in \in [Lanes -> ByteValues]
    BY DEF Init, NoRequest, ByteValues
  <2>3. memory \in [0 .. RamWords - 1 -> [Lanes -> ByteValues]]
    BY LeftoverTypes DEF Init
  <2>4. /\ flash_data_to_send \in 0..(2^24 - 1) /\ flash_num_bits_to_send \in 0..31
        /\ flash_current_byte_out \in ByteValues
        /\ flash_data_out \in [Lanes -> ByteValues]
    BY DEF Init, Unknown, ByteValues
  <2> QED
    BY <2>1, <2>2, <2>3, <2>4 DEF Init, TypeOK, BootStates
<1>2. FlashTypes /\ chip \in Flashes
  BY FlashAtResetTypes, BootAssumption DEF Init
<1>3. AtReset /\ state = "BootInit"
  BY DEF Init, AtReset, Nothing_asked
<1>4. InPhase
  BY <1>3 DEF InPhase
<1> QED
  BY <1>1, <1>2, <1>4 DEF BootInv

LEMMA BootInvReset ==
  ASSUME BootInv, Reset
  PROVE  BootInv'
<1>1. FlashTypes' /\ chip' = chip
  <2>1. /\ chip' = chip /\ flash' = FlashAtReset /\ 0 \in 0 .. chip.bytes - 1
    BY ChipIs DEF BootInv, Reset, Inputs
  <2> QED
    BY <2>1 DEF FlashAtReset, FlashTypes, ByteValues
<1>2. chip' \in Flashes
  BY DEF BootInv, Reset, Inputs
<1>3. TypeOK'
  <2>1. flash'.counter \in -1 .. 22 /\ flash'.address \in 0 .. (chip'.bytes - 1)
    BY <1>1 DEF FlashTypes
  <2>2. request'.data_in \in [Lanes -> ByteValues]
    BY DEF Reset, NoRequest, ByteValues
  <2>3. memory' \in [0 .. RamWords - 1 -> [Lanes -> ByteValues]]
    BY MemoryTypes, LeftoverTypes DEF Reset, BootInv
  <2>4. /\ flash_data_to_send' \in 0..(2^24 - 1) /\ flash_num_bits_to_send' \in 0..31
        /\ flash_current_byte_out' \in ByteValues
        /\ flash_data_out' \in [Lanes -> ByteValues]
    BY DEF Reset, Unknown, ByteValues
  <2> QED
    BY <2>1, <2>2, <2>3, <2>4 DEF Reset, Inputs, TypeOK, BootStates
<1>4. AtReset' /\ state' = "BootInit"
  BY DEF Reset, AtReset, Nothing_asked, NoRequest, FlashAtReset, Lanes
<1>5. InPhase'
  BY <1>4 DEF InPhase
<1> QED
  BY <1>1, <1>2, <1>3, <1>5 DEF BootInv

LEMMA BootInvClock ==
  ASSUME BootInv, Clock
  PROVE  BootInv'
<1>1. rst_n /\ BootStep /\ Flash /\ Store /\ Inputs
  BY DEF Clock
<1>2. InPhase'
  BY <1>1, InitPhase, LoadCommandPhase, LoadAddressPhase, SendCommandPhase, SendAddressPhase,
     ReadDataPhase, StartWritePhase, WritePhase DEF BootStep, BootSend, BootInv, InPhase
<1>3. state' = "BootReadData" => flash_current_byte_num' \in Lanes
  BY <1>2 DEF InPhase, ReadingWord
<1>4. TypeOK' /\ FlashTypes' /\ chip' \in Flashes
  BY <1>1, <1>3, ClockTypes
<1> QED
  BY <1>2, <1>4 DEF BootInv

\* what a step that leaves the registers alone leaves in place
LEMMA BootInvStays ==
  ASSUME BootInv, UNCHANGED <<bootVars, flash, memory, chip>>,
         rst_n' \in BOOLEAN, hit' \in BOOLEAN
  PROVE  BootInv'
<1>1. /\ UNCHANGED <<state, return_state, flash_counter, flash_clk, flash_mosi, flash_cs_n>>
      /\ UNCHANGED <<flash_data_to_send, flash_num_bits_to_send, flash_current_byte_out,
                     flash_current_byte_num, flash_data_out, request, ramio_address_next>>
      /\ UNCHANGED <<flash, memory, chip>>
  BY DEF bootVars, sendVars, readVars, portVars
<1>2. TypeOK' /\ FlashTypes' /\ chip' \in Flashes
  BY <1>1 DEF BootInv, TypeOK, FlashTypes
<1>3. \A w : /\ Copied(w)' <=> Copied(w)
             /\ image(w)' = image(w)
             /\ Sends(w)' <=> Sends(w)
             /\ Reads(w)' <=> Reads(w)
  BY <1>1 DEF Copied, image, stored, Sends, Reads, bit
<1>4. /\ AtReset' <=> AtReset
      /\ InCommand' <=> InCommand
      /\ BeforeAddress' <=> BeforeAddress
  BY <1>1 DEF AtReset, Nothing_asked, InCommand, BeforeAddress, AwaitsAddress, ahead
<1>5. InAddress' <=> InAddress
  BY <1>1 DEF InAddress, BoardInAddress, EmulatedInAddress, Sent, ZeroBits, LowBits,
             Nothing_asked, RestOfAddress, stored
<1>6. InData' <=> InData
  BY <1>1, <1>3 DEF InData
<1>7. /\ \A w : ReadingWord(w)' <=> ReadingWord(w)
      /\ \A w : WordIsRead(w)' <=> WordIsRead(w)
      /\ \A w : WritingWord(w)' <=> WritingWord(w)
  BY <1>1, <1>3 DEF ReadingWord, WordIsRead, WritingWord, InWord, bytes_taken, stored
<1>8. Running' <=> Running
  BY <1>1, <1>3 DEF Running
<1>9. InPhase'
  BY <1>1, <1>4, <1>5, <1>6, <1>7, <1>8 DEF BootInv, InPhase
<1> QED
  BY <1>2, <1>9 DEF BootInv

LEMMA BootInvInductive ==
  ASSUME BootInv, [Next]_vars
  PROVE  BootInv'
<1>1. CASE Reset
  BY <1>1, BootInvReset
<1>2. CASE Clock
  BY <1>2, BootInvClock
<1>3. CASE Booted
  BY <1>3, BootInvStays DEF Booted, Inputs
<1>4. CASE UNCHANGED vars
  BY <1>4, BootInvStays DEF vars, BootInv, TypeOK
<1> QED
  BY <1>1, <1>2, <1>3, <1>4 DEF Next

LEMMA BootInvAlways == Spec => []BootInv
<1>1. Init => BootInv
  BY BootInvInit
<1>2. BootInv /\ [Next]_vars => BootInv'
  BY BootInvInductive
<1> QED
  BY <1>1, <1>2, PTL DEF Spec

-----------------------------------------------------------------------------
(* The theorems. *)

\* core.sv, the states of the boot, with either flash and any content of it: whatever the
\* memory held, however long it takes to answer and however often reset cuts the boot
\* short, the registers keep their widths and the CPU is started with the whole program
\* in the memory, the flash deselected and the first instruction asked for.
THEOREM ProgramLoaded == Spec => []ProgramIsLoaded
<1>1. BootInv => ProgramIsLoaded
  BY DEF BootInv, InPhase, Running, Copied, ProgramIsLoaded
<1> QED
  BY <1>1, BootInvAlways, PTL

\* core.sv, BootStartWrite: the words of the program are written in their places, each
\* after the ones before it, and no other word of the memory is.
THEOREM CopiedInOrder == Spec => CopiesInOrder
<1> DEFINE Writes ==
      state # "CpuFetch" =>
        \A w \in 0..(RamWords - 1) :
          memory'[w] # memory[w] => /\ w < ImageWords
                                    /\ memory'[w] = image(w)
                                    /\ \A v \in 0..(w - 1) : memory[v] = image(v)
<1>1. BootInv /\ [Next]_vars => [Writes]_vars
  <2> SUFFICES ASSUME BootInv, Next, state # "CpuFetch", NEW w \in 0 .. RamWords - 1,
                      memory'[w] # memory[w]
               PROVE  /\ w < ImageWords
                      /\ memory'[w] = image(w)
                      /\ \A v \in 0..(w - 1) : memory[v] = image(v)
    OBVIOUS
  <2>1. Store /\ chip' = chip
    BY DEF Next, Reset, Clock, Booted, Inputs
  <2>2. state = "BootWrite"
    BY <2>1, NothingStored
  <2>3. PICK u \in Nat : WritingWord(u)
    BY <2>2 DEF BootInv, InPhase
  <2>4. u < ImageWords /\ memory' = [memory EXCEPT ![u] = image(u)]
    BY <2>1, <2>3, WordIsStored DEF BootInv
  <2>5. w = u
    BY <2>4 DEF BootInv, TypeOK
  <2>6. memory'[w] = image(w)
    BY <2>4, <2>5 DEF BootInv, TypeOK
  <2>7. Copied(w)
    BY <2>3, <2>5 DEF WritingWord
  <2> QED
    BY <2>4, <2>5, <2>6, <2>7 DEF Copied
<1> QED
  BY <1>1, BootInvAlways, PTL DEF Spec, CopiesInOrder
=============================================================================
