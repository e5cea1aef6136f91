------------------------------ MODULE TypingProofs ------------------------------
(***************************************************************************)
(* Proofs about LineEditor behind the serial port, for every size of the   *)
(* buffer and any keys: the operations of the buffer; the edited line they *)
(* implement; what the characters that are on their way will have done to  *)
(* the terminal.                                                           *)
(***************************************************************************)
EXTENDS Typing, SequenceTheorems, TLAPS

Elements == Letters \cup {Zero}

LEMMA Types ==
  ASSUME NEW b \in Buffers(Elements, Size)
  PROVE  /\ Size \in Nat /\ Size >= 1
         /\ b = [line |-> b.line, cursor |-> b.cursor, end |-> b.end]
         /\ b.line \in [0 .. Size - 1 -> Elements]
         /\ b.cursor \in 0 .. b.end /\ b.end \in 0 .. Size - 1
BY LineEditorAssumption DEF Buffers

LEMMA MakeBuffer ==
  ASSUME NEW line \in [0 .. Size - 1 -> Elements], NEW end \in 0 .. Size - 1,
         NEW cursor \in 0 .. end
  PROVE  [line |-> line, cursor |-> cursor, end |-> end] \in Buffers(Elements, Size)
<1>1. Size \in Nat /\ cursor \in 0 .. Size - 1 /\ cursor <= end
  BY LineEditorAssumption
<1> QED
  BY <1>1 DEF Buffers

\* the letters up to the end
only_letters(b) == \A i \in 0 .. b.end - 1 : b.line[i] \in Letters

LEMMA Inserted ==
  ASSUME NEW b \in Buffers(Elements, Size), ~is_full(b, Size), NEW ch \in Letters
  PROVE  /\ insert(b, ch) \in Buffers(Elements, Size)
         /\ insert(b, ch).cursor = b.cursor + 1 /\ insert(b, ch).end = b.end + 1
         /\ \A i \in 0 .. b.end :
              insert(b, ch).line[i] = IF i < b.cursor THEN b.line[i]
                                      ELSE IF i = b.cursor THEN ch ELSE b.line[i - 1]
<1> DEFINE d == [i \in DOMAIN b.line |->
                   IF i = b.cursor THEN ch
                   ELSE IF ~at_end(b) /\ i \in b.cursor + 1 .. b.end + 1
                     THEN b.line[i - 1] ELSE b.line[i]]
<1>1. /\ Size \in Nat /\ Size >= 1 /\ b.line \in [0 .. Size - 1 -> Elements]
      /\ b.cursor \in 0 .. b.end /\ b.end \in 0 .. Size - 1
  BY Types
<1>2. b.end + 1 \in 0 .. Size - 1 /\ b.cursor + 1 \in 0 .. b.end + 1
  BY <1>1 DEF is_full
<1>3. ch \in Elements
  BY DEF Elements
<1>4. d \in [0 .. Size - 1 -> Elements]
  BY <1>1, <1>3
<1>5. \A i \in 0 .. b.end : d[i] = IF i < b.cursor THEN b.line[i]
                                   ELSE IF i = b.cursor THEN ch ELSE b.line[i - 1]
  BY <1>1 DEF at_end
<1>6. insert(b, ch) = [line |-> d, cursor |-> b.cursor + 1, end |-> b.end + 1]
  BY DEF insert
<1> HIDE DEF d
<1>7. insert(b, ch) \in Buffers(Elements, Size)
  BY <1>2, <1>4, <1>6, MakeBuffer
<1> QED
  BY <1>5, <1>6, <1>7

LEMMA Backspaced ==
  ASSUME NEW b \in Buffers(Elements, Size), b.cursor # 0
  PROVE  /\ backspace(b) \in Buffers(Elements, Size)
         /\ backspace(b).cursor = b.cursor - 1 /\ backspace(b).end = b.end - 1
         /\ \A i \in 0 .. b.end - 2 :
              backspace(b).line[i] = IF i < b.cursor - 1 THEN b.line[i] ELSE b.line[i + 1]
<1> DEFINE d == IF at_end(b) THEN b.line
                ELSE [i \in DOMAIN b.line |->
                        IF i \in b.cursor - 1 .. b.end - 1 THEN b.line[i + 1] ELSE b.line[i]]
<1>1. /\ Size \in Nat /\ Size >= 1 /\ b.line \in [0 .. Size - 1 -> Elements]
      /\ b.cursor \in 0 .. b.end /\ b.end \in 0 .. Size - 1
  BY Types
<1>2. b.end - 1 \in 0 .. Size - 1 /\ b.cursor - 1 \in 0 .. b.end - 1
  BY <1>1
<1>3. d \in [0 .. Size - 1 -> Elements]
  <2>1. \A i \in 0 .. Size - 1 : i \in b.cursor - 1 .. b.end - 1 => i + 1 \in 0 .. Size - 1
    BY <1>1
  <2> QED
    BY <1>1, <2>1
<1>4. \A i \in 0 .. b.end - 2 : d[i] = IF i < b.cursor - 1 THEN b.line[i] ELSE b.line[i + 1]
  BY <1>1 DEF at_end
<1>5. backspace(b) = [line |-> d, cursor |-> b.cursor - 1, end |-> b.end - 1]
  BY DEF backspace
<1> HIDE DEF d
<1>6. backspace(b) \in Buffers(Elements, Size)
  BY <1>2, <1>3, <1>5, MakeBuffer
<1> QED
  BY <1>4, <1>5, <1>6

LEMMA Deleted ==
  ASSUME NEW b \in Buffers(Elements, Size)
  PROVE  /\ del(b) \in Buffers(Elements, Size)
         /\ del(b).cursor = b.cursor
         /\ b.cursor = b.end => del(b) = b
         /\ b.cursor # b.end =>
              /\ del(b).end = b.end - 1
              /\ \A i \in 0 .. b.end - 2 :
                   del(b).line[i] = IF i < b.cursor THEN b.line[i] ELSE b.line[i + 1]
<1> DEFINE d == [i \in DOMAIN b.line |->
                   IF i \in b.cursor .. b.end - 2 THEN b.line[i + 1] ELSE b.line[i]]
<1>1. /\ Size \in Nat /\ Size >= 1 /\ b.line \in [0 .. Size - 1 -> Elements]
      /\ b.cursor \in 0 .. b.end /\ b.end \in 0 .. Size - 1
      /\ b = [line |-> b.line, cursor |-> b.cursor, end |-> b.end]
  BY Types
<1>2. CASE b.cursor = b.end
  BY <1>2 DEF del, at_end
<1>3. CASE b.cursor # b.end
  <2>1. b.end - 1 \in 0 .. Size - 1 /\ b.cursor \in 0 .. b.end - 1
    BY <1>1, <1>3
  <2>2. d \in [0 .. Size - 1 -> Elements]
    BY <1>1
  <2>3. \A i \in 0 .. b.end - 2 : d[i] = IF i < b.cursor THEN b.line[i] ELSE b.line[i + 1]
    BY <1>1
  <2>4. del(b) = [line |-> d, cursor |-> b.cursor, end |-> b.end - 1]
    BY <1>1, <1>3 DEF del, at_end
  <2> HIDE DEF d
  <2>5. del(b) \in Buffers(Elements, Size)
    BY <2>1, <2>2, <2>4, MakeBuffer
  <2> QED
    BY <1>3, <2>3, <2>4, <2>5
<1> QED
  BY <1>2, <1>3

LEMMA Moved ==
  ASSUME NEW b \in Buffers(Elements, Size)
  PROVE  /\ b.cursor # 0 => /\ move_cursor_left(b) \in Buffers(Elements, Size)
                            /\ move_cursor_left(b) = [b EXCEPT !.cursor = b.cursor - 1]
         /\ b.cursor = 0 => move_cursor_left(b) = b
         /\ ~at_end(b) => /\ move_cursor_right(b) \in Buffers(Elements, Size)
                          /\ move_cursor_right(b) = [b EXCEPT !.cursor = b.cursor + 1]
         /\ at_end(b) => move_cursor_right(b) = b
<1>1. /\ Size \in Nat /\ b.line \in [0 .. Size - 1 -> Elements]
      /\ b.cursor \in 0 .. b.end /\ b.end \in 0 .. Size - 1
      /\ b = [line |-> b.line, cursor |-> b.cursor, end |-> b.end]
  BY Types
<1>2. \A c : [b EXCEPT !.cursor = c] = [line |-> b.line, cursor |-> c, end |-> b.end]
  BY <1>1
<1>3. b.cursor # 0 => [b EXCEPT !.cursor = b.cursor - 1] \in Buffers(Elements, Size)
  <2>1. b.cursor # 0 => b.cursor - 1 \in 0 .. b.end
    BY <1>1
  <2> QED
    BY <1>1, <1>2, <2>1, MakeBuffer
<1>4. ~at_end(b) => [b EXCEPT !.cursor = b.cursor + 1] \in Buffers(Elements, Size)
  <2>1. ~at_end(b) => b.cursor + 1 \in 0 .. b.end
    BY <1>1 DEF at_end
  <2> QED
    BY <1>1, <1>2, <2>1, MakeBuffer
<1> QED
  BY <1>3, <1>4 DEF move_cursor_left, move_cursor_right

LEMMA Terminated ==
  ASSUME NEW b \in Buffers(Elements, Size)
  PROVE  /\ set_terminator(b, Zero) \in Buffers(Elements, Size)
         /\ set_terminator(b, Zero).cursor = b.cursor /\ set_terminator(b, Zero).end = b.end
         /\ \A i \in 0 .. b.end - 1 : set_terminator(b, Zero).line[i] = b.line[i]
<1> DEFINE d == [b.line EXCEPT ![b.end] = Zero]
<1>1. /\ Size \in Nat /\ b.line \in [0 .. Size - 1 -> Elements]
      /\ b.cursor \in 0 .. b.end /\ b.end \in 0 .. Size - 1
      /\ b = [line |-> b.line, cursor |-> b.cursor, end |-> b.end]
  BY Types
<1>2. d \in [0 .. Size - 1 -> Elements]
  BY <1>1 DEF Elements
<1>3. \A i \in 0 .. b.end - 1 : d[i] = b.line[i]
  BY <1>1
<1>4. set_terminator(b, Zero) = [line |-> d, cursor |-> b.cursor, end |-> b.end]
  BY <1>1 DEF set_terminator
<1> HIDE DEF d
<1>5. set_terminator(b, Zero) \in Buffers(Elements, Size)
  BY <1>1, <1>2, <1>4, MakeBuffer
<1> QED
  BY <1>3, <1>4, <1>5

(* The line as a sequence. *)

LEMMA Span ==
  ASSUME NEW b \in Buffers(Elements, Size)
  PROVE  /\ span(b) \in Seq(Elements) /\ Len(span(b)) = b.end
         /\ \A i \in 1 .. b.end : span(b)[i] = b.line[i - 1]
<1>1. /\ Size \in Nat /\ b.line \in [0 .. Size - 1 -> Elements] /\ b.end \in 0 .. Size - 1
  BY Types
<1>2. \A i \in 1 .. b.end : b.line[i - 1] \in Elements
  BY <1>1
<1>3. b.end \in Nat
  BY <1>1
<1> QED
  BY <1>2, <1>3 DEF span

spliced_in(s, i, e) == SubSeq(s, 1, i - 1) \o <<e>> \o SubSeq(s, i, Len(s))
spliced_out(s, i)   == SubSeq(s, 1, i - 1) \o SubSeq(s, i + 1, Len(s))

LEMMA SpliceIn ==
  ASSUME NEW S, NEW s \in Seq(S), NEW e \in S, NEW k \in 1 .. Len(s) + 1
  PROVE  /\ spliced_in(s, k, e) \in Seq(S) /\ Len(spliced_in(s, k, e)) = Len(s) + 1
         /\ \A i \in 1 .. Len(s) + 1 :
              spliced_in(s, k, e)[i] = IF i < k THEN s[i] ELSE IF i = k THEN e ELSE s[i - 1]
<1> DEFINE n == Len(s)
           c == k - 1
           p == SubSeq(s, 1, (c + 1) - 1)
           q == SubSeq(s, c + 1, n)
           u == p \o <<e>>
           r == u \o q
<1>1. n \in Nat /\ \A i \in 1 .. n : s[i] \in S
  OBVIOUS
<1>2. p \in Seq(S) /\ Len(p) = c /\ \A i \in 1 .. c : p[i] = s[i]
  BY <1>1, SubSeqProperties
<1>3. q \in Seq(S) /\ Len(q) = n - c /\ \A i \in 1 .. n - c : q[i] = s[c + i]
  BY <1>1, SubSeqProperties
<1>4. <<e>> \in Seq(S) /\ Len(<<e>>) = 1 /\ <<e>>[1] = e
  OBVIOUS
<1>0. c \in 0 .. n /\ k = c + 1
  OBVIOUS
<1> HIDE DEF n, p, q, c
<1>5. /\ u \in Seq(S) /\ Len(u) = c + 1
      /\ \A i \in 1 .. c + 1 : u[i] = IF i <= c THEN s[i] ELSE e
  <2> DEFINE one == <<e>>
  <2>1. one \in Seq(S) /\ Len(one) = 1 /\ one[1] = e
    BY <1>4
  <2> HIDE DEF one
  <2>2. /\ p \o one \in Seq(S) /\ Len(p \o one) = c + 1
        /\ \A i \in 1 .. c + 1 : (p \o one)[i] = IF i <= c THEN p[i] ELSE one[i - c]
    <3>1. /\ p \o one \in Seq(S) /\ Len(p \o one) = Len(p) + Len(one)
          /\ \A i \in 1 .. Len(p) + Len(one) :
               (p \o one)[i] = IF i <= Len(p) THEN p[i] ELSE one[i - Len(p)]
      BY <1>2, <2>1, ConcatProperties
    <3> QED
      BY <1>2, <2>1, <3>1
  <2>3. \A i \in 1 .. c + 1 : i > c => i - c = 1
    BY <1>0, <1>1
  <2>4. \A i \in 1 .. c + 1 : (p \o one)[i] = IF i <= c THEN s[i] ELSE e
    BY <1>0, <1>1, <1>2, <2>1, <2>2, <2>3
  <2> QED
    BY <2>2, <2>4 DEF one
<1> HIDE DEF u
<1>6. /\ r \in Seq(S) /\ Len(r) = n + 1
      /\ \A i \in 1 .. n + 1 : r[i] = IF i <= c + 1 THEN u[i] ELSE q[i - (c + 1)]
  <2>1. /\ r \in Seq(S) /\ Len(r) = Len(u) + Len(q)
        /\ \A i \in 1 .. Len(u) + Len(q) : r[i] = IF i <= Len(u) THEN u[i] ELSE q[i - Len(u)]
    BY <1>3, <1>5, ConcatProperties
  <2>2. Len(u) + Len(q) = n + 1 /\ Len(u) = c + 1
    BY <1>0, <1>1, <1>3, <1>5
  <2> QED
    BY <2>1, <2>2
<1> HIDE DEF r
<1>7. \A i \in 1 .. n + 1 : r[i] = IF i <= c THEN s[i] ELSE IF i = c + 1 THEN e ELSE s[i - 1]
  <2> TAKE i \in 1 .. n + 1
  <2>1. CASE i <= c + 1
    <3>1. i \in 1 .. c + 1 /\ r[i] = u[i]
      BY <1>0, <1>1, <1>6, <2>1
    <3> QED
      BY <1>0, <1>1, <1>5, <3>1
  <2>2. CASE i > c + 1
    <3>1. i - (c + 1) \in 1 .. n - c /\ c + (i - (c + 1)) = i - 1
      BY <1>0, <1>1, <2>2
    <3>2. r[i] = q[i - (c + 1)]
      BY <1>0, <1>1, <1>6, <2>2
    <3>3. r[i] = s[i - 1]
      BY <1>3, <3>1, <3>2
    <3> QED
      BY <1>0, <1>1, <2>2, <3>3
  <2> QED
    BY <1>0, <1>1, <2>1, <2>2
<1>8. \A i \in 1 .. n + 1 : r[i] = IF i < k THEN s[i] ELSE IF i = k THEN e ELSE s[i - 1]
  BY <1>0, <1>1, <1>7
<1> QED
  BY <1>0, <1>6, <1>8 DEF n, u, p, q, r, spliced_in

LEMMA SpliceOut ==
  ASSUME NEW S, NEW s \in Seq(S), NEW c \in 1 .. Len(s)
  PROVE  /\ spliced_out(s, c) \in Seq(S) /\ Len(spliced_out(s, c)) = Len(s) - 1
         /\ \A i \in 1 .. Len(s) - 1 :
              spliced_out(s, c)[i] = IF i < c THEN s[i] ELSE s[i + 1]
<1> DEFINE n == Len(s)
           p == SubSeq(s, 1, c - 1)
           q == SubSeq(s, c + 1, n)
           r == p \o q
<1>1. n \in Nat /\ \A i \in 1 .. n : s[i] \in S
  OBVIOUS
<1>2. p \in Seq(S) /\ Len(p) = c - 1 /\ \A i \in 1 .. c - 1 : p[i] = s[i]
  BY <1>1, SubSeqProperties
<1>3. q \in Seq(S) /\ Len(q) = n - c /\ \A i \in 1 .. n - c : q[i] = s[c + i]
  BY <1>1, SubSeqProperties
<1>4. c \in 1 .. n
  OBVIOUS
<1> HIDE DEF n, p, q
<1>5. /\ r \in Seq(S) /\ Len(r) = Len(p) + Len(q)
      /\ \A i \in 1 .. Len(p) + Len(q) : r[i] = IF i <= Len(p) THEN p[i] ELSE q[i - Len(p)]
  BY <1>2, <1>3, ConcatProperties
<1>6. Len(p) + Len(q) = n - 1
  BY <1>1, <1>2, <1>3, <1>4
<1> HIDE DEF r
<1>7. \A i \in 1 .. n - 1 : r[i] = IF i < c THEN s[i] ELSE s[i + 1]
  <2> TAKE i \in 1 .. n - 1
  <2>1. CASE i < c
    <3>1. i \in 1 .. c - 1 /\ i <= Len(p) /\ i \in 1 .. Len(p) + Len(q)
      BY <1>1, <1>2, <1>4, <1>6, <2>1
    <3>2. r[i] = p[i]
      BY <1>5, <3>1
    <3> QED
      BY <1>2, <2>1, <3>1, <3>2
  <2>2. CASE i >= c
    <3>1. i - (c - 1) \in 1 .. n - c /\ c + (i - (c - 1)) = i + 1
      BY <1>1, <1>4, <2>2
    <3>2. r[i] = q[i - (c - 1)]
      <4>1. ~(i <= Len(p)) /\ i \in 1 .. Len(p) + Len(q) /\ Len(p) = c - 1
        BY <1>1, <1>2, <1>4, <1>6, <2>2
      <4> QED
        BY <1>5, <4>1
    <3>3. r[i] = s[i + 1]
      BY <1>3, <3>1, <3>2
    <3> QED
      BY <1>1, <1>4, <2>2, <3>3
  <2> QED
    BY <1>1, <1>4, <2>1, <2>2
<1> QED
  BY <1>5, <1>6, <1>7 DEF n, p, q, r, spliced_out

LEMMA InsertedLine ==
  ASSUME NEW b \in Buffers(Elements, Size), ~is_full(b, Size), NEW ch \in Letters
  PROVE  /\ span(insert(b, ch)) = EditsLine!InsertAt(span(b), b.cursor + 1, ch)
         /\ Len(span(b)) < Size - 1
<1> DEFINE c == insert(b, ch)
           r == spliced_in(span(b), b.cursor + 1, ch)
<1>1. /\ c \in Buffers(Elements, Size) /\ c.end = b.end + 1
      /\ \A i \in 0 .. b.end : c.line[i] = IF i < b.cursor THEN b.line[i]
                                           ELSE IF i = b.cursor THEN ch ELSE b.line[i - 1]
  BY Inserted
<1>2. /\ span(b) \in Seq(Elements) /\ Len(span(b)) = b.end
      /\ \A i \in 1 .. b.end : span(b)[i] = b.line[i - 1]
  BY Span
<1>3. b.cursor \in 0 .. b.end /\ b.end \in Nat /\ ch \in Elements
  <2>1. ch \in Elements
    BY DEF Elements
  <2>2. Size \in Nat /\ b.cursor \in 0 .. b.end /\ b.end \in 0 .. Size - 1
    BY Types
  <2> QED
    BY <2>1, <2>2
<1>4. /\ r \in Seq(Elements) /\ Len(r) = b.end + 1
      /\ \A i \in 1 .. b.end + 1 : r[i] = IF i <= b.cursor THEN span(b)[i]
                                          ELSE IF i = b.cursor + 1 THEN ch ELSE span(b)[i - 1]
  <2> DEFINE t == span(b)
             k == b.cursor
  <2>1. t \in Seq(Elements) /\ Len(t) = b.end /\ k + 1 \in 1 .. Len(t) + 1 /\ k \in Nat
          /\ ch \in Elements
    BY <1>2, <1>3
  <2> HIDE DEF t, k
  <2>2. LET x == spliced_in(t, k + 1, ch)
        IN /\ x \in Seq(Elements) /\ Len(x) = b.end + 1
           /\ \A i \in 1 .. b.end + 1 :
                x[i] = IF i < k + 1 THEN t[i] ELSE IF i = k + 1 THEN ch ELSE t[i - 1]
    BY <2>1, SpliceIn
  <2>3. \A i \in 1 .. b.end + 1 : i < k + 1 <=> i <= k
    BY <1>3, <2>1
  <2> QED
    BY <2>2, <2>3 DEF t, k
<1> HIDE DEF c, r
<1>5. /\ span(c) \in Seq(Elements) /\ Len(span(c)) = b.end + 1
      /\ \A i \in 1 .. b.end + 1 : span(c)[i] = c.line[i - 1]
  BY <1>1, <1>3, Span
<1>6. \A i \in 1 .. b.end + 1 : span(c)[i] = r[i]
  <2> TAKE i \in 1 .. b.end + 1
  <2>1. i - 1 \in 0 .. b.end /\ span(c)[i] = c.line[i - 1]
    BY <1>3, <1>5
  <2>2. i <= b.cursor => span(b)[i] = b.line[i - 1]
    BY <1>2, <1>3
  <2>3. i > b.cursor + 1 => i - 1 \in 1 .. b.end /\ span(b)[i - 1] = b.line[(i - 1) - 1]
    BY <1>2, <1>3
  <2> QED
    BY <1>1, <1>3, <1>4, <2>1, <2>2, <2>3
<1>7. span(c) = r
  BY <1>4, <1>5, <1>6, SeqEqual
<1>8. Len(span(b)) < Size - 1
  BY <1>2, Types DEF is_full
<1> QED
  BY <1>7, <1>8 DEF EditsLine!InsertAt, spliced_in, c, r

LEMMA ErasedLine ==
  ASSUME NEW b \in Buffers(Elements, Size), b.cursor # 0
  PROVE  span(backspace(b)) = EditsLine!RemoveAt(span(b), b.cursor)
<1> DEFINE c == backspace(b)
           r == spliced_out(span(b), b.cursor)
<1>1. /\ c \in Buffers(Elements, Size) /\ c.end = b.end - 1
      /\ \A i \in 0 .. b.end - 2 : c.line[i] = IF i < b.cursor - 1 THEN b.line[i] ELSE b.line[i + 1]
  BY Backspaced
<1>2. /\ span(b) \in Seq(Elements) /\ Len(span(b)) = b.end
      /\ \A i \in 1 .. b.end : span(b)[i] = b.line[i - 1]
  BY Span
<1>3. b.cursor \in 1 .. b.end /\ b.end \in Nat
  BY Types
<1>4. /\ r \in Seq(Elements) /\ Len(r) = b.end - 1
      /\ \A i \in 1 .. b.end - 1 : r[i] = IF i < b.cursor THEN span(b)[i] ELSE span(b)[i + 1]
  <2> DEFINE t == span(b)
             k == b.cursor
  <2>1. t \in Seq(Elements) /\ Len(t) = b.end /\ k \in 1 .. Len(t)
    BY <1>2, <1>3
  <2> HIDE DEF t, k
  <2>2. LET x == spliced_out(t, k)
        IN /\ x \in Seq(Elements) /\ Len(x) = b.end - 1
           /\ \A i \in 1 .. b.end - 1 : x[i] = IF i < k THEN t[i] ELSE t[i + 1]
    BY <2>1, SpliceOut
  <2> QED
    BY <2>2 DEF t, k
<1> HIDE DEF c, r
<1>5. /\ span(c) \in Seq(Elements) /\ Len(span(c)) = b.end - 1
      /\ \A i \in 1 .. b.end - 1 : span(c)[i] = c.line[i - 1]
  BY <1>1, <1>3, Span
<1>6. \A i \in 1 .. b.end - 1 : span(c)[i] = r[i]
  <2> TAKE i \in 1 .. b.end - 1
  <2>1. i - 1 \in 0 .. b.end - 2 /\ span(c)[i] = c.line[i - 1]
    BY <1>3, <1>5
  <2>2. /\ i \in 1 .. b.end /\ i + 1 \in 1 .. b.end
        /\ span(b)[i] = b.line[i - 1] /\ span(b)[i + 1] = b.line[i]
    BY <1>2, <1>3
  <2>3. (i - 1) + 1 = i
    BY <1>3
  <2> QED
    BY <1>1, <1>3, <1>4, <2>1, <2>2, <2>3
<1>7. span(c) = r
  BY <1>4, <1>5, <1>6, SeqEqual
<1> QED
  BY <1>7 DEF EditsLine!RemoveAt, spliced_out, c, r

LEMMA DeletedLine ==
  ASSUME NEW b \in Buffers(Elements, Size), b.cursor # b.end
  PROVE  span(del(b)) = EditsLine!RemoveAt(span(b), b.cursor + 1)
<1> DEFINE c == del(b)
           at == b.cursor + 1
           r == spliced_out(span(b), at)
<1>1. /\ c \in Buffers(Elements, Size) /\ c.end = b.end - 1
      /\ \A i \in 0 .. b.end - 2 : c.line[i] = IF i < b.cursor THEN b.line[i] ELSE b.line[i + 1]
  BY Deleted
<1>2. /\ span(b) \in Seq(Elements) /\ Len(span(b)) = b.end
      /\ \A i \in 1 .. b.end : span(b)[i] = b.line[i - 1]
  BY Span
<1>3. b.cursor \in 0 .. b.end - 1 /\ b.end \in Nat /\ at \in 1 .. b.end
  BY Types
<1>4. /\ r \in Seq(Elements) /\ Len(r) = b.end - 1
      /\ \A i \in 1 .. b.end - 1 : r[i] = IF i < at THEN span(b)[i] ELSE span(b)[i + 1]
  <2> HIDE DEF at
  <2> QED
    BY <1>2, <1>3, SpliceOut
<1> HIDE DEF c, r
<1>5. /\ span(c) \in Seq(Elements) /\ Len(span(c)) = b.end - 1
      /\ \A i \in 1 .. b.end - 1 : span(c)[i] = c.line[i - 1]
  BY <1>1, <1>3, Span
<1>6. \A i \in 1 .. b.end - 1 : span(c)[i] = r[i]
  <2> TAKE i \in 1 .. b.end - 1
  <2>1. i - 1 \in 0 .. b.end - 2 /\ span(c)[i] = c.line[i - 1]
    BY <1>3, <1>5
  <2>2. /\ i \in 1 .. b.end /\ i + 1 \in 1 .. b.end
        /\ span(b)[i] = b.line[i - 1] /\ span(b)[i + 1] = b.line[i]
    BY <1>2, <1>3
  <2>3. (i - 1) + 1 = i
    BY <1>3
  <2> QED
    BY <1>1, <1>3, <1>4, <2>1, <2>2, <2>3
<1>7. span(c) = r
  BY <1>4, <1>5, <1>6, SeqEqual
<1> QED
  BY <1>7 DEF EditsLine!RemoveAt, spliced_out, c, r

LEMMA SameLine ==
  ASSUME NEW b \in Buffers(Elements, Size), NEW c \in Buffers(Elements, Size),
         c.end = b.end, \A i \in 0 .. b.end - 1 : c.line[i] = b.line[i]
  PROVE  span(c) = span(b)
<1>1. b.end \in Nat
  BY Types
<1> QED
  BY <1>1 DEF span

(* What a key does. *)

Chars == Letters \cup {space, "ESC", "[", "D", "C", "BS", "DEL"}

LEMMA DigitValue == \A ch \in Digits : digit_value[ch] \in 0 .. 9
<1> TAKE ch \in Digits
<1>1. PICK d \in 1 .. 10 : digit[d] = ch
  BY DEF Digits, digit
<1>2. d - 1 \in 0 .. 9 /\ digit[(d - 1) + 1] = ch
  BY <1>1
<1>3. (CHOOSE n \in 0 .. 9 : digit[n + 1] = ch) \in 0 .. 9
  BY <1>2
<1> QED
  BY <1>3 DEF digit_value

Quiet   == UNCHANGED <<cmd_buf, out, entered>>
Ends    == /\ cmd_buf' = set_terminator(cmd_buf, Zero) /\ out' = out
           /\ entered' = <<span(cmd_buf')>>
Inserts(l) == /\ ~is_full(cmd_buf, Size)
             /\ Edits(insert(cmd_buf, l), <<l>> \o rest_and_back(insert(cmd_buf, l)))
Erases  == /\ cmd_buf.cursor # 0
           /\ Edits(backspace(cmd_buf), <<"DEL">> \o rest_blank_and_back(backspace(cmd_buf)))
Deletes == Edits(del(cmd_buf), rest_blank_and_back(del(cmd_buf)))
GoesLeft  == cmd_buf.cursor # 0 /\ Edits(move_cursor_left(cmd_buf), arrow("D"))
GoesRight == ~at_end(cmd_buf) /\ Edits(move_cursor_right(cmd_buf), arrow("C"))

Edited == /\ entered' = entered
          /\ (\E l \in Letters : Inserts(l)) \/ Erases \/ Deletes \/ GoesLeft \/ GoesRight

EditorState == /\ state \in {"NORMAL", "ESCAPE", "ESCAPE_BRACKET"}
               /\ escape_sequence_parameter \in 0 .. ParameterBound
               /\ NoStaleParameter

LEMMA KeyEffects ==
  ASSUME TypeOK, NoStaleParameter, out \in Seq(Chars), NEW ch, Key(ch)
  PROVE  /\ entered = <<>> /\ Len(out) <= 1 /\ UNCHANGED terminalVars
         /\ Quiet \/ Ends \/ Edited
         /\ EditorState'
<1>1. entered = <<>> /\ Len(out) <= 1 /\ UNCHANGED terminalVars
  BY DEF Key
<1>2. EditorState
  BY DEF EditorState, TypeOK
<1>3. out \o <<>> = out
  BY ConcatEmptySeq
<1>4. cmd_buf \in Buffers(Elements, Size)
  BY DEF TypeOK, Elements
<1>5. ParameterBound \in Nat
  BY LineEditorAssumption
<1>6. CASE Escape
  BY <1>1, <1>2, <1>6 DEF Escape, Quiet, EditorState, NoStaleParameter
<1>7. CASE Backspace
  <2>1. state = "NORMAL" /\ EditorState' /\ entered' = entered
    BY <1>2, <1>7 DEF Backspace, Normal, EditorState, NoStaleParameter
  <2>2. Quiet \/ Erases
    BY <1>7 DEF Backspace, Normal, Quiet, Erases
  <2> QED
    BY <1>1, <2>1, <2>2 DEF Edited
<1>8. CASE state = "NORMAL" /\ Return
  <2>1. EditorState'
    BY <1>2, <1>8 DEF Return, EditorState, NoStaleParameter
  <2>2. Ends
    BY <1>8 DEF Return, Ends
  <2> QED
    BY <1>1, <2>1, <2>2
<1>9. CASE ch \in Letters /\ Letter(ch)
  <2>1. CASE is_full(cmd_buf, Size)
    BY <1>8, <1>9, <2>1 DEF Letter
  <2>2. CASE ~is_full(cmd_buf, Size)
    <3>1. state = "NORMAL" /\ EditorState' /\ entered' = entered
      BY <1>2, <1>9, <2>2 DEF Letter, Normal, EditorState, NoStaleParameter
    <3>2. Inserts(ch)
      BY <1>9, <2>2 DEF Letter, Inserts
    <3> QED
      BY <1>1, <1>9, <3>1, <3>2 DEF Edited
  <2> QED
    BY <2>1, <2>2
<1>10. CASE Bracket \/ NoBracket
  BY <1>1, <1>2, <1>10 DEF Bracket, NoBracket, Quiet, EditorState, NoStaleParameter
<1>11. CASE ch \in Digits /\ Parameter(ch)
  <2>1. Quiet /\ state = "ESCAPE_BRACKET" /\ state' = state
        /\ escape_sequence_parameter' = escape_sequence_parameter * 10 + digit_value[ch]
        /\ escape_sequence_parameter' <= ParameterBound
    BY <1>11 DEF Parameter, Quiet
  <2>2. escape_sequence_parameter \in Nat /\ digit_value[ch] \in 0 .. 9
    BY <1>2, <1>5, <1>11, DigitValue DEF EditorState
  <2>3. escape_sequence_parameter' \in 0 .. ParameterBound
    BY <1>5, <2>1, <2>2
  <2> QED
    BY <1>1, <2>1, <2>3 DEF EditorState, NoStaleParameter
<1>12. ASSUME EndsSequence PROVE EditorState' /\ entered' = entered
  BY <1>5, <1>12 DEF EndsSequence, EditorState, NoStaleParameter
<1>13. CASE ArrowLeft
  <2>1. EditorState' /\ entered' = entered
    BY <1>12, <1>13 DEF ArrowLeft
  <2>2. Quiet \/ GoesLeft
    BY <1>3, <1>4, <1>13, <2>1, Moved DEF ArrowLeft, Edits, Quiet, GoesLeft
  <2> QED
    BY <1>1, <2>1, <2>2 DEF Edited
<1>14. CASE ArrowRight
  <2>1. EditorState' /\ entered' = entered
    BY <1>12, <1>14 DEF ArrowRight
  <2>2. Quiet \/ GoesRight
    BY <1>3, <1>4, <1>14, <2>1, Moved DEF ArrowRight, Edits, Quiet, GoesRight
  <2> QED
    BY <1>1, <2>1, <2>2 DEF Edited
<1>15. CASE Delete
  <2>1. EditorState' /\ entered' = entered
    BY <1>12, <1>15 DEF Delete
  <2>2. Quiet \/ Deletes
    BY <1>15, <2>1 DEF Delete, Quiet, Deletes
  <2> QED
    BY <1>1, <2>1, <2>2 DEF Edited
<1>16. CASE Unknown
  BY <1>1, <1>12, <1>16 DEF Unknown, Quiet
<1> QED
  BY <1>1, <1>6, <1>7, <1>8, <1>9, <1>10, <1>11, <1>13, <1>14, <1>15, <1>16
     DEF Key, CarriageReturn

LEMMA BufferKept ==
  ASSUME cmd_buf \in Buffers(Elements, Size), only_letters(cmd_buf), Quiet \/ Ends \/ Edited
  PROVE  cmd_buf' \in Buffers(Elements, Size) /\ only_letters(cmd_buf)'
<1>1. /\ Size \in Nat /\ cmd_buf.cursor \in 0 .. cmd_buf.end /\ cmd_buf.end \in 0 .. Size - 1
      /\ cmd_buf.end \in Nat
      /\ cmd_buf = [line |-> cmd_buf.line, cursor |-> cmd_buf.cursor, end |-> cmd_buf.end]
  BY Types
<1>2. CASE Quiet
  BY <1>2 DEF Quiet, only_letters
<1>3. CASE Ends
  BY <1>3, Terminated DEF Ends, only_letters
<1>4. ASSUME NEW l \in Letters, Inserts(l)
      PROVE  cmd_buf' \in Buffers(Elements, Size) /\ only_letters(cmd_buf)'
  <2>1. /\ cmd_buf' = insert(cmd_buf, l) /\ insert(cmd_buf, l) \in Buffers(Elements, Size)
        /\ cmd_buf'.end = cmd_buf.end + 1
        /\ \A i \in 0 .. cmd_buf.end :
             cmd_buf'.line[i] = IF i < cmd_buf.cursor THEN cmd_buf.line[i]
                                ELSE IF i = cmd_buf.cursor THEN l ELSE cmd_buf.line[i - 1]
    BY <1>4, Inserted DEF Inserts, Edits
  <2>2. \A i \in 0 .. cmd_buf'.end - 1 : cmd_buf'.line[i] \in Letters
    BY <1>1, <2>1 DEF only_letters
  <2> QED
    BY <2>1, <2>2 DEF only_letters
<1>5. CASE Erases
  <2>1. /\ cmd_buf' = backspace(cmd_buf) /\ backspace(cmd_buf) \in Buffers(Elements, Size)
        /\ cmd_buf'.end = cmd_buf.end - 1
        /\ \A i \in 0 .. cmd_buf.end - 2 :
             cmd_buf'.line[i] = IF i < cmd_buf.cursor - 1 THEN cmd_buf.line[i]
                                                          ELSE cmd_buf.line[i + 1]
    BY <1>5, Backspaced DEF Erases, Edits
  <2>2. \A i \in 0 .. cmd_buf'.end - 1 : cmd_buf'.line[i] \in Letters
    BY <1>1, <2>1 DEF only_letters
  <2> QED
    BY <2>1, <2>2 DEF only_letters
<1>6. CASE Deletes
  <2>1. cmd_buf' = del(cmd_buf) /\ del(cmd_buf) \in Buffers(Elements, Size)
    BY <1>6, Deleted DEF Deletes, Edits
  <2>2. CASE cmd_buf.cursor = cmd_buf.end
    BY <2>1, <2>2, Deleted DEF only_letters
  <2>3. CASE cmd_buf.cursor # cmd_buf.end
    <3>1. /\ cmd_buf'.end = cmd_buf.end - 1
          /\ \A i \in 0 .. cmd_buf.end - 2 :
               cmd_buf'.line[i] = IF i < cmd_buf.cursor THEN cmd_buf.line[i]
                                                        ELSE cmd_buf.line[i + 1]
      BY <2>1, <2>3, Deleted
    <3>2. \A i \in 0 .. cmd_buf'.end - 1 : cmd_buf'.line[i] \in Letters
      BY <1>1, <3>1 DEF only_letters
    <3> QED
      BY <2>1, <3>2 DEF only_letters
  <2> QED
    BY <2>2, <2>3
<1>7. CASE GoesLeft \/ GoesRight
  <2>1. /\ cmd_buf' \in Buffers(Elements, Size)
        /\ \E c : cmd_buf' = [cmd_buf EXCEPT !.cursor = c]
    BY <1>7, Moved DEF GoesLeft, GoesRight, Edits
  <2>2. cmd_buf'.end = cmd_buf.end /\ cmd_buf'.line = cmd_buf.line
    BY <1>1, <2>1
  <2> QED
    BY <2>1, <2>2 DEF only_letters
<1> QED
  BY <1>2, <1>3, <1>4, <1>5, <1>6, <1>7 DEF Edited

(* What is sent: a part of the line as it will be, from a column on, and as   *)
(* many steps back as bring the cursor to where it belongs.                   *)

target(b) == as_shown(span(b))

LEMMA Target ==
  ASSUME NEW b \in Buffers(Elements, Size)
  PROVE  /\ target(b) = [k \in 0 .. Size |-> target(b)[k]]
         /\ \A k \in 0 .. Size : target(b)[k] = IF k < b.end THEN b.line[k] ELSE space
         /\ only_letters(b) => \A k \in 0 .. Size : target(b)[k] \in Letters \cup {space}
<1>1. /\ Len(span(b)) = b.end /\ \A i \in 1 .. b.end : span(b)[i] = b.line[i - 1]
  BY Span
<1>2. Size \in Nat /\ b.end \in 0 .. Size - 1
  BY Types
<1>3. target(b) = [k \in 0 .. Size |-> IF k < Len(span(b)) THEN span(b)[k + 1] ELSE space]
  BY DEF target, as_shown
<1>4. \A k \in 0 .. Size : k < b.end => span(b)[k + 1] = b.line[k]
  BY <1>1, <1>2
<1>5. \A k \in 0 .. Size : target(b)[k] = IF k < b.end THEN b.line[k] ELSE space
  BY <1>1, <1>3, <1>4
<1>6. only_letters(b) => \A k \in 0 .. Size : target(b)[k] \in Letters \cup {space}
  BY <1>2, <1>5 DEF only_letters
<1> QED
  BY <1>3, <1>5, <1>6

reprints(o, col, n, m, b) ==
  /\ o \in Seq(Chars) /\ Len(o) = n + m
  /\ col \in Nat /\ n \in Nat /\ m \in Nat
  /\ col + n <= Size + 1 /\ col + n - m = b.cursor
  /\ \A i \in 1 .. n : o[i] = target(b)[col + i - 1]
  /\ \A i \in n + 1 .. n + m : o[i] = "BS"

LEMMA Back ==
  ASSUME NEW m \in Nat
  PROVE  /\ uart_send_move_back(m) \in Seq(Chars) /\ Len(uart_send_move_back(m)) = m
         /\ \A i \in 1 .. m : uart_send_move_back(m)[i] = "BS"
BY DEF uart_send_move_back, Chars

LEMMA Rest ==
  ASSUME NEW b \in Buffers(Elements, Size), only_letters(b)
  PROVE  /\ from_cursor_to_end(b) \in Seq(Chars)
         /\ Len(from_cursor_to_end(b)) = b.end - b.cursor
         /\ b.end - b.cursor \in Nat
         /\ \A i \in 1 .. b.end - b.cursor :
              from_cursor_to_end(b)[i] = target(b)[b.cursor + i - 1]
<1>1. /\ Size \in Nat /\ b.cursor \in 0 .. b.end /\ b.end \in 0 .. Size - 1
  BY Types
<1>2. \A i \in 1 .. b.end - b.cursor :
        /\ b.cursor + i - 1 \in 0 .. b.end - 1 /\ b.cursor + i - 1 \in 0 .. Size
        /\ b.line[b.cursor + i - 1] \in Letters
  BY <1>1 DEF only_letters
<1>3. \A i \in 1 .. b.end - b.cursor : target(b)[b.cursor + i - 1] = b.line[b.cursor + i - 1]
  BY <1>1, <1>2, Target
<1>4. b.end - b.cursor \in Nat
  BY <1>1
<1> QED
  BY <1>2, <1>3, <1>4 DEF from_cursor_to_end, Chars

LEMMA Concat ==
  ASSUME NEW S, NEW s \in Seq(S), NEW t \in Seq(S)
  PROVE  /\ s \o t \in Seq(S) /\ Len(s \o t) = Len(s) + Len(t)
         /\ \A i \in 1 .. Len(s) : (s \o t)[i] = s[i]
         /\ \A i \in Len(s) + 1 .. Len(s) + Len(t) : (s \o t)[i] = t[i - Len(s)]
<1> DEFINE u == s \o t
<1>0. Len(s) \in Nat /\ Len(t) \in Nat
  OBVIOUS
<1>1. /\ u \in Seq(S) /\ Len(u) = Len(s) + Len(t)
      /\ \A i \in 1 .. Len(s) + Len(t) :
           u[i] = IF i <= Len(s) THEN s[i] ELSE t[i - Len(s)]
  BY ConcatProperties
<1> HIDE DEF u
<1>3. /\ \A i \in 1 .. Len(s) : u[i] = s[i]
      /\ \A i \in Len(s) + 1 .. Len(s) + Len(t) : u[i] = t[i - Len(s)]
  BY <1>0, <1>1
<1> QED
  BY <1>1, <1>3 DEF u

LEMMA RestAndBack ==
  ASSUME NEW b \in Buffers(Elements, Size), only_letters(b)
  PROVE  reprints(rest_and_back(b), b.cursor, b.end - b.cursor, b.end - b.cursor, b)
<1> DEFINE n == b.end - b.cursor
           f == from_cursor_to_end(b)
           g == uart_send_move_back(n)
<1>1. /\ Size \in Nat /\ b.cursor \in 0 .. b.end /\ b.end \in 0 .. Size - 1
  BY Types
<1>2. /\ n \in Nat /\ f \in Seq(Chars) /\ Len(f) = n
      /\ \A i \in 1 .. n : f[i] = target(b)[b.cursor + i - 1]
  BY Rest
<1>3. /\ g \in Seq(Chars) /\ Len(g) = n /\ \A i \in 1 .. n : g[i] = "BS"
  BY <1>2, Back
<1>4. rest_and_back(b) = f \o g
  BY DEF rest_and_back, elements_after_cursor_count
<1>5. b.cursor + n <= Size + 1 /\ b.cursor + n - n = b.cursor /\ b.cursor \in Nat
  BY <1>1
<1> HIDE DEF n, f, g
<1>6. /\ f \o g \in Seq(Chars) /\ Len(f \o g) = n + n
      /\ \A i \in 1 .. n : (f \o g)[i] = f[i]
      /\ \A i \in n + 1 .. n + n : (f \o g)[i] = g[i - n]
  <2>1. /\ f \o g \in Seq(Chars) /\ Len(f \o g) = Len(f) + Len(g)
        /\ \A i \in 1 .. Len(f) : (f \o g)[i] = f[i]
        /\ \A i \in Len(f) + 1 .. Len(f) + Len(g) : (f \o g)[i] = g[i - Len(f)]
    BY <1>2, <1>3, Concat
  <2> QED
    BY <1>2, <1>3, <2>1, Zenon
<1>7. \A i \in n + 1 .. n + n : g[i - n] = "BS"
  BY <1>2, <1>3
<1>8. reprints(f \o g, b.cursor, n, n, b)
  <2> DEFINE o == f \o g
  <2> HIDE DEF o
  <2>1. /\ o \in Seq(Chars) /\ Len(o) = n + n
        /\ \A i \in 1 .. n : o[i] = target(b)[b.cursor + i - 1]
        /\ \A i \in n + 1 .. n + n : o[i] = "BS"
    BY <1>2, <1>6, <1>7 DEF o
  <2>2. reprints(o, b.cursor, n, n, b)
    BY <1>2, <1>5, <2>1 DEF reprints
  <2> QED
    BY <2>2 DEF o
<1> QED
  BY <1>4, <1>8 DEF n

LEMMA RestBlankAndBack ==
  ASSUME NEW b \in Buffers(Elements, Size), only_letters(b)
  PROVE  reprints(rest_blank_and_back(b), b.cursor,
                  b.end - b.cursor + 1, b.end - b.cursor + 1, b)
<1> DEFINE n == b.end - b.cursor
           f == from_cursor_to_end(b)
           p == <<space>>
           g == uart_send_move_back(n + 1)
           h == f \o p
<1>1. /\ Size \in Nat /\ b.cursor \in 0 .. b.end /\ b.end \in 0 .. Size - 1
  BY Types
<1>2. /\ n \in Nat /\ f \in Seq(Chars) /\ Len(f) = n
      /\ \A i \in 1 .. n : f[i] = target(b)[b.cursor + i - 1]
  BY Rest
<1>3. /\ g \in Seq(Chars) /\ Len(g) = n + 1 /\ \A i \in 1 .. n + 1 : g[i] = "BS"
  <2>1. n + 1 \in Nat
    BY <1>2
  <2> HIDE DEF n
  <2> QED
    BY <2>1, Back
<1>4. p \in Seq(Chars) /\ Len(p) = 1 /\ p[1] = space
  BY DEF Chars
<1>5. rest_blank_and_back(b) = h \o g
  BY DEF rest_blank_and_back, elements_after_cursor_count
<1>6. /\ b.cursor + (n + 1) <= Size + 1 /\ b.cursor + (n + 1) - (n + 1) = b.cursor
      /\ b.cursor \in Nat /\ b.cursor + n = b.end
  BY <1>1
<1>7. target(b)[b.end] = space
  BY <1>1, Target
<1> HIDE DEF n, f, g, p
<1>8. /\ h \in Seq(Chars) /\ Len(h) = n + 1
      /\ \A i \in 1 .. n + 1 : h[i] = target(b)[b.cursor + i - 1]
  <2>1. /\ h \in Seq(Chars) /\ Len(h) = n + 1
        /\ \A i \in 1 .. n : h[i] = f[i]
        /\ \A i \in n + 1 .. n + 1 : h[i] = p[i - n]
    <3>1. /\ h \in Seq(Chars) /\ Len(h) = Len(f) + Len(p)
          /\ \A i \in 1 .. Len(f) : h[i] = f[i]
          /\ \A i \in Len(f) + 1 .. Len(f) + Len(p) : h[i] = p[i - Len(f)]
      BY <1>2, <1>4, Concat
    <3> QED
      BY <1>2, <1>4, <3>1, Zenon
  <2> HIDE DEF h
  <2>2. h[n + 1] = space
    <3>1. n + 1 \in n + 1 .. n + 1 /\ (n + 1) - n = 1
      BY <1>2
    <3> QED
      BY <1>4, <2>1, <3>1
  <2>3. ASSUME NEW i \in 1 .. n + 1 PROVE h[i] = target(b)[b.cursor + i - 1]
    <3>1. CASE i = n + 1
      <4>1. b.cursor + i - 1 = b.end
        BY <1>2, <1>6, <3>1
      <4> QED
        BY <1>7, <2>2, <3>1, <4>1
    <3>2. CASE i # n + 1
      <4>1. i \in 1 .. n
        BY <1>2, <3>2
      <4> QED
        BY <1>2, <2>1, <4>1
    <3> QED
      BY <3>1, <3>2
  <2> QED
    BY <2>1, <2>3
<1> HIDE DEF h
<1>9. reprints(h \o g, b.cursor, n + 1, n + 1, b)
  <2> DEFINE o == h \o g
             m == n + 1
  <2>1. m \in Nat
    BY <1>2
  <2>2. /\ o \in Seq(Chars) /\ Len(o) = m + m
        /\ \A i \in 1 .. m : o[i] = h[i]
        /\ \A i \in m + 1 .. m + m : o[i] = g[i - m]
    <3> HIDE DEF m
    <3>1. Len(h) = m /\ Len(g) = m
      BY <1>3, <1>8 DEF m
    <3>2. /\ o \in Seq(Chars) /\ Len(o) = Len(h) + Len(g)
          /\ \A i \in 1 .. Len(h) : o[i] = h[i]
          /\ \A i \in Len(h) + 1 .. Len(h) + Len(g) : o[i] = g[i - Len(h)]
      BY <1>3, <1>8, Concat
    <3> QED
      BY <3>1, <3>2, Zenon
  <2> HIDE DEF o
  <2>3. \A i \in m + 1 .. m + m : o[i] = "BS"
    <3> TAKE i \in m + 1 .. m + m
    <3>1. i - m \in 1 .. n + 1
      BY <1>2
    <3> QED
      BY <1>3, <2>2, <3>1
  <2>4. \A i \in 1 .. m : o[i] = target(b)[b.cursor + i - 1]
    BY <1>8, <2>2
  <2>5. b.cursor + m <= Size + 1 /\ b.cursor + m - m = b.cursor /\ b.cursor \in Nat
    BY <1>6
  <2> HIDE DEF m
  <2>6. reprints(o, b.cursor, m, m, b)
    BY <2>1, <2>2, <2>3, <2>4, <2>5 DEF reprints
  <2> QED
    BY <2>6 DEF o, m
<1> QED
  BY <1>5, <1>9 DEF n

LEMMA FirstThen ==
  ASSUME NEW b, NEW o, NEW col \in Nat, NEW n \in Nat, NEW m \in Nat,
         reprints(o, col + 1, n, m, b), NEW ch \in Chars, ch = target(b)[col]
  PROVE  reprints(<<ch>> \o o, col, n + 1, m, b)
<1> DEFINE p == <<ch>>
           r == p \o o
<1>1. p \in Seq(Chars) /\ Len(p) = 1 /\ p[1] = ch
  OBVIOUS
<1>2. /\ o \in Seq(Chars) /\ Len(o) = n + m
      /\ (col + 1) + n <= Size + 1 /\ (col + 1) + n - m = b.cursor
      /\ \A i \in 1 .. n : o[i] = target(b)[(col + 1) + i - 1]
      /\ \A i \in n + 1 .. n + m : o[i] = "BS"
  BY DEF reprints
<1> HIDE DEF p
<1>3. /\ r \in Seq(Chars) /\ Len(r) = 1 + (n + m)
      /\ \A i \in 1 .. 1 : r[i] = p[i]
      /\ \A i \in 1 + 1 .. 1 + (n + m) : r[i] = o[i - 1]
  <2> DEFINE k == n + m
  <2>1. k \in Nat /\ 1 \in Nat /\ Len(o) = k
    BY <1>2
  <2> HIDE DEF k
  <2>2. /\ r \in Seq(Chars) /\ Len(r) = 1 + k
        /\ \A i \in 1 .. 1 : r[i] = p[i]
        /\ \A i \in 1 + 1 .. 1 + k : r[i] = o[i - 1]
    <3>1. /\ r \in Seq(Chars) /\ Len(r) = Len(p) + Len(o)
          /\ \A i \in 1 .. Len(p) : r[i] = p[i]
          /\ \A i \in Len(p) + 1 .. Len(p) + Len(o) : r[i] = o[i - Len(p)]
      BY <1>1, <1>2, Concat
    <3> QED
      BY <1>1, <2>1, <3>1, Zenon
  <2> QED
    BY <2>2 DEF k
<1> HIDE DEF r
<1>4. \A i \in 1 .. n + 1 : r[i] = target(b)[col + i - 1]
  <2> TAKE i \in 1 .. n + 1
  <2>1. CASE i = 1
    <3>1. col + i - 1 = col
      BY <2>1
    <3> QED
      BY <1>1, <1>3, <2>1, <3>1
  <2>2. CASE i # 1
    <3>1. i - 1 \in 1 .. n /\ i \in 1 + 1 .. 1 + (n + m) /\ (col + 1) + (i - 1) - 1 = col + i - 1
      BY <2>2
    <3> QED
      BY <1>2, <1>3, <3>1
  <2> QED
    BY <2>1, <2>2
<1>5. \A i \in (n + 1) + 1 .. (n + 1) + m : r[i] = "BS"
  <2> TAKE i \in (n + 1) + 1 .. (n + 1) + m
  <2>1. i - 1 \in n + 1 .. n + m /\ i \in 1 + 1 .. 1 + (n + m)
    OBVIOUS
  <2> QED
    BY <1>2, <1>3, <2>1
<1>6. reprints(r, col, n + 1, m, b)
  <2>1. Len(r) = (n + 1) + m /\ col + (n + 1) <= Size + 1 /\ col + (n + 1) - m = b.cursor
    <3>1. Size \in Nat
      BY LineEditorAssumption
    <3> QED
      BY <1>2, <1>3, <3>1
  <2>2. n + 1 \in Nat /\ r \in Seq(Chars)
    BY <1>3
  <2> DEFINE n2 == n + 1
  <2>3. /\ n2 \in Nat /\ Len(r) = n2 + m /\ col + n2 <= Size + 1 /\ col + n2 - m = b.cursor
        /\ \A i \in 1 .. n2 : r[i] = target(b)[col + i - 1]
        /\ \A i \in n2 + 1 .. n2 + m : r[i] = "BS"
    BY <1>4, <1>5, <2>1, <2>2
  <2> HIDE DEF n2
  <2>4. reprints(r, col, n2, m, b)
    BY <2>2, <2>3 DEF reprints
  <2> QED
    BY <2>4 DEF n2
<1> QED
  BY <1>6 DEF r, p

(* What the characters that are on their way will have done: they print a     *)
(* part of the line and go back, after a DEL or not, or move the cursor.       *)

Texts == [0 .. Size -> Letters \cup {space}]

shown(x, c, s) == [text |-> x, col |-> c, seen |-> s]

prints(x, c, o, b) ==
  /\ x \in Texts
  /\ \E n \in Nat, m \in Nat :
       /\ reprints(o, c, n, m, b)
       /\ \A k \in 0 .. Size : k < c \/ k >= c + n => x[k] = target(b)[k]

erases(x, c, o, b) == /\ o # <<>> /\ Head(o) = "DEL" /\ x \in Texts /\ c \in Nat \ {0}
                      /\ o \in Seq(Chars)
                      /\ prints([x EXCEPT ![c - 1] = space], c - 1, Tail(o), b)

moves(x, c, s, o, b) ==
  /\ x = target(b) /\ c \in Nat
  /\ \E d \in {"D", "C"} :
       /\ b.cursor = IF d = "D" THEN c - 1 ELSE c + 1
       /\ \/ s = "text" /\ o = <<"ESC", "[", d>>
          \/ s = "ESC"  /\ o = <<"[", d>>
          \/ s = "["    /\ o = <<d>>

Coming(x, c, s, o, b) == \/ s = "text" /\ prints(x, c, o, b)
                         \/ s = "text" /\ erases(x, c, o, b)
                         \/ moves(x, c, s, o, b)

LEMMA SpaceIsText == space \notin {"ESC", "BS", "DEL", "CR"}
BY Zenon DEF space

LEMMA TargetIsText ==
  ASSUME NEW b \in Buffers(Elements, Size), only_letters(b)
  PROVE  target(b) \in Texts
<1>1. target(b) = [k \in 0 .. Size |-> target(b)[k]]
  BY Target
<1>2. \A k \in 0 .. Size : target(b)[k] \in Letters \cup {space}
  BY Target
<1> QED
  BY <1>1, <1>2 DEF Texts

LEMMA TextIsShown ==
  ASSUME NEW x \in Texts, NEW c \in Nat, NEW ch \in Letters \cup {space}
  PROVE  /\ Shows(shown(x, c, "text"), ch) = shown([x EXCEPT ![c] = ch], c + 1, "text")
         /\ [x EXCEPT ![c] = ch] \in Texts
<1>1. ch \notin {"ESC", "BS", "DEL"}
  BY SpaceIsText, LineEditorAssumption
<1>2. Shows(shown(x, c, "text"), ch) = shown([x EXCEPT ![c] = ch], c + 1, "text")
  BY <1>1 DEF Shows, shown
<1>3. [x EXCEPT ![c] = ch] \in Texts
  BY DEF Texts
<1> QED
  BY <1>2, <1>3

LEMMA ControlIsShown ==
  ASSUME NEW x \in Texts, NEW c \in Nat
  PROVE  /\ Shows(shown(x, c, "text"), "BS")  = shown(x, c - 1, "text")
         /\ Shows(shown(x, c, "text"), "DEL") = shown([x EXCEPT ![c - 1] = space], c - 1, "text")
         /\ Shows(shown(x, c, "text"), "ESC") = shown(x, c, "ESC")
         /\ Shows(shown(x, c, "ESC"), "[")    = shown(x, c, "[")
         /\ Shows(shown(x, c, "["), "D")      = shown(x, c - 1, "text")
         /\ Shows(shown(x, c, "["), "C")      = shown(x, c + 1, "text")
         /\ [x EXCEPT ![c - 1] = space] \in Texts
<1>1. [x EXCEPT ![c - 1] = space] \in Texts
  BY DEF Texts
<1>2. Shows(shown(x, c, "text"), "BS") = shown(x, c - 1, "text")
  BY DEF Shows, shown
<1>3. Shows(shown(x, c, "text"), "DEL") = shown([x EXCEPT ![c - 1] = space], c - 1, "text")
  BY DEF Shows, shown
<1>4. Shows(shown(x, c, "text"), "ESC") = shown(x, c, "ESC")
  BY DEF Shows, shown
<1>5. Shows(shown(x, c, "ESC"), "[") = shown(x, c, "[")
  BY DEF Shows, shown
<1>6. Shows(shown(x, c, "["), "D") = shown(x, c - 1, "text")
  BY DEF Shows, shown
<1>7. Shows(shown(x, c, "["), "C") = shown(x, c + 1, "text")
  BY DEF Shows, shown
<1> QED
  BY <1>1, <1>2, <1>3, <1>4, <1>5, <1>6, <1>7

LEMMA FirstAndRest ==
  ASSUME NEW S, NEW o \in Seq(S), o # <<>>
  PROVE  /\ Len(o) \in Nat /\ Len(o) >= 1
         /\ Head(o) = o[1] /\ Head(o) \in S
         /\ Tail(o) \in Seq(S) /\ Len(Tail(o)) = Len(o) - 1
         /\ \A i \in 1 .. Len(o) - 1 : Tail(o)[i] = o[i + 1]
<1>1. Len(o) \in Nat /\ Len(o) >= 1
  BY EmptySeq
<1>2. Head(o) = o[1] /\ Head(o) \in S
  BY <1>1
<1>3. /\ Tail(o) \in Seq(S) /\ Len(Tail(o)) = Len(o) - 1
      /\ \A i \in 1 .. Len(o) - 1 : Tail(o)[i] = o[i + 1]
  BY <1>1, HeadTailProperties
<1> QED
  BY <1>1, <1>2, <1>3

LEMMA OneThen ==
  ASSUME NEW S, NEW p \in Seq(S), NEW o \in Seq(S), Len(p) = 1
  PROVE  /\ p \o o # <<>> /\ p \o o \in Seq(S)
         /\ Head(p \o o) = p[1] /\ Tail(p \o o) = o
<1> DEFINE r == p \o o
<1>1. Len(o) \in Nat
  OBVIOUS
<1>2. /\ r \in Seq(S) /\ Len(r) = Len(p) + Len(o)
      /\ \A i \in 1 .. Len(p) : r[i] = p[i]
      /\ \A i \in Len(p) + 1 .. Len(p) + Len(o) : r[i] = o[i - Len(p)]
  BY Concat
<1> HIDE DEF r
<1>3. Len(r) = 1 + Len(o) /\ r[1] = p[1] /\ r # <<>>
  BY <1>1, <1>2
<1>4. \A i \in 1 .. Len(o) : r[i + 1] = o[i]
  BY <1>1, <1>2
<1>5. /\ Head(r) = r[1] /\ Tail(r) \in Seq(S) /\ Len(Tail(r)) = Len(o)
      /\ \A i \in 1 .. Len(o) : Tail(r)[i] = r[i + 1]
  <2>1. /\ Head(r) = r[1] /\ Tail(r) \in Seq(S) /\ Len(Tail(r)) = Len(r) - 1
        /\ \A i \in 1 .. Len(r) - 1 : Tail(r)[i] = r[i + 1]
    BY <1>2, <1>3, FirstAndRest
  <2>2. Len(r) - 1 = Len(o)
    BY <1>1, <1>3
  <2> QED
    BY <2>1, <2>2
<1>6. Tail(r) = o
  BY <1>4, <1>5, SeqEqual
<1> QED
  BY <1>2, <1>3, <1>5, <1>6 DEF r

LEMMA PrintsOn ==
  ASSUME NEW b \in Buffers(Elements, Size), only_letters(b),
         NEW x, NEW c, NEW o, prints(x, c, o, b), o # <<>>
  PROVE  \E y, d : /\ Shows(shown(x, c, "text"), Head(o)) = shown(y, d, "text")
                   /\ prints(y, d, Tail(o), b)
<1>1. PICK n \in Nat, m \in Nat :
        /\ reprints(o, c, n, m, b)
        /\ \A k \in 0 .. Size : k < c \/ k >= c + n => x[k] = target(b)[k]
  BY DEF prints
<1>2. /\ x \in Texts /\ c \in Nat /\ o \in Seq(Chars) /\ Len(o) = n + m
      /\ c + n <= Size + 1 /\ c + n - m = b.cursor
      /\ \A i \in 1 .. n : o[i] = target(b)[c + i - 1]
      /\ \A i \in n + 1 .. n + m : o[i] = "BS"
  BY <1>1 DEF prints, reprints
<1>3. /\ n + m >= 1 /\ Head(o) = o[1] /\ Tail(o) \in Seq(Chars) /\ Len(Tail(o)) = n + m - 1
      /\ \A i \in 1 .. n + m - 1 : Tail(o)[i] = o[i + 1]
  BY <1>2, FirstAndRest
<1>4. /\ Size \in Nat /\ b.cursor \in Nat
  BY Types
<1> DEFINE r == Tail(o)
<1>5. /\ r \in Seq(Chars) /\ Len(r) = n + m - 1
      /\ \A i \in 1 .. n + m - 1 : r[i] = o[i + 1]
  BY <1>3
<1> HIDE DEF r
<1>6. CASE n = 0
  <2>1. Head(o) = "BS" /\ m >= 1
    BY <1>2, <1>3, <1>6
  <2>2. Shows(shown(x, c, "text"), Head(o)) = shown(x, c - 1, "text")
    BY <1>2, <2>1, ControlIsShown
  <2>3. c - 1 \in Nat /\ m - 1 \in Nat
    BY <1>2, <1>4, <1>6, <2>1
  <2>4. \A k \in 0 .. Size : x[k] = target(b)[k]
    BY <1>1, <1>2, <1>4, <1>6
  <2>5. prints(x, c - 1, r, b)
    <3> DEFINE d == c - 1
               m1 == m - 1
    <3>1. /\ r \in Seq(Chars) /\ Len(r) = 0 + m1 /\ d \in Nat /\ m1 \in Nat
          /\ d + 0 <= Size + 1 /\ d + 0 - m1 = b.cursor
          /\ \A i \in 1 .. 0 : r[i] = target(b)[d + i - 1]
          /\ \A i \in 0 + 1 .. 0 + m1 : r[i] = "BS"
      BY <1>2, <1>4, <1>5, <1>6, <2>1, <2>3
    <3> HIDE DEF d, m1
    <3>2. reprints(r, d, 0, m1, b)
      BY <3>1 DEF reprints
    <3>3. prints(x, d, r, b)
      BY <1>2, <2>4, <3>1, <3>2 DEF prints
    <3> QED
      BY <3>3 DEF d
  <2> QED
    BY <2>2, <2>5 DEF r
<1>7. CASE n # 0
  <2>1. c \in 0 .. Size /\ Head(o) = target(b)[c]
    <3>1. 1 \in 1 .. n /\ c + 1 - 1 = c /\ c \in 0 .. Size
      BY <1>2, <1>4, <1>7
    <3> QED
      BY <1>2, <1>3, <3>1
  <2>2. Head(o) \in Letters \cup {space}
    BY <2>1, Target
  <2> DEFINE y == [x EXCEPT ![c] = Head(o)]
  <2>3. Shows(shown(x, c, "text"), Head(o)) = shown(y, c + 1, "text") /\ y \in Texts
    BY <1>2, <2>2, TextIsShown
  <2>4. \A k \in 0 .. Size : y[k] = IF k = c THEN target(b)[c] ELSE x[k]
    BY <1>2, <2>1 DEF Texts
  <2> HIDE DEF y
  <2> DEFINE d == c + 1
             n1 == n - 1
  <2>5. /\ r \in Seq(Chars) /\ Len(r) = n1 + m /\ d \in Nat /\ n1 \in Nat
        /\ d + n1 <= Size + 1 /\ d + n1 - m = b.cursor
    BY <1>2, <1>4, <1>5, <1>7
  <2>6. \A i \in 1 .. n1 : r[i] = target(b)[d + i - 1]
    <3> TAKE i \in 1 .. n1
    <3>1. i \in 1 .. n + m - 1 /\ i + 1 \in 1 .. n /\ c + (i + 1) - 1 = d + i - 1
      BY <1>2, <1>7
    <3>2. r[i] = o[i + 1] /\ o[i + 1] = target(b)[c + (i + 1) - 1]
      BY <1>2, <1>5, <3>1
    <3> QED
      BY <3>1, <3>2
  <2>7. \A i \in n1 + 1 .. n1 + m : r[i] = "BS"
    <3> TAKE i \in n1 + 1 .. n1 + m
    <3>1. i \in 1 .. n + m - 1 /\ i + 1 \in n + 1 .. n + m
      BY <1>2, <1>7
    <3> QED
      BY <1>2, <1>5, <3>1
  <2>8. \A k \in 0 .. Size : k < d \/ k >= d + n1 => y[k] = target(b)[k]
    BY <1>1, <1>2, <1>7, <2>4
  <2> HIDE DEF d, n1
  <2>9. reprints(r, d, n1, m, b)
    BY <2>5, <2>6, <2>7 DEF reprints
  <2>10. prints(y, d, r, b)
    BY <2>3, <2>5, <2>8, <2>9 DEF prints
  <2> QED
    BY <2>3, <2>10 DEF d, r
<1> QED
  BY <1>6, <1>7

LEMMA AllPrinted ==
  ASSUME NEW b \in Buffers(Elements, Size), NEW x, NEW c
  PROVE  prints(x, c, <<>>, b) <=> x \in Texts /\ c = b.cursor /\ \A k \in 0 .. Size : x[k] = target(b)[k]
<1>1. Size \in Nat /\ b.cursor \in 0 .. Size - 1
  BY Types
<1>2. ASSUME prints(x, c, <<>>, b)
      PROVE  x \in Texts /\ c = b.cursor /\ \A k \in 0 .. Size : x[k] = target(b)[k]
  <2>1. PICK n \in Nat, m \in Nat :
          /\ reprints(<<>>, c, n, m, b)
          /\ \A k \in 0 .. Size : k < c \/ k >= c + n => x[k] = target(b)[k]
    BY <1>2 DEF prints
  <2>2. Len(<<>>) = n + m /\ c \in Nat /\ c + n - m = b.cursor
    BY <2>1 DEF reprints
  <2>3. n = 0 /\ m = 0
    BY <2>2
  <2> QED
    BY <1>1, <1>2, <2>1, <2>2, <2>3 DEF prints
<1>3. ASSUME x \in Texts, c = b.cursor, \A k \in 0 .. Size : x[k] = target(b)[k]
      PROVE  prints(x, c, <<>>, b)
  <2>1. reprints(<<>>, c, 0, 0, b)
    BY <1>1, <1>3 DEF reprints
  <2> QED
    BY <1>3, <2>1 DEF prints
<1> QED
  BY <1>2, <1>3

LEMMA AllShown ==
  ASSUME NEW b \in Buffers(Elements, Size), only_letters(b), NEW x, NEW c, NEW s
  PROVE  Coming(x, c, s, <<>>, b) <=> s = "text" /\ x = target(b) /\ c = b.cursor
<1>1. x = target(b) <=> x \in Texts /\ \A k \in 0 .. Size : x[k] = target(b)[k]
  <2>1. ASSUME x \in Texts, \A k \in 0 .. Size : x[k] = target(b)[k]
        PROVE  x = target(b)
    <3>1. x = [k \in 0 .. Size |-> x[k]] /\ target(b) = [k \in 0 .. Size |-> target(b)[k]]
      BY <2>1, Target DEF Texts
    <3> QED
      BY <2>1, <3>1
  <2> QED
    BY <2>1, TargetIsText
<1>2. ~erases(x, c, <<>>, b)
  BY DEF erases
<1>3. ~moves(x, c, s, <<>>, b)
  BY DEF moves
<1>4. prints(x, c, <<>>, b) <=> x = target(b) /\ c = b.cursor
  BY <1>1, AllPrinted
<1> QED
  BY <1>2, <1>3, <1>4 DEF Coming

LEMMA ComesOn ==
  ASSUME NEW b \in Buffers(Elements, Size), only_letters(b),
         NEW x, NEW c, NEW s, NEW o, Coming(x, c, s, o, b), o # <<>>
  PROVE  \E y, d, u : /\ Shows(shown(x, c, s), Head(o)) = shown(y, d, u)
                      /\ Coming(y, d, u, Tail(o), b)
<1>1. CASE s = "text" /\ prints(x, c, o, b)
  BY <1>1, PrintsOn DEF Coming
<1>2. CASE s = "text" /\ erases(x, c, o, b)
  <2>1. /\ Head(o) = "DEL" /\ x \in Texts /\ c \in Nat
        /\ prints([x EXCEPT ![c - 1] = space], c - 1, Tail(o), b)
    BY <1>2 DEF erases
  <2>2. Shows(shown(x, c, s), Head(o)) = shown([x EXCEPT ![c - 1] = space], c - 1, "text")
    BY <1>2, <2>1, ControlIsShown
  <2> QED
    BY <2>1, <2>2 DEF Coming
<1>3. CASE moves(x, c, s, o, b)
  <2>1. PICK d \in {"D", "C"} :
          /\ b.cursor = IF d = "D" THEN c - 1 ELSE c + 1
          /\ \/ s = "text" /\ o = <<"ESC", "[", d>>
             \/ s = "ESC"  /\ o = <<"[", d>>
             \/ s = "["    /\ o = <<d>>
    BY <1>3 DEF moves
  <2>2. x = target(b) /\ x \in Texts /\ c \in Nat
    BY <1>3, TargetIsText DEF moves
  <2>3. CASE s = "text" /\ o = <<"ESC", "[", d>>
    <3>1. Head(o) = "ESC" /\ Tail(o) = <<"[", d>>
      BY <2>3
    <3>2. Shows(shown(x, c, s), Head(o)) = shown(x, c, "ESC")
      BY <2>2, <2>3, <3>1, ControlIsShown
    <3>3. moves(x, c, "ESC", Tail(o), b)
      BY <2>1, <2>2, <3>1 DEF moves
    <3> QED
      BY <3>2, <3>3 DEF Coming
  <2>4. CASE s = "ESC" /\ o = <<"[", d>>
    <3>1. Head(o) = "[" /\ Tail(o) = <<d>>
      BY <2>4
    <3>2. Shows(shown(x, c, s), Head(o)) = shown(x, c, "[")
      BY <2>2, <2>4, <3>1, ControlIsShown
    <3>3. moves(x, c, "[", Tail(o), b)
      BY <2>1, <2>2, <3>1 DEF moves
    <3> QED
      BY <3>2, <3>3 DEF Coming
  <2>5. CASE s = "[" /\ o = <<d>>
    <3>1. Head(o) = d /\ Tail(o) = <<>>
      BY <2>5
    <3>2. Shows(shown(x, c, s), Head(o)) = shown(x, b.cursor, "text")
      <4>1. CASE d = "D"
        BY <2>1, <2>2, <2>5, <3>1, <4>1, ControlIsShown
      <4>2. CASE d = "C"
        BY <2>1, <2>2, <2>5, <3>1, <4>2, ControlIsShown
      <4> QED
        BY <4>1, <4>2
    <3>3. Coming(x, b.cursor, "text", Tail(o), b)
      BY <2>2, <3>1, AllShown
    <3> QED
      BY <3>2, <3>3
  <2> QED
    BY <2>1, <2>3, <2>4, <2>5
<1> QED
  BY <1>1, <1>2, <1>3 DEF Coming

(* Each key, when everything before it is shown. *)

\* the two texts agree but for the columns from one on, of as many as are printed
LEMMA Reprinted ==
  ASSUME NEW b \in Buffers(Elements, Size), NEW x \in Texts, NEW c, NEW o,
         NEW n \in Nat, NEW m \in Nat, reprints(o, c, n, m, b),
         \A k \in 0 .. Size : k < c \/ k >= c + n => x[k] = target(b)[k]
  PROVE  prints(x, c, o, b)
BY DEF prints

LEMMA InsertShown ==
  ASSUME NEW b \in Buffers(Elements, Size), only_letters(b), ~is_full(b, Size),
         NEW ch \in Letters, only_letters(insert(b, ch))
  PROVE  /\ prints(target(b), b.cursor, <<ch>> \o rest_and_back(insert(b, ch)), insert(b, ch))
         /\ <<ch>> \o rest_and_back(insert(b, ch)) \in Seq(Chars)
<1> DEFINE a == insert(b, ch)
           c == b.cursor
           n == a.end - a.cursor
           e == rest_and_back(a)
<1>1. /\ a \in Buffers(Elements, Size) /\ a.cursor = c + 1 /\ a.end = b.end + 1
      /\ \A i \in 0 .. b.end :
           a.line[i] = IF i < b.cursor THEN b.line[i]
                       ELSE IF i = b.cursor THEN ch ELSE b.line[i - 1]
  BY Inserted
<1>2. /\ Size \in Nat /\ b.cursor \in 0 .. b.end /\ b.end \in 0 .. Size - 1
  BY Types
<1>3. a.end \in 0 .. Size - 1 /\ a.cursor \in 0 .. a.end
  BY <1>1, Types
<1>4. only_letters(a) /\ target(b) \in Texts
  BY TargetIsText
<1>5. \A k \in 0 .. Size : target(b)[k] = IF k < b.end THEN b.line[k] ELSE space
  BY Target
<1> HIDE DEF a
<1>6. \A k \in 0 .. Size : target(a)[k] = IF k < a.end THEN a.line[k] ELSE space
  BY <1>1, Target
<1>7. target(a)[c] = ch
  BY <1>1, <1>2, <1>6
<1>8. n \in Nat /\ c \in Nat /\ c + (n + 1) = a.end
  BY <1>1, <1>2, <1>3
<1>9. reprints(e, c + 1, n, n, a)
  <2>1. reprints(e, a.cursor, n, n, a)
    BY <1>1, <1>4, RestAndBack
  <2> QED
    BY <1>1, <2>1
<1> HIDE DEF c, n, e
<1>10. ch \in Chars
  BY DEF Chars
<1>11. reprints(<<ch>> \o e, c, n + 1, n, a)
  BY <1>7, <1>8, <1>9, <1>10, FirstThen
<1>12. \A k \in 0 .. Size : k < c \/ k >= c + (n + 1) => target(b)[k] = target(a)[k]
  BY <1>1, <1>2, <1>3, <1>5, <1>6, <1>8 DEF c
<1>13. prints(target(b), c, <<ch>> \o e, a)
  <2> DEFINE n1 == n + 1
  <2>1. n1 \in Nat
    BY <1>8
  <2>2. reprints(<<ch>> \o e, c, n1, n, a) /\ \A k \in 0 .. Size : k < c \/ k >= c + n1 => target(b)[k] = target(a)[k]
    BY <1>11, <1>12
  <2> HIDE DEF n1
  <2> QED
    BY <1>1, <1>4, <1>8, <2>1, <2>2, Reprinted
<1>14. <<ch>> \o e \in Seq(Chars)
  BY <1>11 DEF reprints
<1> QED
  BY <1>13, <1>14 DEF a, c, e

LEMMA RestShown ==
  ASSUME NEW a \in Buffers(Elements, Size), only_letters(a), NEW x \in Texts,
         \A k \in 0 .. Size : k < a.cursor \/ k > a.end => x[k] = target(a)[k]
  PROVE  /\ prints(x, a.cursor, rest_blank_and_back(a), a)
         /\ rest_blank_and_back(a) \in Seq(Chars)
<1> DEFINE n == a.end - a.cursor + 1
           o == rest_blank_and_back(a)
<1>1. Size \in Nat /\ a.cursor \in 0 .. a.end /\ a.end \in 0 .. Size - 1
  BY Types
<1>2. n \in Nat /\ a.cursor + n = a.end + 1
  BY <1>1
<1>3. reprints(o, a.cursor, n, n, a)
  BY RestBlankAndBack
<1>4. \A k \in 0 .. Size : k < a.cursor \/ k >= a.cursor + n => x[k] = target(a)[k]
  BY <1>1, <1>2
<1> HIDE DEF n, o
<1>5. prints(x, a.cursor, o, a)
  BY <1>2, <1>3, <1>4, Reprinted
<1>6. o \in Seq(Chars)
  BY <1>3 DEF reprints
<1> QED
  BY <1>5, <1>6 DEF o

LEMMA EraseShown ==
  ASSUME NEW b \in Buffers(Elements, Size), only_letters(b), b.cursor # 0,
         only_letters(backspace(b))
  PROVE  /\ erases(target(b), b.cursor, <<"DEL">> \o rest_blank_and_back(backspace(b)), backspace(b))
         /\ <<"DEL">> \o rest_blank_and_back(backspace(b)) \in Seq(Chars)
<1> DEFINE a == backspace(b)
           x == [target(b) EXCEPT ![b.cursor - 1] = space]
           o == rest_blank_and_back(a)
<1>1. /\ a \in Buffers(Elements, Size) /\ a.cursor = b.cursor - 1 /\ a.end = b.end - 1
      /\ \A i \in 0 .. b.end - 2 :
           a.line[i] = IF i < b.cursor - 1 THEN b.line[i] ELSE b.line[i + 1]
  BY Backspaced
<1>2. /\ Size \in Nat /\ b.cursor \in 1 .. b.end /\ b.end \in 0 .. Size - 1
  BY Types
<1>3. only_letters(a) /\ target(b) \in Texts
  BY TargetIsText
<1>4. \A k \in 0 .. Size : target(b)[k] = IF k < b.end THEN b.line[k] ELSE space
  BY Target
<1> HIDE DEF a
<1>5. \A k \in 0 .. Size : target(a)[k] = IF k < a.end THEN a.line[k] ELSE space
  BY <1>1, Target
<1>6. x \in Texts /\ \A k \in 0 .. Size : x[k] = IF k = b.cursor - 1 THEN space ELSE target(b)[k]
  BY <1>2, <1>3 DEF Texts
<1> HIDE DEF x
<1>7. \A k \in 0 .. Size : k < a.cursor \/ k > a.end => x[k] = target(a)[k]
  BY <1>1, <1>2, <1>4, <1>5, <1>6
<1>8. prints(x, b.cursor - 1, o, a) /\ o \in Seq(Chars)
  BY <1>1, <1>3, <1>6, <1>7, RestShown
<1> HIDE DEF o
<1>9. /\ <<"DEL">> \o o # <<>> /\ Head(<<"DEL">> \o o) = "DEL" /\ Tail(<<"DEL">> \o o) = o
      /\ <<"DEL">> \o o \in Seq(Chars)
  <2> DEFINE p == <<"DEL">>
  <2>1. p \in Seq(Chars) /\ Len(p) = 1 /\ p[1] = "DEL"
    BY DEF Chars
  <2> HIDE DEF p
  <2>2. p \o o # <<>> /\ Head(p \o o) = p[1] /\ Tail(p \o o) = o /\ p \o o \in Seq(Chars)
    BY <1>8, <2>1, OneThen
  <2> QED
    BY <2>1, <2>2 DEF p
<1>10. erases(target(b), b.cursor, <<"DEL">> \o o, a)
  <2> DEFINE r == <<"DEL">> \o o
             t == target(b)
             c == b.cursor
  <2>1. c \in Nat \ {0} /\ t \in Texts /\ prints([t EXCEPT ![c - 1] = space], c - 1, o, a)
    BY <1>2, <1>3, <1>8 DEF x
  <2>2. r # <<>> /\ Head(r) = "DEL" /\ Tail(r) = o /\ r \in Seq(Chars)
    BY <1>9
  <2> HIDE DEF r, t, c
  <2>3. prints([t EXCEPT ![c - 1] = space], c - 1, Tail(r), a)
    BY <2>1, <2>2, Zenon
  <2>4. erases(t, c, r, a)
    BY <2>1, <2>2, <2>3, Zenon DEF erases
  <2> QED
    BY <2>4 DEF r, t, c
<1> QED
  BY <1>9, <1>10 DEF a, o

LEMMA DeleteShown ==
  ASSUME NEW b \in Buffers(Elements, Size), only_letters(b), only_letters(del(b))
  PROVE  /\ prints(target(b), b.cursor, rest_blank_and_back(del(b)), del(b))
         /\ rest_blank_and_back(del(b)) \in Seq(Chars)
<1> DEFINE a == del(b)
<1>1. /\ a \in Buffers(Elements, Size) /\ a.cursor = b.cursor
      /\ b.cursor = b.end => a = b
      /\ b.cursor # b.end =>
           /\ a.end = b.end - 1
           /\ \A i \in 0 .. b.end - 2 : a.line[i] = IF i < b.cursor THEN b.line[i] ELSE b.line[i + 1]
  BY Deleted
<1>2. /\ Size \in Nat /\ b.cursor \in 0 .. b.end /\ b.end \in 0 .. Size - 1
  BY Types
<1>3. only_letters(a) /\ target(b) \in Texts
  BY TargetIsText
<1>4. \A k \in 0 .. Size : target(b)[k] = IF k < b.end THEN b.line[k] ELSE space
  BY Target
<1> HIDE DEF a
<1>5. \A k \in 0 .. Size : target(a)[k] = IF k < a.end THEN a.line[k] ELSE space
  BY <1>1, Target
<1>6. \A k \in 0 .. Size : k < a.cursor \/ k > a.end => target(b)[k] = target(a)[k]
  BY <1>1, <1>2, <1>4, <1>5
<1>7. prints(target(b), a.cursor, rest_blank_and_back(a), a) /\ rest_blank_and_back(a) \in Seq(Chars)
  BY <1>1, <1>3, <1>6, RestShown
<1> QED
  BY <1>1, <1>7 DEF a

LEMMA CursorShown ==
  ASSUME NEW b \in Buffers(Elements, Size), only_letters(b), NEW at \in Nat, NEW d \in {"D", "C"},
         at = (IF d = "D" THEN b.cursor - 1 ELSE b.cursor + 1)
  PROVE  /\ Coming(target(b), b.cursor, "text", arrow(d), [b EXCEPT !.cursor = at])
         /\ arrow(d) \in Seq(Chars)
<1> DEFINE a == [b EXCEPT !.cursor = at]
<1>1. b = [line |-> b.line, cursor |-> b.cursor, end |-> b.end] /\ b.cursor \in Nat
  <2>1. /\ b = [line |-> b.line, cursor |-> b.cursor, end |-> b.end]
        /\ b.cursor \in 0 .. b.end /\ b.end \in 0 .. Size - 1
    BY Types
  <2> QED
    BY <2>1
<1>2. a.cursor = at /\ a.line = b.line /\ a.end = b.end
  BY <1>1
<1> HIDE DEF a
<1>3. target(a) = target(b)
  BY <1>2 DEF target, span
<1>4. moves(target(b), b.cursor, "text", <<"ESC", "[", d>>, a)
  BY <1>1, <1>2, <1>3 DEF moves
<1>5. <<"ESC", "[", d>> \in Seq(Chars)
  BY DEF Chars
<1> QED
  BY <1>4, <1>5 DEF Coming, arrow, a

LEMMA KeyShown ==
  ASSUME cmd_buf \in Buffers(Elements, Size), only_letters(cmd_buf), out \in Seq(Chars),
         Quiet \/ Ends \/ Edited
  PROVE  \E sent \in Seq(Chars) :
           /\ out' = out \o sent
           /\ Coming(target(cmd_buf), cmd_buf.cursor, "text", sent, cmd_buf')
<1>1. cmd_buf' \in Buffers(Elements, Size) /\ only_letters(cmd_buf')
  BY BufferKept DEF only_letters
<1>2. ASSUME out' = out, target(cmd_buf') = target(cmd_buf), cmd_buf'.cursor = cmd_buf.cursor
      PROVE  \E sent \in Seq(Chars) :
               /\ out' = out \o sent
               /\ Coming(target(cmd_buf), cmd_buf.cursor, "text", sent, cmd_buf')
  <2>1. Coming(target(cmd_buf), cmd_buf.cursor, "text", <<>>, cmd_buf')
    BY <1>1, <1>2, AllShown
  <2>2. out' = out \o <<>> /\ <<>> \in Seq(Chars)
    BY <1>2, ConcatEmptySeq
  <2> QED
    BY <2>1, <2>2
<1>3. CASE Quiet
  BY <1>2, <1>3 DEF Quiet
<1>4. CASE Ends
  <2>1. /\ cmd_buf' = set_terminator(cmd_buf, Zero) /\ out' = out
        /\ cmd_buf'.cursor = cmd_buf.cursor /\ cmd_buf'.end = cmd_buf.end
        /\ \A i \in 0 .. cmd_buf.end - 1 : cmd_buf'.line[i] = cmd_buf.line[i]
    BY <1>4, Terminated DEF Ends
  <2>2. span(cmd_buf') = span(cmd_buf)
    BY <1>1, <2>1, SameLine
  <2> QED
    BY <1>2, <2>1, <2>2 DEF target
<1>5. ASSUME NEW l \in Letters, Inserts(l)
      PROVE  \E sent \in Seq(Chars) :
               /\ out' = out \o sent
               /\ Coming(target(cmd_buf), cmd_buf.cursor, "text", sent, cmd_buf')
  <2>1. /\ ~is_full(cmd_buf, Size) /\ cmd_buf' = insert(cmd_buf, l)
        /\ out' = out \o (<<l>> \o rest_and_back(insert(cmd_buf, l)))
    BY <1>5 DEF Inserts, Edits
  <2>2. only_letters(insert(cmd_buf, l))
    BY <1>1, <2>1, Zenon
  <2> DEFINE sent == <<l>> \o rest_and_back(insert(cmd_buf, l))
  <2>3. sent \in Seq(Chars) /\ prints(target(cmd_buf), cmd_buf.cursor, sent, insert(cmd_buf, l))
    BY <2>1, <2>2, InsertShown
  <2>4. out' = out \o sent
    BY <2>1
  <2> HIDE DEF sent
  <2>5. Coming(target(cmd_buf), cmd_buf.cursor, "text", sent, cmd_buf')
    BY <2>1, <2>3, Zenon DEF Coming
  <2> QED
    BY <2>3, <2>4, <2>5
<1>6. CASE Erases
  <2>1. /\ cmd_buf.cursor # 0 /\ cmd_buf' = backspace(cmd_buf)
        /\ out' = out \o (<<"DEL">> \o rest_blank_and_back(backspace(cmd_buf)))
    BY <1>6 DEF Erases, Edits
  <2>2. only_letters(backspace(cmd_buf))
    BY <1>1, <2>1, Zenon
  <2> DEFINE sent == <<"DEL">> \o rest_blank_and_back(backspace(cmd_buf))
  <2>3. sent \in Seq(Chars) /\ erases(target(cmd_buf), cmd_buf.cursor, sent, backspace(cmd_buf))
    BY <2>1, <2>2, EraseShown
  <2>4. out' = out \o sent
    BY <2>1
  <2> HIDE DEF sent
  <2>5. Coming(target(cmd_buf), cmd_buf.cursor, "text", sent, cmd_buf')
    BY <2>1, <2>3, Zenon DEF Coming
  <2> QED
    BY <2>3, <2>4, <2>5
<1>7. CASE Deletes
  <2>1. /\ cmd_buf' = del(cmd_buf)
        /\ out' = out \o rest_blank_and_back(del(cmd_buf))
    BY <1>7 DEF Deletes, Edits
  <2>2. only_letters(del(cmd_buf))
    BY <1>1, <2>1, Zenon
  <2> DEFINE sent == rest_blank_and_back(del(cmd_buf))
  <2>3. sent \in Seq(Chars) /\ prints(target(cmd_buf), cmd_buf.cursor, sent, del(cmd_buf))
    BY <2>1, <2>2, DeleteShown
  <2>4. out' = out \o sent
    BY <2>1
  <2> HIDE DEF sent
  <2>5. Coming(target(cmd_buf), cmd_buf.cursor, "text", sent, cmd_buf')
    BY <2>1, <2>3, Zenon DEF Coming
  <2> QED
    BY <2>3, <2>4, <2>5
<1>8. CASE GoesLeft
  <2> DEFINE at == cmd_buf.cursor - 1
  <2>1. cmd_buf' = [cmd_buf EXCEPT !.cursor = at] /\ out' = out \o arrow("D")
    BY <1>8, Moved DEF GoesLeft, Edits
  <2>2. at \in Nat
    BY <1>8, Types DEF GoesLeft
  <2> HIDE DEF at
  <2>3. /\ Coming(target(cmd_buf), cmd_buf.cursor, "text", arrow("D"), [cmd_buf EXCEPT !.cursor = at])
        /\ arrow("D") \in Seq(Chars)
    <3>1. at = IF "D" = "D" THEN cmd_buf.cursor - 1 ELSE cmd_buf.cursor + 1
      BY DEF at
    <3> QED
      BY <2>2, <3>1, CursorShown
  <2> QED
    BY <2>1, <2>3
<1>9. CASE GoesRight
  <2> DEFINE at == cmd_buf.cursor + 1
  <2>1. cmd_buf' = [cmd_buf EXCEPT !.cursor = at] /\ out' = out \o arrow("C")
    BY <1>9, Moved DEF GoesRight, Edits
  <2>2. at \in Nat
    BY Types
  <2> HIDE DEF at
  <2>3. /\ Coming(target(cmd_buf), cmd_buf.cursor, "text", arrow("C"), [cmd_buf EXCEPT !.cursor = at])
        /\ arrow("C") \in Seq(Chars)
    <3>1. at = IF "C" = "D" THEN cmd_buf.cursor - 1 ELSE cmd_buf.cursor + 1
      BY DEF at
    <3> QED
      BY <2>2, <3>1, CursorShown
  <2> QED
    BY <2>1, <2>3
<1> QED
  BY <1>3, <1>4, <1>5, <1>6, <1>7, <1>8, <1>9 DEF Edited

(* The editor, whenever keys come. *)

OnTheWay ==
  IF out = <<>>
    THEN Coming(screen, column, seen, <<>>, cmd_buf)
    ELSE \E y, d, u : /\ Shows(shown(screen, column, seen), Head(out)) = shown(y, d, u)
                      /\ Coming(y, d, u, Tail(out), cmd_buf)

LineInv == /\ TypeOK /\ NoStaleParameter /\ only_letters(cmd_buf)
           /\ out \in Seq(Chars) /\ OnTheWay

LEMMA EmptyLine ==
  ASSUME NEW b \in Buffers(Elements, Size), b.end = 0
  PROVE  span(b) = <<>> /\ only_letters(b) /\ Coming(Blank, b.cursor, "text", <<>>, b)
<1>1. Size \in Nat /\ span(b) = <<>> /\ Len(span(b)) = 0
  BY LineEditorAssumption DEF span
<1>2. only_letters(b)
  BY DEF only_letters
<1>3. target(b) = Blank
  BY <1>1 DEF target, as_shown, Blank
<1> QED
  BY <1>1, <1>2, <1>3, AllShown

LEMMA LineInit == Init => LineInv
<1> SUFFICES ASSUME Init PROVE LineInv
  OBVIOUS
<1> DEFINE line == [i \in 0 .. Size - 1 |-> Zero]
<1>1. /\ cmd_buf = [line |-> line, cursor |-> 0, end |-> 0]
      /\ state = "NORMAL" /\ escape_sequence_parameter = 0
      /\ entered = <<>> /\ out = <<>> /\ screen = Blank /\ column = 0 /\ seen = "text"
  BY DEF Init
<1>2. Size \in Nat /\ Size >= 1 /\ ParameterBound \in Nat
  BY LineEditorAssumption
<1>3. line \in [0 .. Size - 1 -> Elements]
  BY DEF Elements
<1> HIDE DEF line
<1>4. cmd_buf \in Buffers(Elements, Size) /\ cmd_buf.end = 0 /\ cmd_buf.cursor = 0
  BY <1>1, <1>2, <1>3, MakeBuffer
<1>5. TypeOK /\ NoStaleParameter
  BY <1>1, <1>2, <1>4 DEF TypeOK, Elements, NoStaleParameter
<1>6. only_letters(cmd_buf) /\ OnTheWay
  BY <1>1, <1>4, EmptyLine DEF OnTheWay
<1> QED
  BY <1>1, <1>5, <1>6 DEF LineInv

LEMMA LineKey ==
  ASSUME LineInv, NEW ch, Key(ch)
  PROVE  LineInv'
<1>1. /\ TypeOK /\ NoStaleParameter /\ only_letters(cmd_buf) /\ out \in Seq(Chars)
      /\ cmd_buf \in Buffers(Elements, Size)
  BY DEF LineInv, TypeOK, Elements
<1>2. /\ entered = <<>> /\ Len(out) <= 1 /\ UNCHANGED terminalVars
      /\ Quiet \/ Ends \/ Edited
      /\ EditorState'
  BY <1>1, KeyEffects
<1>3. cmd_buf' \in Buffers(Elements, Size) /\ only_letters(cmd_buf)'
  BY <1>1, <1>2, BufferKept
<1>4. entered' = <<>> \/ entered' = <<span(cmd_buf')>>
  BY <1>2 DEF Quiet, Ends, Edited
<1>5. TypeOK' /\ NoStaleParameter'
  BY <1>2, <1>3, <1>4 DEF TypeOK, EditorState, Elements
<1>6. PICK sent \in Seq(Chars) :
        /\ out' = out \o sent
        /\ Coming(target(cmd_buf), cmd_buf.cursor, "text", sent, cmd_buf')
  BY <1>1, <1>2, KeyShown
<1>7. screen' = screen /\ column' = column /\ seen' = seen
  BY <1>2 DEF terminalVars
<1>8. only_letters(cmd_buf')
  BY <1>3 DEF only_letters
<1>9. CASE out = <<>>
  <2>1. seen = "text" /\ screen = target(cmd_buf) /\ column = cmd_buf.cursor
    BY <1>1, <1>9, AllShown DEF LineInv, OnTheWay
  <2>2. out' = sent
    BY <1>6, <1>9, ConcatEmptySeq
  <2>3. Coming(screen, column, seen, sent, cmd_buf')
    BY <1>6, <2>1
  <2>4. ASSUME sent = <<>> PROVE OnTheWay'
    BY <1>7, <2>2, <2>3, <2>4 DEF OnTheWay
  <2>5. ASSUME sent # <<>> PROVE OnTheWay'
    <3>1. \E y, d, u : /\ Shows(shown(screen, column, seen), Head(sent)) = shown(y, d, u)
                       /\ Coming(y, d, u, Tail(sent), cmd_buf')
      BY <1>3, <1>8, <2>3, <2>5, ComesOn
    <3> QED
      BY <1>7, <2>2, <2>5, <3>1 DEF OnTheWay
  <2>6. OnTheWay'
    BY <2>4, <2>5
  <2>7. out' \in Seq(Chars)
    BY <2>2
  <2> QED
    BY <1>3, <1>5, <2>6, <2>7 DEF LineInv
<1>10. CASE out # <<>>
  <2>1. PICK y, d, u : /\ Shows(shown(screen, column, seen), Head(out)) = shown(y, d, u)
                       /\ Coming(y, d, u, Tail(out), cmd_buf)
    BY <1>10 DEF LineInv, OnTheWay
  <2>2. Len(out) = 1 /\ Head(out) = out[1] /\ Tail(out) = <<>>
    <3>1. /\ Len(out) \in Nat /\ Len(out) >= 1 /\ Head(out) = out[1]
          /\ Tail(out) \in Seq(Chars) /\ Len(Tail(out)) = Len(out) - 1
      BY <1>1, <1>10, FirstAndRest
    <3>2. Len(Tail(out)) = 0
      BY <1>2, <3>1
    <3> QED
      BY <1>2, <3>1, <3>2, EmptySeq
  <2>3. u = "text" /\ y = target(cmd_buf) /\ d = cmd_buf.cursor
    BY <1>1, <2>1, <2>2, AllShown
  <2>4. out' # <<>> /\ out' \in Seq(Chars) /\ Head(out') = Head(out) /\ Tail(out') = sent
    BY <1>1, <1>6, <2>2, OneThen
  <2>5. Coming(y, d, u, sent, cmd_buf')
    BY <1>6, <2>3
  <2>6. OnTheWay'
    BY <1>7, <2>1, <2>4, <2>5 DEF OnTheWay
  <2> QED
    BY <1>3, <1>5, <2>4, <2>6 DEF LineInv
<1> QED
  BY <1>9, <1>10

LEMMA LineTransmit ==
  ASSUME LineInv, Transmit
  PROVE  LineInv'
<1>1. /\ out # <<>> /\ out' = Tail(out) /\ out \in Seq(Chars)
      /\ cmd_buf' = cmd_buf /\ state' = state /\ entered' = entered
      /\ escape_sequence_parameter' = escape_sequence_parameter
  BY DEF Transmit, editorVars, LineInv
<1>2. /\ screen' = Shows(shown(screen, column, seen), Head(out)).text
      /\ column' = Shows(shown(screen, column, seen), Head(out)).col
      /\ seen' = Shows(shown(screen, column, seen), Head(out)).seen
  BY DEF Transmit, shown
<1>3. PICK y, d, u : /\ Shows(shown(screen, column, seen), Head(out)) = shown(y, d, u)
                     /\ Coming(y, d, u, Tail(out), cmd_buf)
  BY <1>1 DEF LineInv, OnTheWay
<1>4. screen' = y /\ column' = d /\ seen' = u
  BY <1>2, <1>3 DEF shown
<1>5. Coming(screen', column', seen', out', cmd_buf')
  BY <1>1, <1>3, <1>4
<1>6. out' \in Seq(Chars)
  BY <1>1, FirstAndRest
<1>7. /\ TypeOK' /\ NoStaleParameter' /\ only_letters(cmd_buf)'
      /\ only_letters(cmd_buf') /\ cmd_buf' \in Buffers(Elements, Size)
  BY <1>1 DEF LineInv, TypeOK, NoStaleParameter, only_letters, Elements
<1>8. CASE out' = <<>>
  <2>1. OnTheWay'
    BY <1>5, <1>8 DEF OnTheWay
  <2> QED
    BY <1>6, <1>7, <2>1 DEF LineInv
<1>9. CASE out' # <<>>
  <2>1. \E y1, d1, u1 : /\ Shows(shown(screen', column', seen'), Head(out')) = shown(y1, d1, u1)
                        /\ Coming(y1, d1, u1, Tail(out'), cmd_buf')
    BY <1>5, <1>7, <1>9, ComesOn
  <2>2. OnTheWay'
    BY <1>9, <2>1 DEF OnTheWay
  <2> QED
    BY <1>6, <1>7, <2>2 DEF LineInv
<1> QED
  BY <1>8, <1>9

LEMMA ResetLine ==
  ASSUME NEW b \in Buffers(Elements, Size)
  PROVE  reset(b) \in Buffers(Elements, Size) /\ reset(b).cursor = 0 /\ reset(b).end = 0
<1>1. /\ Size \in Nat /\ Size >= 1 /\ b.line \in [0 .. Size - 1 -> Elements]
  BY Types
<1>2. reset(b) = [line |-> b.line, cursor |-> 0, end |-> 0]
  BY DEF reset
<1> QED
  BY <1>1, <1>2, MakeBuffer

LEMMA LineNew ==
  ASSUME LineInv, NewLine
  PROVE  LineInv' /\ span(cmd_buf') = <<>>
<1>1. /\ cmd_buf' = reset(cmd_buf) /\ out' = <<>> /\ entered' = <<>>
      /\ state' = "NORMAL" /\ escape_sequence_parameter' = 0
      /\ screen' = Blank /\ column' = 0 /\ seen' = "text"
  BY DEF NewLine
<1>2. cmd_buf \in Buffers(Elements, Size)
  BY DEF LineInv, TypeOK, Elements
<1>3. cmd_buf' \in Buffers(Elements, Size) /\ cmd_buf'.cursor = 0 /\ cmd_buf'.end = 0
  BY <1>1, <1>2, ResetLine
<1>4. span(cmd_buf') = <<>> /\ only_letters(cmd_buf') /\ Coming(Blank, 0, "text", <<>>, cmd_buf')
  BY <1>3, EmptyLine
<1>5. TypeOK' /\ NoStaleParameter'
  BY <1>1, <1>3, LineEditorAssumption DEF TypeOK, NoStaleParameter, Elements
<1>6. only_letters(cmd_buf)' /\ OnTheWay'
  BY <1>1, <1>4 DEF only_letters, OnTheWay
<1> QED
  BY <1>1, <1>4, <1>5, <1>6 DEF LineInv

(* The steps of the edited line. *)

LEMMA KeyEdits ==
  ASSUME LineInv, NEW ch, Key(ch)
  PROVE  [EditsLine!Edit \/ EditsLine!Enter \/ EditsLine!Again]_(EditsLine!vars)
<1>1. cmd_buf \in Buffers(Elements, Size)
  BY DEF LineInv, TypeOK, Elements
<1>2. entered = <<>> /\ (Quiet \/ Ends \/ Edited)
  BY KeyEffects DEF LineInv
<1>3. /\ cmd_buf.cursor \in 0 .. cmd_buf.end /\ cmd_buf.end \in Nat /\ Len(span(cmd_buf)) = cmd_buf.end
      /\ cmd_buf = [line |-> cmd_buf.line, cursor |-> cmd_buf.cursor, end |-> cmd_buf.end]
  <2>1. Size \in Nat /\ cmd_buf.cursor \in 0 .. cmd_buf.end /\ cmd_buf.end \in 0 .. Size - 1
        /\ cmd_buf = [line |-> cmd_buf.line, cursor |-> cmd_buf.cursor, end |-> cmd_buf.end]
    BY <1>1, Types
  <2>2. Len(span(cmd_buf)) = cmd_buf.end
    BY <1>1, Span
  <2> QED
    BY <2>1, <2>2
<1>4. CASE Quiet
  BY <1>4 DEF Quiet, EditsLine!vars
<1>5. CASE Ends
  <2>1. /\ cmd_buf' = set_terminator(cmd_buf, Zero) /\ cmd_buf' \in Buffers(Elements, Size)
        /\ cmd_buf'.cursor = cmd_buf.cursor /\ cmd_buf'.end = cmd_buf.end
        /\ \A i \in 0 .. cmd_buf.end - 1 : cmd_buf'.line[i] = cmd_buf.line[i]
    BY <1>1, <1>5, Terminated DEF Ends
  <2>2. span(cmd_buf') = span(cmd_buf)
    BY <1>1, <2>1, SameLine
  <2> QED
    BY <1>2, <1>5, <2>1, <2>2 DEF Ends, EditsLine!Enter
<1>6. ASSUME NEW l \in Letters, Inserts(l), Edited
      PROVE  EditsLine!Edit
  <2>1. /\ cmd_buf' = insert(cmd_buf, l) /\ cmd_buf'.cursor = cmd_buf.cursor + 1
        /\ ~is_full(cmd_buf, Size)
    BY <1>1, <1>6, Inserted DEF Inserts, Edits
  <2>2. EditsLine!Insert(l)
    BY <1>1, <2>1, InsertedLine DEF EditsLine!Insert
  <2> QED
    BY <1>2, <1>6, <2>2 DEF EditsLine!Edit, Edited
<1>7. ASSUME Erases, Edited PROVE EditsLine!Edit
  <2>1. /\ cmd_buf' = backspace(cmd_buf) /\ cmd_buf'.cursor = cmd_buf.cursor - 1
        /\ cmd_buf.cursor # 0
    BY <1>1, <1>7, Backspaced DEF Erases, Edits
  <2>2. EditsLine!Erase
    BY <1>1, <1>3, <2>1, ErasedLine DEF EditsLine!Erase
  <2> QED
    BY <1>2, <1>7, <2>2 DEF EditsLine!Edit, Edited
<1>8. ASSUME Deletes, Edited
      PROVE  EditsLine!Edit \/ UNCHANGED EditsLine!vars
  <2>1. cmd_buf' = del(cmd_buf) /\ cmd_buf'.cursor = cmd_buf.cursor
    BY <1>1, <1>8, Deleted DEF Deletes, Edits
  <2>2. CASE cmd_buf.cursor = cmd_buf.end
    <3>1. cmd_buf' = cmd_buf
      BY <1>1, <2>1, <2>2, Deleted
    <3> QED
      BY <1>8, <3>1 DEF EditsLine!vars, Edited
  <2>3. CASE cmd_buf.cursor # cmd_buf.end
    <3>1. EditsLine!Delete
      BY <1>1, <1>3, <2>1, <2>3, DeletedLine DEF EditsLine!Delete
    <3> QED
      BY <1>2, <1>8, <3>1 DEF EditsLine!Edit, Edited
  <2> QED
    BY <2>2, <2>3
<1>9. ASSUME GoesLeft, Edited PROVE EditsLine!Edit
  <2>1. cmd_buf.cursor # 0 /\ cmd_buf' = [cmd_buf EXCEPT !.cursor = cmd_buf.cursor - 1]
    BY <1>1, <1>9, Moved DEF GoesLeft, Edits
  <2>2. cmd_buf'.line = cmd_buf.line /\ cmd_buf'.end = cmd_buf.end
        /\ cmd_buf'.cursor = cmd_buf.cursor - 1
    BY <1>3, <2>1
  <2>3. EditsLine!Left
    BY <1>3, <2>1, <2>2 DEF EditsLine!Left, span
  <2> QED
    BY <1>2, <1>9, <2>3 DEF EditsLine!Edit, Edited
<1>10. ASSUME GoesRight, Edited PROVE EditsLine!Edit
  <2>1. ~at_end(cmd_buf) /\ cmd_buf' = [cmd_buf EXCEPT !.cursor = cmd_buf.cursor + 1]
    BY <1>1, <1>10, Moved DEF GoesRight, Edits
  <2>2. cmd_buf'.line = cmd_buf.line /\ cmd_buf'.end = cmd_buf.end
        /\ cmd_buf'.cursor = cmd_buf.cursor + 1
    BY <1>3, <2>1
  <2>3. EditsLine!Right
    <3>1. span(cmd_buf') = span(cmd_buf)
      BY <2>2 DEF span
    <3>2. cmd_buf.cursor < Len(span(cmd_buf))
      BY <1>3, <2>1 DEF at_end
    <3> QED
      BY <2>2, <3>1, <3>2 DEF EditsLine!Right
  <2> QED
    BY <1>2, <1>10, <2>3 DEF EditsLine!Edit, Edited
<1> QED
  BY <1>2, <1>4, <1>5, <1>6, <1>7, <1>8, <1>9, <1>10 DEF Edited

LEMMA NewLineAgain ==
  ASSUME LineInv, NewLine
  PROVE  EditsLine!Again
<1>1. /\ entered # <<>> /\ entered' = <<>> /\ cmd_buf' = reset(cmd_buf)
      /\ cmd_buf \in Buffers(Elements, Size)
  BY DEF NewLine, LineInv, TypeOK, Elements
<1>2. span(cmd_buf') = <<>> /\ cmd_buf'.cursor = 0
  BY <1>1, ResetLine, LineNew
<1> QED
  BY <1>1, <1>2 DEF EditsLine!Again

-----------------------------------------------------------------------------
(* The theorems. *)

LEMMA LineUnchanged ==
  ASSUME LineInv, UNCHANGED vars
  PROVE  LineInv' /\ UNCHANGED EditsLine!vars
<1>1. /\ cmd_buf' = cmd_buf /\ state' = state /\ entered' = entered /\ out' = out
      /\ escape_sequence_parameter' = escape_sequence_parameter
      /\ screen' = screen /\ column' = column /\ seen' = seen
  BY DEF vars, editorVars, terminalVars
<1> QED
  BY <1>1 DEF LineInv, TypeOK, NoStaleParameter, only_letters, OnTheWay, EditsLine!vars

LEMMA LineNext ==
  ASSUME LineInv, [TypingNext]_<<vars, typingVars>>
  PROVE  /\ LineInv'
         /\ [EditsLine!Edit \/ EditsLine!Enter \/ EditsLine!Again]_(EditsLine!vars)
<1>1. CASE Press
  BY <1>1, LineUnchanged DEF Press
<1>2. CASE Read
  BY <1>2, LineKey, KeyEdits DEF Read
<1>3. CASE Prompt
  BY <1>3, LineNew, NewLineAgain DEF Prompt
<1>4. CASE Frame
  <2>1. CASE Transmit
    <3>1. UNCHANGED EditsLine!vars
      BY <2>1 DEF Transmit, editorVars, EditsLine!vars
    <3> QED
      BY <2>1, <3>1, LineTransmit
  <2>2. CASE UNCHANGED vars
    BY <2>2, LineUnchanged
  <2> QED
    BY <1>4, <2>1, <2>2 DEF Frame
<1>5. CASE UNCHANGED <<vars, typingVars>>
  BY <1>5, LineUnchanged
<1> QED
  BY <1>1, <1>2, <1>3, <1>4, <1>5 DEF TypingNext

LEMMA LineInvariant == TypingSpec => []LineInv
<1>1. TypingInit => LineInv
  BY LineInit DEF TypingInit
<1>2. LineInv /\ [TypingNext]_<<vars, typingVars>> => LineInv'
  BY LineNext
<1> QED
  BY <1>1, <1>2, PTL DEF TypingSpec

(* The parameter of an escape sequence is of that sequence, in a buffer of    *)
(* any size and whatever is typed how fast: input() has cleared it when it    *)
(* comes back from the bracket.                                               *)
THEOREM ParameterIsOfOneSequence == TypingSpec => []NoStaleParameter
<1>1. LineInv => NoStaleParameter
  BY DEF LineInv
<1> QED
  BY <1>1, LineInvariant, PTL

(* What input() sends for the keys makes the terminal show the line that is   *)
(* in the buffer and its cursor where the next letter goes, in a buffer of    *)
(* any size, with any letters, when all of it has arrived.                    *)
THEOREM TerminalShowsLine == TypingSpec => []ScreenShowsLine
<1>1. LineInv => ScreenShowsLine
  <2> SUFFICES ASSUME LineInv PROVE ScreenShowsLine
    OBVIOUS
  <2>1. TypeOK /\ only_letters(cmd_buf) /\ cmd_buf \in Buffers(Elements, Size)
    BY DEF LineInv, TypeOK, Elements
  <2>2. ASSUME out = <<>>
        PROVE  screen = as_shown(span(cmd_buf)) /\ column = cmd_buf.cursor /\ seen = "text"
    <3>1. Coming(screen, column, seen, <<>>, cmd_buf)
      BY <2>2 DEF LineInv, OnTheWay
    <3> QED
      BY <2>1, <3>1, AllShown DEF target
  <2> QED
    BY <2>1, <2>2 DEF ScreenShowsLine
<1> QED
  BY <1>1, LineInvariant, PTL

(* cursor_buffer.hpp is a text that is edited one letter at a time: every key *)
(* is a step of EditedLine or none, for every size of the array.              *)
THEOREM BufferIsEditedLine == TypingSpec => ImplementsEditedLine
<1>1. TypingInit => EditsLine!Init
  <2> SUFFICES ASSUME TypingInit PROVE EditsLine!Init
    OBVIOUS
  <2>1. /\ cmd_buf.cursor = 0 /\ cmd_buf.end = 0 /\ entered = <<>>
    BY DEF TypingInit, Init
  <2>2. cmd_buf \in Buffers(Elements, Size)
    BY LineInit DEF TypingInit, LineInv, TypeOK, Elements
  <2>3. span(cmd_buf) = <<>>
    BY <2>1, <2>2, EmptyLine
  <2> QED
    BY <2>1, <2>3 DEF EditsLine!Init
<1>2. LineInv /\ [TypingNext]_<<vars, typingVars>>
        => [EditsLine!Edit \/ EditsLine!Enter \/ EditsLine!Again]_(EditsLine!vars)
  BY LineNext
<1> QED
  BY <1>1, <1>2, LineInvariant, PTL DEF TypingSpec, ImplementsEditedLine, EditsLine!Spec

-----------------------------------------------------------------------------
(* No character is lost at the prompt: when the register holds one the echo   *)
(* of the key before is sent but for one character, so that it is read at     *)
(* once.                                                                      *)

LEMMA EchoLength ==
  ASSUME cmd_buf \in Buffers(Elements, Size), only_letters(cmd_buf), out \in Seq(Chars),
         Quiet \/ Ends \/ Edited, Size > 1
  PROVE  Len(out') <= Len(out) + 2 * Size - 1
<1>1. /\ Size \in Nat /\ cmd_buf.cursor \in 0 .. cmd_buf.end /\ cmd_buf.end \in 0 .. Size - 1
      /\ Len(out) \in Nat
  BY Types
<1>2. cmd_buf' \in Buffers(Elements, Size) /\ only_letters(cmd_buf')
  BY BufferKept DEF only_letters
<1>3. CASE Quiet \/ Ends
  BY <1>1, <1>3 DEF Quiet, Ends
<1>4. ASSUME NEW sent \in Seq(Chars), out' = out \o sent, Len(sent) <= 2 * Size - 1
      PROVE  Len(out') <= Len(out) + 2 * Size - 1
  <2>1. Len(out') = Len(out) + Len(sent)
    BY <1>4, ConcatProperties
  <2>2. Len(sent) \in Nat
    OBVIOUS
  <2> HIDE <1>4
  <2> QED
    BY <1>1, <1>4, <2>1, <2>2
<1>5. ASSUME NEW b \in Buffers(Elements, Size), only_letters(b)
      PROVE  /\ rest_and_back(b) \in Seq(Chars) /\ rest_blank_and_back(b) \in Seq(Chars)
             /\ Len(rest_and_back(b)) = 2 * (b.end - b.cursor)
             /\ Len(rest_blank_and_back(b)) = 2 * (b.end - b.cursor + 1)
  <2>1. b.end - b.cursor \in Nat
    BY Rest, <1>5
  <2>2. reprints(rest_and_back(b), b.cursor, b.end - b.cursor, b.end - b.cursor, b)
    BY <1>5, RestAndBack
  <2>3. reprints(rest_blank_and_back(b), b.cursor, b.end - b.cursor + 1, b.end - b.cursor + 1, b)
    BY <1>5, RestBlankAndBack
  <2> DEFINE k == b.end - b.cursor
             n == k + 1
  <2>4. rest_and_back(b) \in Seq(Chars) /\ Len(rest_and_back(b)) = k + k
    BY <2>2 DEF reprints
  <2>5. rest_blank_and_back(b) \in Seq(Chars) /\ Len(rest_blank_and_back(b)) = n + n
    BY <2>3 DEF reprints
  <2>6. k \in Nat
    BY <2>1
  <2> HIDE DEF k
  <2>7. k + k = 2 * k /\ n + n = 2 * (k + 1)
    BY <2>6
  <2> QED
    BY <2>4, <2>5, <2>7 DEF k
<1>6. ASSUME NEW ch \in Chars, NEW o \in Seq(Chars)
      PROVE  <<ch>> \o o \in Seq(Chars) /\ Len(<<ch>> \o o) = 1 + Len(o)
  <2> DEFINE p == <<ch>>
  <2>1. p \in Seq(Chars) /\ Len(p) = 1
    OBVIOUS
  <2> HIDE DEF p
  <2>2. p \o o \in Seq(Chars) /\ Len(p \o o) = Len(p) + Len(o)
    BY <2>1, ConcatProperties
  <2> QED
    BY <2>1, <2>2 DEF p
<1>7. ASSUME NEW l \in Letters, Inserts(l)
      PROVE  Len(out') <= Len(out) + 2 * Size - 1
  <2> DEFINE a == insert(cmd_buf, l)
             o == rest_and_back(a)
             sent == <<l>> \o o
  <2>1. /\ cmd_buf' = a /\ out' = out \o sent /\ a \in Buffers(Elements, Size)
        /\ a.cursor = cmd_buf.cursor + 1 /\ a.end = cmd_buf.end + 1
    BY <1>7, Inserted DEF Inserts, Edits
  <2>2. only_letters(a)
    BY <1>2, <2>1, Zenon
  <2> HIDE DEF a
  <2>3. a.end \in 0 .. Size - 1
    BY <2>1, Types
  <2>4. o \in Seq(Chars) /\ Len(o) = 2 * (a.end - a.cursor)
    BY <1>5, <2>1, <2>2
  <2>5. l \in Chars
    BY DEF Chars
  <2> HIDE DEF o
  <2>6. sent \in Seq(Chars) /\ Len(sent) = 1 + Len(o)
    BY <1>6, <2>4, <2>5
  <2>7. Len(sent) <= 2 * Size - 1
    <3> DEFINE k == a.end - a.cursor
    <3>1. k \in 0 .. Size - 1
      BY <1>1, <2>1, <2>3
    <3>2. Len(sent) = 1 + 2 * k
      BY <2>4, <2>6
    <3>3. k <= Size - 2
      BY <1>1, <2>1, <2>3
    <3> HIDE DEF k
    <3> QED
      BY <1>1, <3>1, <3>2, <3>3
  <2> HIDE DEF sent
  <2> QED
    BY <1>4, <2>1, <2>6, <2>7
<1>8. CASE Erases
  <2> DEFINE a == backspace(cmd_buf)
             o == rest_blank_and_back(a)
             sent == <<"DEL">> \o o
  <2>1. /\ cmd_buf' = a /\ out' = out \o sent /\ a \in Buffers(Elements, Size)
        /\ a.cursor = cmd_buf.cursor - 1 /\ a.end = cmd_buf.end - 1 /\ cmd_buf.cursor # 0
    BY <1>8, Backspaced DEF Erases, Edits
  <2>2. only_letters(a)
    BY <1>2, <2>1, Zenon
  <2> HIDE DEF a
  <2>3. o \in Seq(Chars) /\ Len(o) = 2 * (a.end - a.cursor + 1)
    BY <1>5, <2>1, <2>2
  <2>4. "DEL" \in Chars
    BY DEF Chars
  <2> HIDE DEF o
  <2>5. sent \in Seq(Chars) /\ Len(sent) = 1 + Len(o)
    BY <1>6, <2>3, <2>4
  <2>6. Len(sent) <= 2 * Size - 1
    <3> DEFINE k == a.end - a.cursor + 1
    <3>1. k \in 0 .. Size - 1
      BY <1>1, <2>1
    <3>2. Len(sent) = 1 + 2 * k
      BY <2>3, <2>5
    <3> HIDE DEF k
    <3> QED
      BY <1>1, <3>1, <3>2
  <2> HIDE DEF sent
  <2> QED
    BY <1>4, <2>1, <2>5, <2>6
<1>9. CASE Deletes
  <2> DEFINE a == del(cmd_buf)
             sent == rest_blank_and_back(a)
  <2>1. /\ cmd_buf' = a /\ out' = out \o sent /\ a \in Buffers(Elements, Size)
        /\ a.cursor = cmd_buf.cursor
        /\ cmd_buf.cursor = cmd_buf.end => a = cmd_buf
        /\ cmd_buf.cursor # cmd_buf.end => a.end = cmd_buf.end - 1
    BY <1>9, Deleted DEF Deletes, Edits
  <2>2. only_letters(a)
    BY <1>2, <2>1, Zenon
  <2> HIDE DEF a
  <2>3. sent \in Seq(Chars) /\ Len(sent) = 2 * (a.end - a.cursor + 1)
    BY <1>5, <2>1, <2>2
  <2> HIDE DEF sent
  <2>4. Len(sent) <= 2 * Size - 1
    <3> DEFINE k == a.end - a.cursor + 1
    <3>1. k \in 0 .. Size - 1
      <4>1. CASE cmd_buf.cursor = cmd_buf.end
        BY <1>1, <2>1, <4>1
      <4>2. CASE cmd_buf.cursor # cmd_buf.end
        BY <1>1, <2>1, <4>2
      <4> QED
        BY <4>1, <4>2
    <3>2. Len(sent) = 2 * k
      BY <2>3
    <3> HIDE DEF k
    <3> QED
      BY <1>1, <3>1, <3>2
  <2> QED
    BY <1>4, <2>1, <2>3, <2>4
<1>10. CASE GoesLeft \/ GoesRight
  <2>1. PICK d \in {"D", "C"} : out' = out \o arrow(d)
    BY <1>10 DEF GoesLeft, GoesRight, Edits
  <2>2. arrow(d) \in Seq(Chars) /\ Len(arrow(d)) = 3
    BY DEF arrow, Chars
  <2>3. 3 <= 2 * Size - 1
    BY <1>1
  <2> DEFINE sent == arrow(d)
  <2>4. sent \in Seq(Chars) /\ out' = out \o sent /\ Len(sent) <= 2 * Size - 1
    BY <2>1, <2>2, <2>3
  <2> HIDE DEF sent
  <2> QED
    BY <1>4, <2>4
<1> QED
  BY <1>3, <1>7, <1>8, <1>9, <1>10 DEF Edited

(* What is left of a key agrees with the state the editor is in. *)
rests(s) ==
  CASE s = "NORMAL" -> KeyStrokes \cup {<<>>}
    [] s = "ESCAPE" -> {<<"a">>, <<"[", "D">>, <<"[", "C">>, <<"[", "A">>,
                        <<"[", "3", "~">>, <<"[", "1", "~">>}
    [] OTHER        -> {<<"D">>, <<"C">>, <<"A">>, <<"3", "~">>, <<"1", "~">>, <<"~">>}

LEMMA DigitsAre == Digits = {"0", "1", "2", "3", "4", "5", "6", "7", "8", "9"}
<1>1. DOMAIN digit = 1 .. 10
  BY DEF digit
<1>2. 1 .. 10 = {1, 2, 3, 4, 5, 6, 7, 8, 9, 10}
  OBVIOUS
<1> QED
  BY <1>1, <1>2 DEF Digits, digit

LEMMA KeyStates ==
  ASSUME LineInv, NEW ch, Key(ch)
  PROVE  /\ state = "NORMAL" /\ ch = "ESC" => state' = "ESCAPE" /\ Quiet
         /\ state = "NORMAL" /\ ch # "ESC" => state' = "NORMAL"
         /\ state = "ESCAPE" /\ ch = "["   => state' = "ESCAPE_BRACKET" /\ Quiet
         /\ state = "ESCAPE" /\ ch # "["   => state' = "NORMAL" /\ Quiet
         /\ state = "ESCAPE_BRACKET" /\ ch \in Digits => state' = "ESCAPE_BRACKET" /\ Quiet
         /\ state = "ESCAPE_BRACKET" /\ ch \notin Digits => state' = "NORMAL"
         /\ state # "NORMAL" => entered' = entered
<1>1. "ESC" \notin Letters
  BY LineEditorAssumption
<1>2. {"D", "C", "~"} \cap Digits = {}
  BY DigitsAre
<1>3. CASE state = "NORMAL"
  BY <1>1, <1>3 DEF Key, Escape, Backspace, CarriageReturn, Return, Letter, Normal, Bracket,
     NoBracket, Parameter, ArrowLeft, ArrowRight, Delete, Unknown, EndsSequence, Quiet
<1>4. CASE state = "ESCAPE"
  BY <1>4 DEF Key, Escape, Backspace, CarriageReturn, Return, Letter, Normal, Bracket,
     NoBracket, Parameter, ArrowLeft, ArrowRight, Delete, Unknown, EndsSequence, Quiet
<1>5. CASE state = "ESCAPE_BRACKET"
  BY <1>2, <1>5 DEF Key, Escape, Backspace, CarriageReturn, Return, Letter, Normal, Bracket,
     NoBracket, Parameter, ArrowLeft, ArrowRight, Delete, Unknown, EndsSequence, Quiet
<1> QED
  BY <1>3, <1>4, <1>5 DEF LineInv, TypeOK

LEMMA Shapes ==
  ASSUME NEW p
  PROVE  /\ p \in rests("NORMAL") <=>
              \/ p = <<>> \/ p = <<"ESC", "a">>
              \/ \E ch \in Typed \cup {"DEL", "CR"} : p = <<ch>>
              \/ \E d \in {"D", "C", "A"} : p = <<"ESC", "[", d>>
              \/ \E d \in {"3", "1"} : p = <<"ESC", "[", d, "~">>
         /\ p \in rests("ESCAPE") <=>
              \/ p = <<"a">> \/ \E d \in {"D", "C", "A"} : p = <<"[", d>>
              \/ \E d \in {"3", "1"} : p = <<"[", d, "~">>
         /\ p \in rests("ESCAPE_BRACKET") <=>
              \/ \E d \in {"D", "C", "A", "~"} : p = <<d>>
              \/ \E d \in {"3", "1"} : p = <<d, "~">>
<1>1. rests("NORMAL") = KeyStrokes \cup {<<>>}
  BY DEF rests
<1>2. rests("ESCAPE") = {<<"a">>, <<"[", "D">>, <<"[", "C">>, <<"[", "A">>,
                         <<"[", "3", "~">>, <<"[", "1", "~">>}
  BY DEF rests
<1>3. rests("ESCAPE_BRACKET") = {<<"D">>, <<"C">>, <<"A">>, <<"3", "~">>, <<"1", "~">>, <<"~">>}
  BY DEF rests
<1> QED
  BY <1>1, <1>2, <1>3, Zenon DEF KeyStrokes

LEMMA RestIsRead ==
  ASSUME LineInv, NEW p \in rests(state), p # <<>>, Key(Head(p))
  PROVE  /\ Tail(p) \in rests(state')
         /\ Tail(p) # <<>> => Quiet
<1>1. state \in {"NORMAL", "ESCAPE", "ESCAPE_BRACKET"}
  BY DEF LineInv, TypeOK
<1>2. CASE state = "NORMAL"
  <2>1. ASSUME NEW ch \in Typed \cup {"DEL", "CR"}, p = <<ch>>
        PROVE  Tail(p) = <<>> /\ state' = "NORMAL"
    <3>1. Head(p) = ch /\ Tail(p) = <<>> /\ ch # "ESC"
      BY <2>1, LineEditorAssumption, TypingAssumption
    <3> QED
      BY <1>2, <3>1, KeyStates
  <2>2. ASSUME Head(p) = "ESC" PROVE state' = "ESCAPE" /\ Quiet
    BY <1>2, <2>2, KeyStates
  <2>3. CASE p = <<"ESC", "a">>
    <3>1. Head(p) = "ESC" /\ Tail(p) = <<"a">>
      BY <2>3
    <3> QED
      BY <2>2, <3>1, Shapes
  <2>4. ASSUME NEW d \in {"D", "C", "A"}, p = <<"ESC", "[", d>>
        PROVE  state' = "ESCAPE" /\ Quiet /\ Tail(p) \in rests("ESCAPE")
    <3>1. Head(p) = "ESC" /\ Tail(p) = <<"[", d>>
      BY <2>4
    <3> QED
      BY <2>2, <3>1, Shapes
  <2>5. ASSUME NEW d \in {"3", "1"}, p = <<"ESC", "[", d, "~">>
        PROVE  state' = "ESCAPE" /\ Quiet /\ Tail(p) \in rests("ESCAPE")
    <3>1. Head(p) = "ESC" /\ Tail(p) = <<"[", d, "~">>
      BY <2>5
    <3> QED
      BY <2>2, <3>1, Shapes
  <2>6. <<>> \in rests("NORMAL")
    BY Shapes
  <2>7. \/ p = <<"ESC", "a">>
        \/ \E ch \in Typed \cup {"DEL", "CR"} : p = <<ch>>
        \/ \E d \in {"D", "C", "A"} : p = <<"ESC", "[", d>>
        \/ \E d \in {"3", "1"} : p = <<"ESC", "[", d, "~">>
    BY <1>2, Shapes, Zenon
  <2> QED
    BY <2>1, <2>3, <2>4, <2>5, <2>6, <2>7, Zenon
<1>3. CASE state = "ESCAPE"
  <2>1. CASE p = <<"a">>
    <3>1. Head(p) = "a" /\ Tail(p) = <<>>
      BY <2>1
    <3>2. state' = "NORMAL"
      BY <1>3, <3>1, KeyStates
    <3> QED
      BY <3>1, <3>2, Shapes
  <2>2. ASSUME Head(p) = "[" PROVE state' = "ESCAPE_BRACKET" /\ Quiet
    BY <1>3, <2>2, KeyStates
  <2>3. ASSUME NEW d \in {"D", "C", "A"}, p = <<"[", d>>
        PROVE  state' = "ESCAPE_BRACKET" /\ Quiet /\ Tail(p) \in rests("ESCAPE_BRACKET")
    <3>1. Head(p) = "[" /\ Tail(p) = <<d>>
      BY <2>3
    <3> QED
      BY <2>2, <3>1, Shapes
  <2>4. ASSUME NEW d \in {"3", "1"}, p = <<"[", d, "~">>
        PROVE  state' = "ESCAPE_BRACKET" /\ Quiet /\ Tail(p) \in rests("ESCAPE_BRACKET")
    <3>1. Head(p) = "[" /\ Tail(p) = <<d, "~">>
      BY <2>4
    <3> QED
      BY <2>2, <3>1, Shapes
  <2>5. \/ p = <<"a">> \/ \E d \in {"D", "C", "A"} : p = <<"[", d>>
        \/ \E d \in {"3", "1"} : p = <<"[", d, "~">>
    BY <1>3, Shapes, Zenon
  <2> QED
    BY <2>1, <2>3, <2>4, <2>5, Zenon
<1>4. CASE state = "ESCAPE_BRACKET"
  <2>1. ASSUME NEW d \in {"D", "C", "A", "~"}, p = <<d>>
        PROVE  state' = "NORMAL" /\ Tail(p) = <<>> /\ Tail(p) \in rests("NORMAL")
    <3>1. Head(p) = d /\ Tail(p) = <<>> /\ d \notin Digits
      BY <2>1, DigitsAre
    <3> QED
      BY <1>4, <3>1, KeyStates, Shapes
  <2>2. ASSUME NEW d \in {"3", "1"}, p = <<d, "~">>
        PROVE  state' = "ESCAPE_BRACKET" /\ Quiet /\ Tail(p) \in rests("ESCAPE_BRACKET")
    <3>1. Head(p) = d /\ Tail(p) = <<"~">> /\ d \in Digits
      BY <2>2, DigitsAre
    <3> QED
      BY <1>4, <3>1, KeyStates, Shapes
  <2>3. \/ \E d \in {"D", "C", "A", "~"} : p = <<d>>
        \/ \E d \in {"3", "1"} : p = <<d, "~">>
    BY <1>4, Shapes, Zenon
  <2> QED
    BY <2>1, <2>2, <2>3, Zenon
<1> QED
  BY <1>1, <1>2, <1>3, <1>4

(* What is left of a key when its first characters came before the prompt, and *)
(* the last characters of keys.                                               *)
stumps == rests("ESCAPE") \cup rests("ESCAPE_BRACKET")
lasts  == {<<ch>> : ch \in Typed \cup {"DEL", "CR", "a", "D", "C", "A", "~"}}

LEMMA Stumps ==
  ASSUME NEW p
  PROVE  p \in stumps <=>
           \/ \E d \in {"a", "D", "C", "A", "~"} : p = <<d>>
           \/ \E d \in {"D", "C", "A"} : p = <<"[", d>>
           \/ \E d \in {"3", "1"} : p = <<"[", d, "~">>
           \/ \E d \in {"3", "1"} : p = <<d, "~">>
<1>1. p \in stumps <=> p \in rests("ESCAPE") \/ p \in rests("ESCAPE_BRACKET")
  BY DEF stumps
<1>2. p = <<"a">> \/ (\E d \in {"D", "C", "A", "~"} : p = <<d>>)
        <=> \E d \in {"a", "D", "C", "A", "~"} : p = <<d>>
  BY Zenon
<1> QED
  BY <1>1, <1>2, Shapes, Zenon

LEMMA Pieces ==
  ASSUME NEW p, p \in rests("NORMAL") \cup stumps, p # <<>>
  PROVE  /\ Tail(p) = <<>> \/ Tail(p) \in stumps
         /\ Tail(p) = <<>> => <<Head(p)>> \in lasts
         /\ p \in stumps => Head(p) \notin {"ESC", "DEL"}
<1>1. ASSUME NEW ch, p = <<ch>>
      PROVE  Head(p) = ch /\ Tail(p) = <<>>
  BY <1>1
<1>2. ASSUME NEW ch \in Typed \cup {"DEL", "CR"}, p = <<ch>>
      PROVE  /\ Tail(p) = <<>> /\ <<Head(p)>> \in lasts
             /\ p \in stumps => Head(p) \notin {"ESC", "DEL"}
  <2>1. Head(p) = ch /\ Tail(p) = <<>>
    BY <1>1, <1>2
  <2>2. <<ch>> \in lasts
    BY Zenon DEF lasts
  <2>3. ASSUME p \in stumps PROVE ch \notin {"ESC", "DEL"}
    <3>1. CASE \E d \in {"a", "D", "C", "A", "~"} : p = <<d>>
      <4>1. PICK d \in {"a", "D", "C", "A", "~"} : p = <<d>>
        BY <3>1
      <4>2. ch = d
        BY <1>1, <2>1, <4>1
      <4> QED
        BY <4>2
    <3>2. Len(p) = 1
      BY <1>2
    <3>3. CASE \E d \in {"D", "C", "A"} : p = <<"[", d>>
      BY <3>2, <3>3
    <3>4. CASE \E d \in {"3", "1"} : p = <<"[", d, "~">>
      BY <3>2, <3>4
    <3>5. CASE \E d \in {"3", "1"} : p = <<d, "~">>
      BY <3>2, <3>5
    <3> QED
      BY <2>3, <3>1, <3>3, <3>4, <3>5, Stumps
  <2> QED
    BY <2>1, <2>2, <2>3
<1>3. ASSUME NEW d \in {"a", "D", "C", "A", "~"}, p = <<d>>
      PROVE  Tail(p) = <<>> /\ <<Head(p)>> \in lasts /\ Head(p) \notin {"ESC", "DEL"}
  <2>1. Head(p) = d /\ Tail(p) = <<>>
    BY <1>1, <1>3
  <2>2. d \in Typed \cup {"DEL", "CR", "a", "D", "C", "A", "~"}
    BY <1>3
  <2>3. <<d>> \in lasts
    BY <2>2, Zenon DEF lasts
  <2>4. d \notin {"ESC", "DEL"}
    BY <1>3
  <2> QED
    BY <2>1, <2>3, <2>4
<1>4. ASSUME p = <<"ESC", "a">>
      PROVE  Tail(p) # <<>> /\ Tail(p) \in stumps /\ Head(p) = "ESC"
  <2>1. Head(p) = "ESC" /\ Tail(p) = <<"a">>
    BY <1>4
  <2> QED
    BY <2>1, Stumps
<1>5. ASSUME NEW d \in {"D", "C", "A"}, p = <<"ESC", "[", d>>
      PROVE  Tail(p) # <<>> /\ Tail(p) \in stumps /\ Head(p) = "ESC"
  <2>1. Head(p) = "ESC" /\ Tail(p) = <<"[", d>>
    BY <1>5
  <2> QED
    BY <2>1, Stumps
<1>6. ASSUME NEW d \in {"3", "1"}, p = <<"ESC", "[", d, "~">>
      PROVE  Tail(p) # <<>> /\ Tail(p) \in stumps /\ Head(p) = "ESC"
  <2>1. Head(p) = "ESC" /\ Tail(p) = <<"[", d, "~">>
    BY <1>6
  <2> QED
    BY <2>1, Stumps
<1>7. ASSUME NEW d \in {"D", "C", "A"}, p = <<"[", d>>
      PROVE  Tail(p) # <<>> /\ Tail(p) \in stumps /\ Head(p) = "["
  <2>1. Head(p) = "[" /\ Tail(p) = <<d>> /\ Tail(p) # <<>>
    BY <1>7
  <2>2. d \in {"a", "D", "C", "A", "~"}
    OBVIOUS
  <2>3. Tail(p) \in stumps
    BY <2>1, <2>2, Stumps, Zenon
  <2> QED
    BY <2>1, <2>3
<1>8. ASSUME NEW d \in {"3", "1"}, p = <<"[", d, "~">>
      PROVE  Tail(p) # <<>> /\ Tail(p) \in stumps /\ Head(p) = "["
  <2>1. Head(p) = "[" /\ Tail(p) = <<d, "~">> /\ Tail(p) # <<>>
    BY <1>8
  <2>2. Tail(p) \in stumps
    BY <2>1, Stumps, Zenon
  <2> QED
    BY <2>1, <2>2
<1>9. ASSUME NEW d \in {"3", "1"}, p = <<d, "~">>
      PROVE  Tail(p) # <<>> /\ Tail(p) \in stumps /\ Head(p) \notin {"ESC", "DEL"}
  <2>1. Head(p) = d /\ Tail(p) = <<"~">>
    BY <1>9
  <2> QED
    BY <2>1, Stumps
<1>10. CASE p \in rests("NORMAL") /\ p \notin stumps
  <2>1. \/ p = <<"ESC", "a">>
        \/ \E ch \in Typed \cup {"DEL", "CR"} : p = <<ch>>
        \/ \E d \in {"D", "C", "A"} : p = <<"ESC", "[", d>>
        \/ \E d \in {"3", "1"} : p = <<"ESC", "[", d, "~">>
    BY <1>10, Shapes, Zenon
  <2> QED
    BY <1>2, <1>4, <1>5, <1>6, <1>10, <2>1, Zenon
<1>11. CASE p \in stumps
  <2>1. \/ \E d \in {"a", "D", "C", "A", "~"} : p = <<d>>
        \/ \E d \in {"D", "C", "A"} : p = <<"[", d>>
        \/ \E d \in {"3", "1"} : p = <<"[", d, "~">>
        \/ \E d \in {"3", "1"} : p = <<d, "~">>
    BY <1>11, Stumps, Zenon
  <2>2. "[" \notin {"ESC", "DEL"}
    OBVIOUS
  <2> QED
    BY <1>3, <1>7, <1>8, <1>9, <2>1, <2>2, Zenon
<1> QED
  BY <1>10, <1>11

LEMMA NoneLeft ==
  /\ <<>> \in rests("NORMAL") /\ <<>> \notin stumps
  /\ <<>> \notin rests("ESCAPE") /\ <<>> \notin rests("ESCAPE_BRACKET")
  /\ <<>> \notin lasts
<1>1. <<>> \in rests("NORMAL") /\ <<>> \notin rests("ESCAPE") /\ <<>> \notin rests("ESCAPE_BRACKET")
  BY Shapes
<1> QED
  BY <1>1 DEF stumps, lasts

(* While input() reads, what arrived and what is left of the key continue what *)
(* the editor has read of it, or are left from before the prompt: then the     *)
(* editor has read nothing but letters, and their echo is one character each.  *)
(* While a command prints the register holds what came last.                   *)
follows(p) == uart_in = <<Head(p)>> /\ key = Tail(p)
on_time(p) == follows(p) /\ (key = <<>> => pause = Gap)

InStep == \/ uart_in = <<>> /\ key \in rests(state)
          \/ \E p \in rests(state) : p # <<>> /\ on_time(p)

Behind == /\ state = "NORMAL" /\ at_end(cmd_buf)
          /\ \/ uart_in = <<>> /\ key \in stumps
             \/ \E p \in stumps : on_time(p)
             \/ cmd_buf.cursor = 0 /\ uart_in \in lasts /\ key \in rests("NORMAL")

Away == \/ uart_in \in lasts \cup {<<>>} /\ key \in rests("NORMAL")
        \/ uart_in = <<>> /\ key \in stumps
        \/ \E p \in rests("NORMAL") \cup stumps : p # <<>> /\ Tail(p) # <<>> /\ follows(p)

Paced == /\ entered = <<>> => InStep \/ Behind
         /\ entered # <<>> => Away
         /\ pause \in Nat /\ Len(out) <= pause + 2
         /\ uart_in # <<>> => Len(out) <= 1
         /\ key # <<>> => pause = 0

LEMMA PacedPress ==
  ASSUME LineInv, Paced, Gap > 0, Press
  PROVE  Paced'
<1>1. /\ key = <<>> /\ pause = 0 /\ key' \in rests("NORMAL")
      /\ pause' = pause /\ uart_in' = uart_in /\ cmd_buf' = cmd_buf
      /\ state' = state /\ out' = out /\ entered' = entered
  BY DEF Press, vars, editorVars, rests
<1>2. \A p : ~on_time(p)
  BY <1>1 DEF on_time
<1>3. CASE entered = <<>>
  <2>1. CASE InStep
    <3>1. uart_in = <<>> /\ <<>> \in rests(state)
      BY <1>1, <1>2, <2>1 DEF InStep
    <3>2. state = "NORMAL"
      BY <3>1, NoneLeft DEF LineInv, TypeOK
    <3> QED
      BY <1>1, <1>3, <3>1, <3>2 DEF Paced, InStep
  <2>2. CASE Behind
    <3>1. cmd_buf.cursor = 0 /\ uart_in \in lasts /\ state = "NORMAL" /\ at_end(cmd_buf)
      BY <1>1, <1>2, <2>2, NoneLeft DEF Behind
    <3>2. Behind'
      BY <1>1, <3>1 DEF Behind, at_end
    <3> QED
      BY <1>1, <1>3, <3>2 DEF Paced
  <2> QED
    BY <1>3, <2>1, <2>2 DEF Paced
<1>4. CASE entered # <<>>
  <2>1. uart_in \in lasts \cup {<<>>}
    BY <1>1, <1>4, NoneLeft DEF Paced, Away, follows
  <2>2. Away'
    BY <1>1, <2>1 DEF Away
  <2> QED
    BY <1>1, <1>4, <2>2 DEF Paced
<1> QED
  BY <1>3, <1>4

(* The echo of a letter that is typed at the end of the line is the letter.    *)
LEMMA ReadAtEnd ==
  ASSUME LineInv, NEW ch, Key(ch), state = "NORMAL", at_end(cmd_buf), ch # "ESC",
         ch = "DEL" => cmd_buf.cursor = 0
  PROVE  /\ state' = "NORMAL" /\ at_end(cmd_buf') /\ Len(out') <= Len(out) + 1
<1>1. /\ cmd_buf \in Buffers(Elements, Size) /\ out \in Seq(Chars) /\ Len(out) \in Nat
  BY DEF LineInv, TypeOK, Elements
<1>2. state' = "NORMAL"
  BY KeyStates
<1>3. (ch = "DEL" /\ Backspace) \/ Return \/ (ch \in Letters /\ Letter(ch))
  BY DEF Key, Escape, CarriageReturn, Bracket, NoBracket, Parameter, ArrowLeft, ArrowRight,
     Delete, Unknown, EndsSequence
<1>4. CASE Return
  <2>1. cmd_buf' = set_terminator(cmd_buf, Zero) /\ out' = out
    BY <1>4 DEF Return
  <2>2. cmd_buf'.cursor = cmd_buf.cursor /\ cmd_buf'.end = cmd_buf.end
    BY <1>1, <2>1, Terminated
  <2> QED
    BY <1>1, <1>2, <2>1, <2>2 DEF at_end
<1>5. CASE ch = "DEL" /\ Backspace
  BY <1>1, <1>2, <1>5 DEF Backspace
<1>6. CASE ch \in Letters /\ Letter(ch)
  <2>1. CASE is_full(cmd_buf, Size)
    BY <1>4, <1>6, <2>1 DEF Letter
  <2>2. CASE ~is_full(cmd_buf, Size)
    <3> DEFINE b == insert(cmd_buf, ch)
    <3>1. cmd_buf' = b /\ out' = out \o (<<ch>> \o rest_and_back(b))
      BY <1>6, <2>2 DEF Letter, Edits
    <3>2. /\ b \in Buffers(Elements, Size)
          /\ b.cursor = cmd_buf.cursor + 1 /\ b.end = cmd_buf.end + 1
      BY <1>1, <1>6, <2>2, Inserted
    <3> HIDE DEF b
    <3>3. at_end(b) /\ b.end - b.cursor = 0
      BY <1>1, <3>2, Types DEF at_end
    <3>4. rest_and_back(b) = <<>>
      <4>1. from_cursor_to_end(b) = <<>>
        BY <3>3 DEF from_cursor_to_end
      <4>2. uart_send_move_back(elements_after_cursor_count(b)) = <<>>
        BY <3>3 DEF uart_send_move_back, elements_after_cursor_count
      <4> QED
        BY <4>1, <4>2 DEF rest_and_back
    <3>5. ch \in Chars
      BY <1>6 DEF Chars
    <3> DEFINE one == <<ch>>
    <3>6. one \in Seq(Chars) /\ Len(one) = 1 /\ <<ch>> \o rest_and_back(b) = one
      <4>1. one \in Seq(Chars) /\ Len(one) = 1
        BY <3>5
      <4>2. one \o <<>> = one
        BY <4>1, ConcatEmptySeq
      <4> QED
        BY <3>4, <4>1, <4>2
    <3>7. out' = out \o one
      BY <3>1, <3>6
    <3> HIDE DEF one
    <3>8. Len(out') = Len(out) + Len(one)
      BY <1>1, <3>6, <3>7, ConcatProperties
    <3> QED
      BY <1>1, <1>2, <3>1, <3>3, <3>6, <3>8
  <2> QED
    BY <2>1, <2>2
<1> QED
  BY <1>3, <1>4, <1>5, <1>6

LEMMA PacedRead ==
  ASSUME LineInv, Paced, Size > 1, Gap >= 2 * (Size - 1), Read
  PROVE  Paced'
<1>1. /\ uart_in # <<>> /\ Key(uart_in[1]) /\ uart_in' = <<>>
      /\ key' = key /\ pause' = pause /\ entered = <<>>
  BY DEF Read, can_read
<1>2. /\ cmd_buf \in Buffers(Elements, Size) /\ only_letters(cmd_buf) /\ out \in Seq(Chars)
      /\ Size \in Nat /\ Gap \in Nat
  BY LineEditorAssumption, TypingAssumption DEF LineInv, TypeOK, Elements
<1>3. Len(out) \in Nat /\ Len(out) <= 1 /\ pause \in Nat /\ (key # <<>> => pause = 0)
  BY <1>1, <1>2 DEF Paced
<1>4. out' \in Seq(Chars) /\ Len(out') \in Nat
  <2>1. out' \in Seq(Chars)
    BY <1>1, LineKey DEF LineInv
  <2> QED
    BY <2>1
<1>5. CASE InStep
  <2>1. PICK p \in rests(state) : p # <<>> /\ uart_in = <<Head(p)>> /\ key = Tail(p)
                                  /\ (key = <<>> => pause = Gap)
    BY <1>1, <1>5 DEF InStep, on_time, follows
  <2>2. Key(Head(p))
    <3>1. uart_in[1] = Head(p)
      BY <2>1
    <3> QED
      BY <1>1, <3>1
  <2>3. Tail(p) \in rests(state') /\ (Tail(p) # <<>> => Quiet)
    BY <2>1, <2>2, RestIsRead
  <2>4. Quiet \/ Ends \/ Edited
    BY <2>2, KeyEffects DEF LineInv
  <2>5. entered' = <<>> => InStep'
    BY <1>1, <2>1, <2>3 DEF InStep
  <2>6. CASE key = <<>>
    <3>1. key' \in rests("NORMAL")
      BY <1>1, <2>6, NoneLeft
    <3>2. Away'
      BY <1>1, <3>1 DEF Away
    <3>3. Len(out') <= Len(out) + 2 * Size - 1
      BY <1>2, <2>4, EchoLength
    <3>4. Len(out') <= pause' + 2
      <4> DEFINE m == Len(out')
                 n == Len(out)
      <4>1. m \in Nat /\ n \in Nat /\ n <= 1 /\ m <= n + 2 * Size - 1
        BY <1>3, <1>4, <3>3
      <4> HIDE DEF m, n
      <4>2. m <= Gap + 2
        BY <1>2, <4>1
      <4> QED
        BY <1>1, <2>1, <2>6, <4>2 DEF m
    <3> QED
      BY <1>1, <1>3, <2>5, <2>6, <3>2, <3>4 DEF Paced
  <2>7. CASE key # <<>>
    <3>1. out' = out /\ entered' = entered
      BY <2>1, <2>3, <2>7 DEF Quiet
    <3> QED
      BY <1>1, <1>3, <2>5, <3>1 DEF Paced
  <2> QED
    BY <2>6, <2>7
<1>6. CASE Behind
  <2>1. state = "NORMAL" /\ at_end(cmd_buf)
    BY <1>6 DEF Behind
  <2>2. \/ \E p \in stumps : follows(p)
        \/ cmd_buf.cursor = 0 /\ uart_in \in lasts /\ key \in rests("NORMAL")
    BY <1>1, <1>6 DEF Behind, on_time
  <2>3. /\ uart_in[1] # "ESC" /\ (uart_in[1] = "DEL" => cmd_buf.cursor = 0)
        /\ key \in stumps \/ key \in rests("NORMAL")
    <3>1. CASE \E p \in stumps : follows(p)
      <4>1. PICK p \in stumps : uart_in = <<Head(p)>> /\ key = Tail(p)
        BY <3>1 DEF follows
      <4>2. p # <<>> /\ uart_in[1] = Head(p)
        BY <4>1, NoneLeft
      <4> QED
        BY <4>1, <4>2, Pieces, NoneLeft
    <3>2. CASE cmd_buf.cursor = 0 /\ uart_in \in lasts /\ key \in rests("NORMAL")
      <4>1. PICK ch \in Typed \cup {"DEL", "CR", "a", "D", "C", "A", "~"} : uart_in = <<ch>>
        BY <3>2, Zenon DEF lasts
      <4>2. uart_in[1] = ch /\ ch # "ESC"
        BY <4>1, LineEditorAssumption, TypingAssumption
      <4> QED
        BY <3>2, <4>2
    <3> QED
      BY <2>2, <3>1, <3>2
  <2>4. state' = "NORMAL" /\ at_end(cmd_buf') /\ Len(out') <= Len(out) + 1
    BY <1>1, <2>1, <2>3, ReadAtEnd
  <2>5. entered' = <<>> => InStep' \/ Behind'
    <3>1. CASE key \in stumps
      BY <1>1, <2>4, <3>1 DEF Behind, at_end
    <3>2. CASE key \in rests("NORMAL")
      BY <1>1, <2>4, <3>2 DEF InStep
    <3> QED
      BY <2>3, <3>1, <3>2
  <2>6. Away'
    BY <1>1, <2>3 DEF Away
  <2>7. Len(out') <= pause' + 2
    <3> DEFINE m == Len(out')
               n == Len(out)
               k == pause'
    <3>1. m \in Nat /\ n \in Nat /\ k \in Nat /\ n <= 1 /\ m <= n + 1
      BY <1>1, <1>3, <1>4, <2>4
    <3> HIDE DEF m, n, k
    <3>2. m <= k + 2
      BY <3>1
    <3> QED
      BY <3>2 DEF m, k
  <2> QED
    BY <1>1, <1>3, <2>5, <2>6, <2>7 DEF Paced
<1> QED
  BY <1>1, <1>5, <1>6 DEF Paced

LEMMA PacedPrompt ==
  ASSUME LineInv, Paced, Prompt
  PROVE  Paced'
<1>1. /\ entered # <<>> /\ entered' = <<>> /\ state' = "NORMAL" /\ out' = <<>>
      /\ key' = key /\ pause' = pause /\ uart_in' = uart_in /\ cmd_buf' = reset(cmd_buf)
  BY DEF Prompt, NewLine, typingVars
<1>2. cmd_buf'.cursor = 0 /\ at_end(cmd_buf')
  <2>1. cmd_buf \in Buffers(Elements, Size)
    BY DEF LineInv, TypeOK, Elements
  <2>2. cmd_buf = [line |-> cmd_buf.line, cursor |-> cmd_buf.cursor, end |-> cmd_buf.end]
    BY <2>1, Types
  <2>3. cmd_buf'.cursor = 0 /\ cmd_buf'.end = 0
    BY <1>1, <2>2 DEF reset
  <2> QED
    BY <2>3 DEF at_end
<1>3. InStep' \/ Behind'
  <2>1. CASE uart_in \in lasts \cup {<<>>} /\ key \in rests("NORMAL")
    BY <1>1, <1>2, <2>1 DEF InStep, Behind, at_end
  <2>2. CASE uart_in = <<>> /\ key \in stumps
    BY <1>1, <1>2, <2>2 DEF Behind, at_end
  <2>3. ASSUME NEW p \in rests("NORMAL") \cup stumps, p # <<>>, Tail(p) # <<>>, follows(p)
        PROVE  InStep' \/ Behind'
    <3>1. on_time(p)'
      BY <1>1, <2>3 DEF on_time, follows
    <3>2. CASE p \in rests("NORMAL")
      BY <1>1, <2>3, <3>1, <3>2 DEF InStep
    <3>3. CASE p \in stumps
      BY <1>1, <1>2, <3>1, <3>3 DEF Behind, at_end
    <3> QED
      BY <2>3, <3>2, <3>3
  <2> QED
    BY <1>1, <2>1, <2>2, <2>3 DEF Paced, Away
<1>4. Len(out') = 0
  BY <1>1
<1> QED
  BY <1>1, <1>3, <1>4 DEF Paced

LEMMA PacedFrame ==
  ASSUME LineInv, Paced, Frame
  PROVE  Paced' /\ (uart_in # <<>> => entered # <<>>)
<1>1. entered = <<>> => uart_in = <<>>
  BY DEF Paced, Frame, can_read
<1>2. /\ pause \in Nat /\ Len(out) <= pause + 2 /\ out \in Seq(Chars) /\ Gap \in Nat
      /\ (uart_in # <<>> => Len(out) <= 1) /\ (key # <<>> => pause = 0)
  BY TypingAssumption DEF Paced, LineInv
<1>3. /\ state' = state /\ entered' = entered /\ cmd_buf' = cmd_buf /\ out' \in Seq(Chars)
      /\ Len(out) \in Nat /\ Len(out') \in Nat
      /\ out # <<>> => Len(out') = Len(out) - 1
      /\ out = <<>> => Len(out') = 0
  <2>1. CASE Transmit
    BY <1>2, <2>1, FirstAndRest DEF Transmit, editorVars
  <2>2. CASE out = <<>> /\ UNCHANGED vars
    BY <2>2 DEF vars, editorVars
  <2> QED
    BY <2>1, <2>2 DEF Frame
<1>4. Len(out') <= 1 \/ Len(out') <= Len(out) - 1
  BY <1>3
<1>5. CASE key = <<>>
  <2>1. key' = key /\ uart_in' = uart_in /\ pause' = IF pause = 0 THEN 0 ELSE pause - 1
    BY <1>5 DEF Frame, Arrive
  <2>2. pause' \in Nat /\ Len(out') <= pause' + 2 /\ (uart_in' # <<>> => Len(out') <= 1)
    BY <1>2, <1>3, <2>1
  <2>3. entered = <<>> => InStep'
    <3> SUFFICES ASSUME entered = <<>> PROVE InStep'
      OBVIOUS
    <3>1. uart_in = <<>> /\ (InStep \/ Behind)
      BY <1>1 DEF Paced
    <3>2. CASE InStep
      BY <1>3, <2>1, <3>1, <3>2 DEF InStep, on_time, follows
    <3>3. CASE Behind
      <4>1. uart_in \notin lasts /\ key \notin stumps /\ \A p : ~on_time(p)
        BY <1>5, <3>1, NoneLeft DEF on_time, follows
      <4> QED
        BY <3>3, <4>1, <3>1 DEF Behind
    <3> QED
      BY <3>1, <3>2, <3>3
  <2>4. entered # <<>> => Away'
    BY <1>5, <2>1, NoneLeft DEF Paced, Away, follows
  <2> QED
    BY <1>1, <1>3, <1>5, <2>1, <2>2, <2>3, <2>4 DEF Paced
<1>6. CASE key # <<>>
  <2>1. /\ uart_in' = <<Head(key)>> /\ key' = Tail(key)
        /\ pause' = IF Tail(key) = <<>> THEN Gap ELSE 0
    BY <1>6 DEF Frame, Arrive
  <2>2. Len(out') <= 1
    BY <1>2, <1>3, <1>6
  <2>3. pause' \in Nat /\ Len(out') <= pause' + 2
    BY <1>2, <1>3, <2>1, <2>2
  <2>4. \A p : p = key => on_time(p)'
    BY <2>1 DEF on_time, follows
  <2>5. entered = <<>> => InStep' \/ Behind'
    <3> SUFFICES ASSUME entered = <<>> PROVE InStep' \/ Behind'
      OBVIOUS
    <3>1. uart_in = <<>> /\ (InStep \/ Behind)
      BY <1>1 DEF Paced
    <3>2. \A p : ~follows(p)
      BY <3>1 DEF follows
    <3>3. CASE InStep
      <4>1. key \in rests(state)
        BY <3>2, <3>3 DEF InStep, on_time
      <4> QED
        BY <1>3, <1>6, <2>4, <4>1 DEF InStep
    <3>4. CASE Behind
      <4>1. state = "NORMAL" /\ at_end(cmd_buf) /\ key \in stumps
        BY <3>1, <3>2, <3>4, NoneLeft DEF Behind, on_time
      <4> QED
        BY <1>3, <2>4, <4>1 DEF Behind, at_end
    <3> QED
      BY <3>1, <3>3, <3>4
  <2>6. entered # <<>> => Away'
    <3> SUFFICES ASSUME entered # <<>> PROVE Away'
      OBVIOUS
    <3>1. key \in rests("NORMAL") \cup stumps
      <4>1. ASSUME NEW p \in rests("NORMAL") \cup stumps, p # <<>>, follows(p)
            PROVE  key \in stumps
        BY <1>6, <4>1, Pieces DEF follows
      <4> QED
        BY <4>1 DEF Paced, Away
    <3>2. CASE Tail(key) = <<>>
      <4>1. uart_in' \in lasts /\ key' \in rests("NORMAL")
        BY <1>6, <2>1, <3>1, <3>2, Pieces, NoneLeft
      <4> QED
        BY <4>1 DEF Away
    <3>3. CASE Tail(key) # <<>>
      BY <1>6, <2>1, <3>1, <3>3 DEF Away, follows
    <3> QED
      BY <3>2, <3>3
  <2>7. key' # <<>> => pause' = 0
    BY <2>1
  <2> QED
    BY <1>1, <1>3, <2>2, <2>3, <2>5, <2>6, <2>7 DEF Paced
<1> QED
  BY <1>5, <1>6

(* The register of ramio.sv, which holds one character, overwrites one that    *)
(* was not read only while a command prints, for every size of the buffer, when *)
(* the keyboard leaves as many frames after a key as the longest line has      *)
(* characters, twice: the longest echo is then sent but for two characters     *)
(* when the next key begins.  Keys may be typed at any time, so that a line    *)
(* may begin with the rest of one.  What comes while a command prints may be   *)
(* lost, whatever the gap.                                                     *)
THEOREM NothingIsLost ==
  ASSUME Size > 1, Gap >= 2 * (Size - 1)
  PROVE  TypingSpec => NoCharacterLost
<1>1. TypingInit => Paced
  <2> SUFFICES ASSUME TypingInit PROVE Paced
    OBVIOUS
  <2>1. /\ entered = <<>> /\ uart_in = <<>> /\ key = <<>> /\ pause = 0 /\ out = <<>>
        /\ state = "NORMAL"
    BY DEF TypingInit, Init
  <2>2. InStep
    BY <2>1, NoneLeft DEF InStep
  <2> QED
    BY <2>1, <2>2 DEF Paced
<1>2. Gap > 0
  BY LineEditorAssumption, TypingAssumption
<1>3. LineInv /\ Paced /\ [TypingNext]_<<vars, typingVars>>
        => /\ Paced'
           /\ [key # <<>> /\ key' # key /\ uart_in # <<>> => entered # <<>>]_<<vars, typingVars>>
  <2> SUFFICES ASSUME LineInv, Paced, [TypingNext]_<<vars, typingVars>>
               PROVE  /\ Paced'
                      /\ key # <<>> /\ key' # key /\ uart_in # <<>> => entered # <<>>
    OBVIOUS
  <2>1. CASE UNCHANGED <<vars, typingVars>>
    BY <2>1 DEF Paced, InStep, Behind, Away, on_time, follows, at_end, vars, editorVars, typingVars
  <2>2. CASE Press
    BY <1>2, <2>2, PacedPress DEF Press
  <2>3. CASE Read
    BY <2>3, PacedRead DEF Read
  <2>4. CASE Prompt
    BY <2>4, PacedPrompt DEF Prompt, typingVars
  <2>5. CASE Frame
    BY <2>5, PacedFrame
  <2> QED
    BY <2>1, <2>2, <2>3, <2>4, <2>5 DEF TypingNext
<1> QED
  BY <1>1, <1>3, LineInvariant, PTL DEF TypingSpec, NoCharacterLost
=============================================================================
