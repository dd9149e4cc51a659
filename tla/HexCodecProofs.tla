---------------------------- MODULE HexCodecProofs ----------------------------
(***************************************************************************)
(* Proofs about HexCodec for lines with any bytes, cut anywhere, and any   *)
(* number of them glued together.                                          *)
(***************************************************************************)
EXTENDS HexCodec, SequenceTheorems, TLAPS

Part == Lines \cup CutLines

\* The beginning r of the line that is written from l.
BeginsLine(r, l) == \E k \in 1..LineLength(l.head) : r = SubSeq(Text(l), 1, k)

\* What is made of two parts or more has the V of a head behind its beginning.
Glued(r) == \E p \in 2..Len(r) : r[p] = 86

\* The buffer is as the history says.
MadeOf ==
  /\ Len(made) = 0 => rx = <<>>
  /\ Len(made) = 1 => BeginsLine(rx, made[1])
  /\ Len(made) >= 2 => Glued(rx)

CodecInv ==
  /\ CodecTypeOK
  /\ made \in Seq(Part) /\ was \in Seq(Part)
  /\ MadeOf
  /\ DecodedIffOneLine /\ WritesOneObject

------------------------------------------------------------------------------
(* Digits. *)

\* A digit that is written is a hexadecimal digit, and the decoder inverts it.
LEMMA Digit ==
  ASSUME NEW d \in 0..15
  PROVE  /\ hexmap[d] \in Byte /\ hexmap[d] # Newline /\ hexmap[d] # 86
         /\ IsHexDigit(hexmap[d])
         /\ hashmap(hexmap[d]) = d
  <1>1. d \in Int /\ 0 <= d /\ d <= 15
    OBVIOUS
  <1>2. CASE d < 10
    <2>1. hexmap[d] = 48 + d
      BY <1>2 DEF hexmap
    <2>2. 48 + d \in 48..57
      BY <1>1, <1>2
    <2>3. hashmap(48 + d) = d
      BY <1>1, <2>2 DEF hashmap
    <2> QED
      BY <1>1, <1>2, <2>1, <2>2, <2>3 DEF Byte, Newline, IsHexDigit
  <1>3. CASE ~(d < 10)
    <2>1. hexmap[d] = 87 + d
      BY <1>3 DEF hexmap
    <2>2. 87 + d \in 97..102
      BY <1>1, <1>3
    <2>3. hashmap(87 + d) = d
      BY <1>1, <1>3, <2>2 DEF hashmap
    <2> QED
      BY <1>1, <1>3, <2>1, <2>2, <2>3 DEF Byte, Newline, IsHexDigit
  <1> QED
    BY <1>2, <1>3

\* The value of any character is a digit's.
LEMMA HashmapType == ASSUME NEW c \in Byte PROVE hashmap(c) \in 0..15
  BY DEF hashmap, Byte

\* do_conv writes two digits for a byte, the high one first.
LEMMA Conv ==
  ASSUME NEW bin \in Seq(Byte)
  PROVE  /\ do_conv(bin) \in Seq(Byte) /\ Len(do_conv(bin)) = 2 * Len(bin)
         /\ \A i \in 1..(2 * Len(bin)) : \E d \in 0..15 : do_conv(bin)[i] = hexmap[d]
         /\ \A i \in 1..Len(bin) :
              /\ bin[i] \div 16 \in 0..15 /\ bin[i] % 16 \in 0..15
              /\ bin[i] = 16 * (bin[i] \div 16) + (bin[i] % 16)
              /\ do_conv(bin)[2 * i - 1] = hexmap[bin[i] \div 16]
              /\ do_conv(bin)[2 * i] = hexmap[bin[i] % 16]
  <1> DEFINE n == Len(bin)
  <1>1. n \in Nat
    OBVIOUS
  <1>2. ASSUME NEW c \in Byte
        PROVE  c \div 16 \in 0..15 /\ c % 16 \in 0..15 /\ c = 16 * (c \div 16) + (c % 16)
    BY DEF Byte
  <1>3. ASSUME NEW i \in 1..(2 * n)
        PROVE  \E d \in 0..15 : do_conv(bin)[i] = hexmap[d]
    <2>1. CASE i % 2 = 1
      <3>1. (i + 1) \div 2 \in 1..n
        BY <1>1, <2>1
      <3>2. do_conv(bin)[i] = hexmap[bin[(i + 1) \div 2] \div 16]
        BY <2>1 DEF do_conv
      <3>3. bin[(i + 1) \div 2] \in Byte
        BY <3>1
      <3> QED
        BY <1>2, <3>2, <3>3
    <2>2. CASE ~(i % 2 = 1)
      <3>1. i \div 2 \in 1..n
        BY <1>1, <2>2
      <3>2. do_conv(bin)[i] = hexmap[bin[i \div 2] % 16]
        BY <2>2 DEF do_conv
      <3>3. bin[i \div 2] \in Byte
        BY <3>1
      <3> QED
        BY <1>2, <3>2, <3>3
    <2> QED
      BY <2>1, <2>2
  <1>4. \A i \in 1..(2 * n) : do_conv(bin)[i] \in Byte
    BY <1>3, Digit
  <1>5. do_conv(bin) \in Seq(Byte) /\ Len(do_conv(bin)) = 2 * n
    BY <1>1, <1>4 DEF do_conv
  <1>6. ASSUME NEW i \in 1..n
        PROVE  /\ bin[i] \div 16 \in 0..15 /\ bin[i] % 16 \in 0..15
               /\ bin[i] = 16 * (bin[i] \div 16) + (bin[i] % 16)
               /\ do_conv(bin)[2 * i - 1] = hexmap[bin[i] \div 16]
               /\ do_conv(bin)[2 * i] = hexmap[bin[i] % 16]
    <2>1. bin[i] \in Byte
      OBVIOUS
    <2>2. /\ 2 * i - 1 \in 1..(2 * n) /\ (2 * i - 1) % 2 = 1 /\ (2 * i - 1 + 1) \div 2 = i
      BY <1>1
    <2>3. /\ 2 * i \in 1..(2 * n) /\ ~((2 * i) % 2 = 1) /\ (2 * i) \div 2 = i
      BY <1>1
    <2>4. do_conv(bin)[2 * i - 1] = hexmap[bin[i] \div 16]
      BY <2>2 DEF do_conv
    <2>5. do_conv(bin)[2 * i] = hexmap[bin[i] % 16]
      BY <2>3 DEF do_conv
    <2> QED
      BY <1>2, <2>1, <2>4, <2>5
  <1> QED
    BY <1>3, <1>5, <1>6

\* hex_string_to_bin_fastest inverts do_conv.
LEMMA RoundTrip ==
  ASSUME NEW bin \in Seq(Byte)
  PROVE  hex_string_to_bin_fastest(do_conv(bin)) = bin
  <1> DEFINE n == Len(bin)
             t == do_conv(bin)
  <1>1. n \in Nat /\ Len(t) = 2 * n /\ (2 * n) \div 2 = n
    BY Conv
  <1>2. ASSUME NEW i \in 1..n
        PROVE  ((hashmap(t[2 * i - 1]) * 16) % 256) + hashmap(t[2 * i]) = bin[i]
    <2> DEFINE hi == bin[i] \div 16
               lo == bin[i] % 16
    <2>1. /\ hi \in 0..15 /\ lo \in 0..15 /\ bin[i] = 16 * hi + lo
          /\ t[2 * i - 1] = hexmap[hi] /\ t[2 * i] = hexmap[lo]
      BY Conv
    <2> HIDE DEF hi, lo, t
    <2>2. hashmap(t[2 * i - 1]) = hi /\ hashmap(t[2 * i]) = lo
      BY <2>1, Digit
    <2>3. (hi * 16) % 256 = 16 * hi
      BY <2>1
    <2> QED
      BY <2>1, <2>2, <2>3
  <1> HIDE DEF t
  <1>3. Len(t) \div 2 = n
    BY <1>1
  <1>4. bin = [i \in 1..n |-> bin[i]]
    OBVIOUS
  <1>5. hex_string_to_bin_fastest(t) = bin
    BY <1>2, <1>3, <1>4, Zenon DEF hex_string_to_bin_fastest
  <1> QED
    BY <1>5 DEF t

------------------------------------------------------------------------------
(* Lines. *)

AllHeads == {"VCI_Receive", "VCI_Transmit"}

\* A head is a text of bytes; its first character, and no other, is a V, none is
\* the newline, and the fifth one tells the two heads apart.
LEMMA Heading ==
  ASSUME NEW h \in AllHeads
  PROVE  LET t == HeadText(h)
         IN  /\ t \in Seq(Byte)
             /\ h = "VCI_Receive" => Len(t) = 12 /\ InfoSize(h) = 16 /\ t[5] = 82
             /\ h = "VCI_Transmit" => Len(t) = 13 /\ InfoSize(h) = 12 /\ t[5] = 84
             /\ t[1] = 86
             /\ \A i \in 2..Len(t) : t[i] # 86
             /\ \A i \in 1..Len(t) : t[i] # Newline
  <1>1. CASE h = "VCI_Receive"
    <2> DEFINE t == <<86, 67, 73, 95, 82, 101, 99, 101, 105, 118, 101, 44>>
    <2>1. HeadText(h) = t /\ InfoSize(h) = 16
      BY <1>1 DEF HeadText, InfoSize
    <2>2. t \in Seq(Byte) /\ Len(t) = 12 /\ t[1] = 86 /\ t[5] = 82
      BY DEF Byte
    <2>3. \A i \in 2..12 : t[i] # 86
      OBVIOUS
    <2>4. \A i \in 1..12 : t[i] # 10
      OBVIOUS
    <2> HIDE DEF t
    <2> QED
      BY <1>1, <2>1, <2>2, <2>3, <2>4 DEF Newline
  <1>2. CASE h = "VCI_Transmit"
    <2> DEFINE t == <<86, 67, 73, 95, 84, 114, 97, 110, 115, 109, 105, 116, 44>>
    <2>1. HeadText(h) = t /\ InfoSize(h) = 12
      BY <1>2 DEF HeadText, InfoSize
    <2>2. t \in Seq(Byte) /\ Len(t) = 13 /\ t[1] = 86 /\ t[5] = 84
      BY DEF Byte
    <2>3. \A i \in 2..13 : t[i] # 86
      OBVIOUS
    <2>4. \A i \in 1..13 : t[i] # 10
      OBVIOUS
    <2> HIDE DEF t
    <2> QED
      BY <1>2, <2>1, <2>2, <2>3, <2>4 DEF Newline
  <1> QED
    BY <1>1, <1>2 DEF AllHeads

\* The lengths of a head and of a line.
LEMMA Lengths ==
  ASSUME NEW h \in AllHeads
  PROVE  /\ Len(HeadText(h)) \in {12, 13} /\ Len(HeadText(h)) \in 12..13
         /\ InfoSize(h) \in Nat
         /\ LineLength(h) \in Nat \ {0}
         /\ 1 \in 1..Len(HeadText(h)) /\ 5 \in 1..Len(HeadText(h))
  <1>1. CASE h = "VCI_Receive"
    <2>1. Len(HeadText(h)) = 12 /\ InfoSize(h) = 16
      BY <1>1, Heading, Zenon
    <2> QED
      BY <2>1 DEF LineLength, CanObjSize
  <1>2. CASE h = "VCI_Transmit"
    <2>1. Len(HeadText(h)) = 13 /\ InfoSize(h) = 12
      BY <1>2, Heading, Zenon
    <2> QED
      BY <2>1 DEF LineLength, CanObjSize
  <1> QED
    BY <1>1, <1>2 DEF AllHeads

\* The parts of a concatenation.
LEMMA Joined ==
  ASSUME NEW S, NEW a \in Seq(S), NEW b \in Seq(S), NEW la, NEW lb,
         Len(a) = la, Len(b) = lb
  PROVE  /\ a \o b \in Seq(S) /\ Len(a \o b) = la + lb
         /\ \A i \in 1..la : (a \o b)[i] = a[i]
         /\ \A i \in 1..lb : (a \o b)[la + i] = b[i]
  OBVIOUS

\* What do_conv writes is digits.
LEMMA ConvDigits ==
  ASSUME NEW bin \in Seq(Byte), NEW m, m = 2 * Len(bin)
  PROVE  /\ do_conv(bin) \in Seq(Byte) /\ Len(do_conv(bin)) = m
         /\ \A i \in 1..m : \E d \in 0..15 : do_conv(bin)[i] = hexmap[d]
  BY Conv, Zenon

\* What stands in a line of head h: its numbers, and the object.
Fits(h, fo, ob) ==
  /\ fo \in Seq(Byte) /\ Len(fo) = InfoSize(h)
  /\ ob \in Seq(Byte) /\ Len(ob) = CanObjSize

\* A line is its head, the digits of what stands before the object, the digits of
\* the object, and the newline, which is nowhere else.
LEMMA Line ==
  ASSUME NEW h \in AllHeads, NEW fo \in Seq(Byte), NEW ob \in Seq(Byte), Fits(h, fo, ob)
  PROVE  LET t == bin2hex_fast(h, fo, ob)
             n == Len(HeadText(h))
             k == 2 * InfoSize(h)
         IN  /\ ob \in Seq(Byte) /\ Len(ob) = CanObjSize
             /\ t \in Seq(Byte) /\ Len(t) = LineLength(h)
             /\ n \in Nat /\ k \in Nat /\ LineLength(h) = n + k + 49
             /\ \A i \in 1..n : t[i] = HeadText(h)[i]
             /\ \A i \in 1..k : \E d \in 0..15 : t[n + i] = hexmap[d]
             /\ \A i \in 1..48 : t[n + k + i] = do_conv(ob)[i]
             /\ t[LineLength(h)] = Newline
             /\ \A i \in 1..(LineLength(h) - 1) : t[i] # Newline
  <1> DEFINE g == HeadText(h)
             n == Len(g)
             k == 2 * InfoSize(h)
             ci == do_conv(fo)
             co == do_conv(ob)
             w == 48
             A == g \o ci
             B == A \o co
             t == B \o <<Newline>>
  <1>1. g \in Seq(Byte) /\ n \in Nat /\ InfoSize(h) \in Nat /\ k \in Nat
    BY Heading, Lengths
  <1>2. fo \in Seq(Byte) /\ Len(fo) = InfoSize(h)
    BY DEF Fits
  <1>3. ob \in Seq(Byte) /\ Len(ob) = CanObjSize
    BY DEF Fits
  <1>4. /\ ci \in Seq(Byte) /\ Len(ci) = k
        /\ \A i \in 1..k : \E d \in 0..15 : ci[i] = hexmap[d]
    <2>1. k = 2 * Len(fo)
      BY <1>2
    <2> HIDE DEF k
    <2> QED
      BY <1>2, <2>1, ConvDigits
  <1>5. /\ co \in Seq(Byte) /\ Len(co) = w
        /\ \A i \in 1..w : \E d \in 0..15 : co[i] = hexmap[d]
    <2>1. w = 2 * Len(ob)
      BY <1>3 DEF CanObjSize
    <2> HIDE DEF w
    <2> QED
      BY <1>3, <2>1, ConvDigits
  <1>6. LineLength(h) = n + k + 49 /\ w \in Nat /\ w + 1 = 49
    BY <1>1 DEF LineLength, CanObjSize
  <1>7. bin2hex_fast(h, fo, ob) = t
    BY DEF bin2hex_fast
  <1> HIDE DEF k, ci, co, g, w
  <1>8. /\ A \in Seq(Byte) /\ Len(A) = n + k
        /\ \A i \in 1..n : A[i] = g[i]
        /\ \A i \in 1..k : A[n + i] = ci[i]
    <2>1. Len(g) = n
      OBVIOUS
    <2>2. g \in Seq(Byte) /\ ci \in Seq(Byte) /\ Len(ci) = k
      BY <1>1, <1>4
    <2> HIDE DEF n
    <2> QED
      BY <2>1, <2>2, Joined
  <1> HIDE DEF A, n
  <1>9. /\ B \in Seq(Byte) /\ Len(B) = n + k + w
        /\ \A i \in 1..(n + k) : B[i] = A[i]
        /\ \A i \in 1..w : B[n + k + i] = co[i]
    BY <1>5, <1>8, Joined
  <1> HIDE DEF B
  <1>11. /\ t \in Seq(Byte) /\ Len(t) = n + k + 49
         /\ \A i \in 1..(n + k + w) : t[i] = B[i]
         /\ t[n + k + 49] = Newline
    <2> DEFINE nl == <<Newline>>
               u  == 1
    <2>1. nl \in Seq(Byte) /\ Len(nl) = u /\ nl[1] = Newline
      BY DEF Newline, Byte
    <2>3. n + k + w + u = n + k + 49 /\ 1 \in 1..u /\ u = 1
      BY <1>1, <1>6
    <2> HIDE DEF nl, u
    <2>2. /\ B \o nl \in Seq(Byte) /\ Len(B \o nl) = n + k + w + u
          /\ \A i \in 1..(n + k + w) : (B \o nl)[i] = B[i]
          /\ \A i \in 1..u : (B \o nl)[n + k + w + i] = nl[i]
      BY <1>9, <2>1, Joined, SMTT(30)
    <2>4. (B \o nl)[n + k + w + 1] = Newline
      BY <2>1, <2>2, <2>3, Zenon
    <2>5. (B \o nl)[n + k + 49] = Newline
      BY <2>3, <2>4
    <2> QED
      BY <2>2, <2>3, <2>5 DEF nl
  <1> HIDE DEF t
  <1>12. ASSUME NEW i \in 1..n PROVE t[i] = g[i]
    <2>1. i \in 1..(n + k) /\ i \in 1..(n + k + w)
      BY <1>1, <1>6
    <2> QED
      BY <1>8, <1>9, <1>11, <2>1, Zenon
  <1>13. ASSUME NEW i \in 1..k PROVE t[n + i] = ci[i]
    <2>1. n + i \in 1..(n + k) /\ n + i \in 1..(n + k + w)
      BY <1>1, <1>6
    <2> QED
      BY <1>8, <1>9, <1>11, <2>1, Zenon
  <1>14. ASSUME NEW i \in 1..w PROVE t[n + k + i] = co[i]
    <2>1. n + k + i \in 1..(n + k + w)
      BY <1>1, <1>6
    <2> QED
      BY <1>9, <1>11, <2>1, Zenon
  <1>15. ASSUME NEW i \in 1..(n + k + w) PROVE t[i] # Newline
    <2>1. CASE i <= n
      BY <1>1, <1>12, <2>1, Heading DEF g, n
    <2>2. CASE n < i /\ i <= n + k
      <3> DEFINE j == i - n
      <3>1. j \in 1..k /\ i = n + j
        BY <1>1, <1>6, <2>2
      <3> HIDE DEF j
      <3>2. PICK d \in 0..15 : t[i] = hexmap[d]
        BY <1>4, <1>13, <3>1, Zenon
      <3> QED
        BY <3>2, Digit
    <2>3. CASE n + k < i
      <3> DEFINE j == i - (n + k)
      <3>1. j \in 1..w /\ i = n + k + j
        BY <1>1, <1>6, <2>3
      <3> HIDE DEF j
      <3>2. PICK d \in 0..15 : t[i] = hexmap[d]
        BY <1>5, <1>14, <3>1, Zenon
      <3> QED
        BY <3>2, Digit
    <2> QED
      BY <1>1, <1>6, <2>1, <2>2, <2>3
  <1>16. LineLength(h) - 1 = n + k + w
    BY <1>1, <1>6
  <1>17. \A i \in 1..k : \E d \in 0..15 : t[n + i] = hexmap[d]
    BY <1>4, <1>13, Zenon
  <1>18. \A i \in 1..(LineLength(h) - 1) : t[i] # Newline
    BY <1>15, <1>16, Zenon
  <1>19. Len(t) = LineLength(h) /\ t[LineLength(h)] = Newline
    BY <1>6, <1>11
  <1> QED
    BY <1>1, <1>3, <1>6, <1>7, <1>11, <1>12, <1>14, <1>17, <1>18, <1>19, Zenon
       DEF g, n, k, co, w

------------------------------------------------------------------------------
(* line_process. *)

\* The w characters of a text that follow the first o.
LEMMA Cut ==
  ASSUME NEW S, NEW s \in Seq(S), NEW o \in Nat, NEW w \in Nat, o + w <= Len(s),
         NEW m, NEW n, m = o + 1, n = o + w
  PROVE  /\ SubSeq(s, m, n) \in Seq(S) /\ Len(SubSeq(s, m, n)) = w
         /\ \A i \in 1..w : SubSeq(s, m, n)[i] = s[o + i]
  <1>1. m \in Int /\ n \in Int /\ n - m + 1 = w /\ (m <= n <=> w # 0)
    OBVIOUS
  <1>2. \A i \in m..n : s[i] \in S
    OBVIOUS
  <1>3. /\ SubSeq(s, m, n) \in Seq(S)
        /\ Len(SubSeq(s, m, n)) = IF m <= n THEN n - m + 1 ELSE 0
        /\ \A i \in 1..(n - m + 1) : SubSeq(s, m, n)[i] = s[m + i - 1]
    BY <1>1, <1>2, SubSeqProperties
  <1>4. \A i \in 1..w : m + i - 1 = o + i
    OBVIOUS
  <1> QED
    BY <1>1, <1>3, <1>4

\* What is decoded is bytes.
LEMMA FastestType ==
  ASSUME NEW str \in Seq(Byte)
  PROVE  hex_string_to_bin_fastest(str) \in Seq(Byte)
  <1> DEFINE n == Len(str) \div 2
  <1>1. n \in Nat
    OBVIOUS
  <1>2. ASSUME NEW i \in 1..n
        PROVE  ((hashmap(str[2 * i - 1]) * 16) % 256) + hashmap(str[2 * i]) \in Byte
    <2>1. str[2 * i - 1] \in Byte /\ str[2 * i] \in Byte
      OBVIOUS
    <2>2. hashmap(str[2 * i - 1]) \in 0..15 /\ hashmap(str[2 * i]) \in 0..15
      BY <2>1, HashmapType
    <2>3. \A x, y \in 0..15 : ((x * 16) % 256) + y \in Byte
      BY DEF Byte
    <2> QED
      BY <2>2, <2>3
  <1> QED
    BY <1>1, <1>2 DEF hex_string_to_bin_fastest

\* A head that matches leaves a payload of bytes behind its 32 digits.
LEMMA PayloadOf ==
  ASSUME NEW str \in Seq(Byte), NEW h \in AllHeads, HeadMatches(str, h)
  PROVE  \E n \in 12..13 :
           /\ n = Len(HeadText(h)) /\ Payload(str, h) \in Seq(Byte)
           /\ Len(Payload(str, h)) = Len(str) - n - 32
           /\ \A i \in 1..(Len(str) - n - 32) : Payload(str, h)[i] = str[n + 32 + i]
           /\ \A i \in 1..n : str[i] = HeadText(h)[i]
           /\ \A i \in 1..32 : IsHexDigit(str[n + i])
  <1>0. PICK n : n = Len(HeadText(h))
    OBVIOUS
  <1> DEFINE l == Len(str)
  <1>1. n \in 12..13
    BY <1>0, Lengths
  <1>2. l \in Nat /\ l >= n + 32
    BY <1>0 DEF HeadMatches
  <1> HIDE DEF l
  <1>3. n \in Nat /\ n + 32 \in Nat /\ l - n - 32 \in Nat /\ n + 33 = n + 32 + 1
        /\ n + 32 + (l - n - 32) <= l /\ l = n + 32 + (l - n - 32) /\ n + 32 <= l
        /\ 0 + n <= l /\ n = 0 + n /\ 1 = 0 + 1
    BY <1>1, <1>2
  <1>4. /\ Payload(str, h) \in Seq(Byte)
        /\ Len(Payload(str, h)) = l - n - 32
        /\ \A i \in 1..(l - n - 32) : Payload(str, h)[i] = str[n + 32 + i]
    <2> DEFINE w == l - n - 32
               o == n + 32
               m == n + 33
    <2>1. Payload(str, h) = SubSeq(str, m, l)
      BY <1>0 DEF Payload, l
    <2>2. o \in Nat /\ w \in Nat /\ o + w <= Len(str) /\ m = o + 1 /\ l = o + w
      BY <1>3 DEF l
    <2> HIDE DEF w, o, m
    <2>3. /\ SubSeq(str, m, l) \in Seq(Byte)
          /\ Len(SubSeq(str, m, l)) = w
          /\ \A i \in 1..w : SubSeq(str, m, l)[i] = str[o + i]
      BY <2>2, Cut
    <2> QED
      BY <2>1, <2>3 DEF w, o
  <1>6. ASSUME NEW i \in 1..n PROVE str[i] = HeadText(h)[i]
    <2>1. SubSeq(str, 1, n) = HeadText(h)
      BY <1>0 DEF HeadMatches
    <2>2. SubSeq(str, 1, n)[i] = str[0 + i] /\ 0 + i = i
      BY <1>3, Cut DEF l
    <2> QED
      BY <2>1, <2>2
  <1>7. ASSUME NEW i \in 1..32 PROVE IsHexDigit(str[n + i])
    <2>1. AllHex(SubSeq(str, n + 1, n + 32))
      BY <1>0 DEF HeadMatches
    <2>2. Len(SubSeq(str, n + 1, n + 32)) = 32 /\ SubSeq(str, n + 1, n + 32)[i] = str[n + i]
      BY <1>3, Cut DEF l
    <2> QED
      BY <2>1, <2>2 DEF AllHex
  <1> QED
    BY <1>0, <1>1, <1>4, <1>6, <1>7 DEF l

\* line_process hands on the payload behind a head that matches, or nothing.
LEMMA HandedOn ==
  ASSUME NEW str \in Seq(Byte)
  PROVE  \/ DecoderInput(str) = <<>>
         \/ \E h \in AllHeads :
              /\ HeadMatches(str, h)
              /\ HexPairs(Payload(str, h)) /\ Len(Payload(str, h)) >= 2 * CanObjSize
              /\ DecoderInput(str) = Payload(str, h)
  <1> DEFINE hs == {h \in AllHeads : HeadMatches(str, h)}
             c  == CHOOSE h \in hs : TRUE
             pl == Payload(str, c)
  <1>1. DecoderInput(str) = IF hs # {} /\ HexPairs(pl) /\ Len(pl) >= 2 * CanObjSize
                            THEN pl ELSE <<>>
    BY DEF DecoderInput, AllHeads
  <1>2. CASE hs # {} /\ HexPairs(pl) /\ Len(pl) >= 2 * CanObjSize
    <2>1. c \in hs
      BY <1>2
    <2> QED
      BY <1>1, <1>2, <2>1, Zenon
  <1>3. CASE ~(hs # {} /\ HexPairs(pl) /\ Len(pl) >= 2 * CanObjSize)
    BY <1>1, <1>3, Zenon
  <1> QED
    BY <1>2, <1>3

\* line_process decodes the payload behind a head that matches, or refuses.
LEMMA Processed ==
  ASSUME NEW str \in Seq(Byte)
  PROVE  \/ line_process(str) = Refused
         \/ \E h \in AllHeads :
              /\ HeadMatches(str, h)
              /\ HexPairs(Payload(str, h)) /\ Len(Payload(str, h)) >= 2 * CanObjSize
              /\ line_process(str) = hex_string_to_bin_fastest(Payload(str, h))
  <1>1. CASE DecoderInput(str) = <<>>
    BY <1>1, Zenon DEF line_process
  <1>2. CASE DecoderInput(str) # <<>>
    BY <1>2, HandedOn, Zenon DEF line_process
  <1> QED
    BY <1>1, <1>2

\* line_process writes bytes.
LEMMA ProcessType ==
  ASSUME NEW str \in Seq(Byte)
  PROVE  line_process(str) \in Seq(Byte)
  <1>1. CASE line_process(str) = Refused
    BY <1>1 DEF Refused
  <1>2. ASSUME NEW h \in AllHeads, HeadMatches(str, h),
               line_process(str) = hex_string_to_bin_fastest(Payload(str, h))
        PROVE  line_process(str) \in Seq(Byte)
    BY <1>2, PayloadOf, FastestType
  <1> QED
    BY <1>1, <1>2, Processed

\* A V behind the beginning is neither in a head nor a digit: the text is refused.
LEMMA GluedRefused ==
  ASSUME NEW str \in Seq(Byte), NEW p \in 2..Len(str), str[p] = 86
  PROVE  line_process(str) = Refused
  <1> SUFFICES ASSUME NEW h \in AllHeads, HeadMatches(str, h), HexPairs(Payload(str, h))
               PROVE  FALSE
    BY Processed
  <1>1. PICK n \in 12..13 :
          /\ n = Len(HeadText(h))
          /\ Len(Payload(str, h)) = Len(str) - n - 32
          /\ \A i \in 1..(Len(str) - n - 32) : Payload(str, h)[i] = str[n + 32 + i]
          /\ \A i \in 1..n : str[i] = HeadText(h)[i]
          /\ \A i \in 1..32 : IsHexDigit(str[n + i])
    BY PayloadOf
  <1>0. \A i \in 2..n : HeadText(h)[i] # 86
    BY <1>1, Heading
  <1>b. n \in Nat
    OBVIOUS
  <1>2. ~IsHexDigit(86) /\ p \in Nat /\ Len(str) \in Nat
    BY DEF IsHexDigit
  <1>3. CASE p <= n
    <2>1. p \in 2..n /\ p \in 1..n
      BY <1>1, <1>2, <1>3
    <2> QED
      BY <1>0, <1>1, <2>1
  <1>4. CASE n < p /\ p <= n + 32
    <2> DEFINE i == p - n
    <2>1. i \in 1..32 /\ p = n + i
      BY <1>b, <1>2, <1>4
    <2> HIDE DEF i
    <2> QED
      BY <1>1, <1>2, <2>1
  <1>5. CASE n + 32 < p
    <2> DEFINE i == p - (n + 32)
               l == Len(str) - n - 32
    <2>1. i \in 1..l /\ p = n + 32 + i
      BY <1>1, <1>2, <1>5
    <2> HIDE DEF i
    <2>2. IsHexDigit(Payload(str, h)[i])
      BY <1>1, <2>1 DEF HexPairs, AllHex
    <2> QED
      BY <1>1, <1>2, <2>1, <2>2
  <1> QED
    BY <1>1, <1>2, <1>3, <1>4, <1>5

\* The text of a whole line without its newline.
LEMMA WholeText ==
  ASSUME NEW h \in AllHeads, NEW fo \in Seq(Byte), NEW ob \in Seq(Byte), Fits(h, fo, ob)
  PROVE  \E str \in Seq(Byte), n \in Nat, k \in Nat :
           /\ str = SubSeq(bin2hex_fast(h, fo, ob), 1, LineLength(h) - 1)
           /\ n = Len(HeadText(h)) /\ k = 2 * InfoSize(h) /\ Len(str) = n + k + 48
           /\ \A i \in 1..n : str[i] = HeadText(h)[i]
           /\ \A i \in 1..k : IsHexDigit(str[n + i])
           /\ \A i \in 1..48 : str[n + k + i] = do_conv(ob)[i]
  <1>1. PICK t \in Seq(Byte), n \in Nat, k \in Nat :
          /\ t = bin2hex_fast(h, fo, ob) /\ n = Len(HeadText(h)) /\ k = 2 * InfoSize(h)
          /\ Len(t) = LineLength(h) /\ LineLength(h) = n + k + 49
          /\ \A i \in 1..n : t[i] = HeadText(h)[i]
          /\ \A i \in 1..k : \E d \in 0..15 : t[n + i] = hexmap[d]
          /\ \A i \in 1..48 : t[n + k + i] = do_conv(ob)[i]
    <2> DEFINE t == bin2hex_fast(h, fo, ob)
               n == Len(HeadText(h))
               k == 2 * InfoSize(h)
    <2>1. /\ t \in Seq(Byte) /\ n \in Nat /\ k \in Nat
          /\ Len(t) = LineLength(h) /\ LineLength(h) = n + k + 49
      BY Line, Zenon
    <2>2. \A i \in 1..n : t[i] = HeadText(h)[i]
      BY Line, Zenon
    <2>3. \A i \in 1..k : \E d \in 0..15 : t[n + i] = hexmap[d]
      BY Line, Zenon
    <2>4. \A i \in 1..48 : t[n + k + i] = do_conv(ob)[i]
      BY Line, Zenon
    <2> QED
      BY <2>1, <2>2, <2>3, <2>4, Zenon
  <1> DEFINE w == n + k + 48
             str == SubSeq(t, 1, w)
  <1>a. Len(t) = n + k + 49 /\ LineLength(h) = n + k + 49
    BY <1>1, Zenon
  <1>2. w \in Nat /\ 0 + w <= Len(t) /\ 1 = 0 + 1 /\ w = 0 + w
    BY <1>a
  <1>3. LineLength(h) - 1 = w
    BY <1>a
  <1> HIDE DEF w
  <1>4. str \in Seq(Byte) /\ Len(str) = w /\ \A i \in 1..w : str[i] = t[0 + i]
    BY <1>2, Cut
  <1>5. str = SubSeq(bin2hex_fast(h, fo, ob), 1, LineLength(h) - 1)
    BY <1>1, <1>3
  <1> HIDE DEF str
  <1>6. \A i \in 1..w : str[i] = t[i]
    BY <1>4
  <1>7. ASSUME NEW i \in 1..n PROVE str[i] = HeadText(h)[i]
    <2>1. i \in 1..w
      BY DEF w
    <2> QED
      BY <1>1, <1>6, <2>1, Zenon
  <1>8. ASSUME NEW i \in 1..k PROVE IsHexDigit(str[n + i])
    <2>1. n + i \in 1..w
      BY DEF w
    <2>2. PICK d \in 0..15 : t[n + i] = hexmap[d]
      BY <1>1, Zenon
    <2>3. IsHexDigit(hexmap[d])
      BY Digit
    <2> QED
      BY <1>6, <2>1, <2>2, <2>3, Zenon
  <1>9. ASSUME NEW i \in 1..48 PROVE str[n + k + i] = do_conv(ob)[i]
    <2>1. n + k + i \in 1..w
      BY DEF w
    <2> QED
      BY <1>1, <1>6, <2>1, Zenon
  <1> QED
    BY <1>1, <1>4, <1>5, <1>7, <1>8, <1>9, ZenonT(40) DEF w

\* A whole line matches no other head than its own.
LEMMA OwnHead ==
  ASSUME NEW h \in AllHeads, NEW g \in AllHeads, NEW str \in Seq(Byte),
         \A i \in 1..Len(HeadText(h)) : str[i] = HeadText(h)[i], HeadMatches(str, g)
  PROVE  g = h
  <1>1. HeadText(g)[5] = str[5]
    <2>1. PICK n \in 12..13 : \A i \in 1..n : str[i] = HeadText(g)[i]
      BY PayloadOf, Zenon
    <2>2. 5 \in 1..n
      OBVIOUS
    <2> QED
      BY <2>1, <2>2
  <1>2. HeadText(h)[5] = str[5]
    <2>1. 5 \in 1..Len(HeadText(h))
      BY Lengths
    <2> QED
      BY <2>1
  <1>3. \A x \in AllHeads : /\ x = "VCI_Receive" => HeadText(x)[5] = 82
                            /\ x = "VCI_Transmit" => HeadText(x)[5] = 84
    BY Heading
  <1> QED
    BY <1>1, <1>2, <1>3 DEF AllHeads

\* The line of VCI_Receive is decoded to its object.
LEMMA ReceiveLine ==
  ASSUME NEW h, h = "VCI_Receive", NEW fo \in Seq(Byte), NEW ob \in Seq(Byte), Fits(h, fo, ob)
  PROVE  line_process(SubSeq(bin2hex_fast(h, fo, ob), 1, LineLength(h) - 1)) = ob
  <1>1. h \in AllHeads /\ Len(HeadText(h)) = 12 /\ InfoSize(h) = 16
    BY Heading DEF AllHeads
  <1>2. PICK str \in Seq(Byte) :
          /\ str = SubSeq(bin2hex_fast(h, fo, ob), 1, LineLength(h) - 1)
          /\ Len(str) = 92
          /\ \A i \in 1..12 : str[i] = HeadText(h)[i]
          /\ \A i \in 1..32 : IsHexDigit(str[12 + i])
          /\ \A i \in 1..48 : str[44 + i] = do_conv(ob)[i]
    <2>1. PICK str \in Seq(Byte), n \in Nat, k \in Nat :
            /\ str = SubSeq(bin2hex_fast(h, fo, ob), 1, LineLength(h) - 1)
            /\ n = Len(HeadText(h)) /\ k = 2 * InfoSize(h) /\ Len(str) = n + k + 48
            /\ \A i \in 1..n : str[i] = HeadText(h)[i]
            /\ \A i \in 1..k : IsHexDigit(str[n + i])
            /\ \A i \in 1..48 : str[n + k + i] = do_conv(ob)[i]
      BY <1>1, WholeText, Zenon
    <2>2. n = Len(HeadText(h)) /\ k = 2 * InfoSize(h)
      BY <2>1, Zenon
    <2>3. n = 12 /\ k = 32 /\ n + k + 48 = 92 /\ n + k = 44
      BY <1>1, <2>2
    <2>4. Len(str) = 92
      BY <2>1, <2>3, Zenon
    <2>5. \A i \in 1..12 : str[i] = HeadText(h)[i]
      BY <2>1, <2>3, Zenon
    <2>6. \A i \in 1..32 : IsHexDigit(str[12 + i])
      BY <2>1, <2>3, Zenon
    <2>7. \A i \in 1..48 : str[44 + i] = do_conv(ob)[i]
      <3>1. \A i \in 1..48 : str[n + k + i] = do_conv(ob)[i]
        BY <2>1, Zenon
      <3>2. ASSUME NEW i \in 1..48 PROVE str[44 + i] = do_conv(ob)[i]
        <4>1. n + k + i = 44 + i
          BY <2>3
        <4>2. str[n + k + i] = do_conv(ob)[i]
          BY <3>1
        <4> QED
          BY <4>1, <4>2
      <3> QED
        BY <3>2
    <2> QED
      BY <2>1, <2>4, <2>5, <2>6, <2>7, Zenon
  <1> DEFINE c == do_conv(ob)
             sh == SubSeq(str, 1, 12)
             sd == SubSeq(str, 13, 44)
             sp == SubSeq(str, 45, 92)
  <1>3. ob \in Seq(Byte) /\ Len(ob) = 24 /\ HeadText(h) \in Seq(Byte)
    BY <1>1, Line, Heading DEF CanObjSize
  <1>4. c \in Seq(Byte) /\ Len(c) = 48 /\ \A i \in 1..48 : IsHexDigit(c[i])
    <2>1. 2 * Len(ob) = 48
      BY <1>3
    <2>2. c \in Seq(Byte) /\ Len(c) = 2 * Len(ob)
      BY <1>3, Conv
    <2>3. ASSUME NEW i \in 1..48 PROVE IsHexDigit(c[i])
      <3>0. i \in 1..(2 * Len(ob))
        BY <2>1
      <3>1. PICK d \in 0..15 : c[i] = hexmap[d]
        BY <1>3, <3>0, Conv, Zenon
      <3> QED
        BY <3>1, Digit
    <2> QED
      BY <2>1, <2>2, <2>3
  <1> HIDE DEF c, sh, sd, sp
  <1>5. sh \in Seq(Byte) /\ Len(sh) = 12 /\ \A i \in 1..12 : sh[i] = str[0 + i]
    <2> DEFINE o == 0
               w == 12
               m == 1
               n == 12
    <2>1. o \in Nat /\ w \in Nat /\ o + w <= Len(str) /\ m = o + 1 /\ n = o + w
      BY <1>2
    <2>2. sh = SubSeq(str, m, n)
      BY DEF sh
    <2> HIDE DEF o, w, m, n
    <2>3. sh \in Seq(Byte) /\ Len(sh) = w /\ \A i \in 1..w : sh[i] = str[o + i]
      BY <2>1, <2>2, Cut, SMTT(30)
    <2> QED
      BY <2>3 DEF o, w
  <1>6. sd \in Seq(Byte) /\ Len(sd) = 32 /\ \A i \in 1..32 : sd[i] = str[12 + i]
    <2> DEFINE o == 12
               w == 32
               m == 13
               n == 44
    <2>1. o \in Nat /\ w \in Nat /\ o + w <= Len(str) /\ m = o + 1 /\ n = o + w
      BY <1>2
    <2>2. sd = SubSeq(str, m, n)
      BY DEF sd
    <2> HIDE DEF o, w, m, n
    <2>3. sd \in Seq(Byte) /\ Len(sd) = w /\ \A i \in 1..w : sd[i] = str[o + i]
      BY <2>1, <2>2, Cut, SMTT(30)
    <2> QED
      BY <2>3 DEF o, w
  <1>7. sp \in Seq(Byte) /\ Len(sp) = 48 /\ \A i \in 1..48 : sp[i] = str[44 + i]
    <2> DEFINE o == 44
               w == 48
               m == 45
               n == 92
    <2>1. o \in Nat /\ w \in Nat /\ o + w <= Len(str) /\ m = o + 1 /\ n = o + w
      BY <1>2
    <2>2. sp = SubSeq(str, m, n)
      BY DEF sp
    <2> HIDE DEF o, w, m, n
    <2>3. sp \in Seq(Byte) /\ Len(sp) = w /\ \A i \in 1..w : sp[i] = str[o + i]
      BY <2>1, <2>2, Cut, SMTT(30)
    <2> QED
      BY <2>3 DEF o, w
  <1>8. sh = HeadText(h)
    <2>1. \A i \in 1..12 : sh[i] = HeadText(h)[i]
      <3>1. ASSUME NEW i \in 1..12 PROVE sh[i] = str[i]
        <4>1. 0 + i = i
          OBVIOUS
        <4>2. sh[i] = str[0 + i]
          BY <1>5, Zenon
        <4> QED
          BY <4>1, <4>2
      <3>2. \A i \in 1..12 : str[i] = HeadText(h)[i]
        BY <1>2
      <3> QED
        BY <3>1, <3>2
    <2>2. Len(sh) = Len(HeadText(h)) /\ \A i \in 1..Len(sh) : sh[i] = HeadText(h)[i]
      BY <1>1, <1>5, <2>1, Zenon
    <2> QED
      BY <1>3, <1>5, <2>2, SeqEqual
  <1>9. sp = c
    <2>1. \A i \in 1..48 : sp[i] = c[i]
      <3>1. \A i \in 1..48 : str[44 + i] = c[i]
        BY <1>2 DEF c
      <3>2. \A i \in 1..48 : sp[i] = str[44 + i]
        BY <1>7
      <3> QED
        BY <3>1, <3>2, Zenon
    <2>2. Len(sp) = Len(c) /\ \A i \in 1..Len(sp) : sp[i] = c[i]
      BY <1>4, <1>7, <2>1, Zenon
    <2> QED
      BY <1>4, <1>7, <2>2, SeqEqual
  <1>10. HeadMatches(str, h)
    <2>1. AllHex(sd)
      <3>1. \A i \in 1..32 : IsHexDigit(str[12 + i])
        BY <1>2
      <3>2. Len(sd) = 32 /\ \A i \in 1..32 : sd[i] = str[12 + i]
        BY <1>6
      <3> QED
        BY <3>1, <3>2, Zenon DEF AllHex
    <2>2. Len(str) >= 12 + 32 /\ 12 + 1 = 13 /\ 12 + 32 = 44
      BY <1>2
    <2> QED
      BY <1>1, <1>8, <2>1, <2>2 DEF HeadMatches, sh, sd
  <1>11. Payload(str, h) = c
    <2>0. Len(HeadText(h)) = 12
      BY <1>1, Zenon
    <2>a. 12 + 33 = 45
      OBVIOUS
    <2>1. Len(HeadText(h)) + 33 = 45
      BY <2>0, <2>a, Zenon
    <2> QED
      BY <1>2, <1>9, <2>1, Zenon DEF Payload, sp
  <1>12. HexPairs(c) /\ Len(c) >= 2 * CanObjSize
    BY <1>4 DEF HexPairs, AllHex, CanObjSize
  <1>13. {g \in AllHeads : HeadMatches(str, g)} = {h}
    <2>1. \A i \in 1..Len(HeadText(h)) : str[i] = HeadText(h)[i]
      BY <1>1, <1>2
    <2>2. \A g \in AllHeads : HeadMatches(str, g) => g = h
      BY <1>1, <2>1, OwnHead
    <2> QED
      BY <1>1, <1>10, <2>2
  <1>14. (CHOOSE g \in {h} : TRUE) = h
    OBVIOUS
  <1>15. line_process(str) = hex_string_to_bin_fastest(c)
    <2>1. DecoderInput(str) = c
      BY <1>11, <1>12, <1>13, <1>14, Zenon DEF DecoderInput, AllHeads
    <2>2. c # <<>>
      BY <1>12 DEF HexPairs
    <2> QED
      BY <2>1, <2>2, Zenon DEF line_process
  <1>16. hex_string_to_bin_fastest(c) = ob
    BY <1>3, RoundTrip DEF c
  <1> QED
    BY <1>2, <1>15, <1>16

\* The line of VCI_Transmit is refused: 8 digits too many go with its head.
LEMMA TransmitLine ==
  ASSUME NEW h, h = "VCI_Transmit", NEW fo \in Seq(Byte), NEW ob \in Seq(Byte), Fits(h, fo, ob)
  PROVE  line_process(SubSeq(bin2hex_fast(h, fo, ob), 1, LineLength(h) - 1)) = Refused
  <1>1. h \in AllHeads /\ Len(HeadText(h)) = 13 /\ InfoSize(h) = 12
    BY Heading DEF AllHeads
  <1>2. PICK str \in Seq(Byte) :
          /\ str = SubSeq(bin2hex_fast(h, fo, ob), 1, LineLength(h) - 1) /\ Len(str) = 85
          /\ \A i \in 1..13 : str[i] = HeadText(h)[i]
    <2>1. PICK str \in Seq(Byte), n \in Nat, k \in Nat :
            /\ str = SubSeq(bin2hex_fast(h, fo, ob), 1, LineLength(h) - 1)
            /\ n = Len(HeadText(h)) /\ k = 2 * InfoSize(h) /\ Len(str) = n + k + 48
            /\ \A i \in 1..n : str[i] = HeadText(h)[i]
            /\ \A i \in 1..k : IsHexDigit(str[n + i])
            /\ \A i \in 1..48 : str[n + k + i] = do_conv(ob)[i]
      BY <1>1, WholeText, Zenon
    <2>2. n = Len(HeadText(h)) /\ k = 2 * InfoSize(h)
      BY <2>1, Zenon
    <2>3. n = 13 /\ k = 24 /\ n + k + 48 = 85
      BY <1>1, <2>2
    <2>4. Len(str) = 85
      BY <2>1, <2>3
    <2>5. \A i \in 1..13 : str[i] = HeadText(h)[i]
      BY <2>1, <2>3, Zenon
    <2> QED
      BY <2>1, <2>4, <2>5
  <1>3. ASSUME NEW g \in AllHeads, HeadMatches(str, g)
        PROVE  ~(Len(Payload(str, g)) >= 2 * CanObjSize)
    <2>0. \A i \in 1..Len(HeadText(h)) : str[i] = HeadText(h)[i]
      BY <1>1, <1>2
    <2>1. g = h
      BY <1>1, <1>3, <2>0, OwnHead
    <2>2. PICK n \in 12..13 : n = Len(HeadText(g)) /\ Len(Payload(str, g)) = Len(str) - n - 32
      BY <1>3, PayloadOf, Zenon
    <2>3. Len(str) = 85 /\ n = 13
      BY <1>1, <1>2, <2>1, <2>2, Zenon
    <2>4. Len(Payload(str, g)) = 85 - 13 - 32
      BY <2>2, <2>3, Zenon
    <2> QED
      BY <2>4 DEF CanObjSize
  <1>4. line_process(str) = Refused
    BY <1>3, Processed
  <1> QED
    BY <1>2, <1>4

------------------------------------------------------------------------------
(* The specification. *)

\* A text that ends with the newline is a whole line if it is a part of one line.
LEMMA EndOfLine ==
  ASSUME NEW h \in AllHeads, NEW fo \in Seq(Byte), NEW ob \in Seq(Byte), Fits(h, fo, ob),
         NEW k \in 1..LineLength(h), NEW r, r = SubSeq(bin2hex_fast(h, fo, ob), 1, k)
  PROVE  /\ r \in Seq(Byte) /\ Len(r) = k /\ r[1] = 86
         /\ r[k] = Newline => k = LineLength(h)
         /\ k = LineLength(h) =>
              SubSeq(r, 1, Len(r) - 1) = SubSeq(bin2hex_fast(h, fo, ob), 1, LineLength(h) - 1)
  <1>1. PICK t \in Seq(Byte), L \in Nat :
          t = bin2hex_fast(h, fo, ob) /\ L = LineLength(h) /\ Len(t) = L
    <2>1. LineLength(h) \in Nat
      BY Lengths
    <2>2. bin2hex_fast(h, fo, ob) \in Seq(Byte) /\ Len(bin2hex_fast(h, fo, ob)) = LineLength(h)
      BY Line, Zenon
    <2> QED
      BY <2>1, <2>2, Zenon
  <1>2. k \in Nat /\ 1 <= k /\ k <= L
    BY <1>1
  <1>3. \A i \in 1..(L - 1) : t[i] # Newline
    <2>1. \A i \in 1..(LineLength(h) - 1) : bin2hex_fast(h, fo, ob)[i] # Newline
      BY Line, ZenonT(30)
    <2> QED
      BY <1>1, <2>1, Zenon
  <1>4. t[1] = 86
    <2>1. t[1] = HeadText(h)[1]
      <3>1. 1 \in 1..Len(HeadText(h))
        BY Lengths
      <3>2. \A i \in 1..Len(HeadText(h)) : bin2hex_fast(h, fo, ob)[i] = HeadText(h)[i]
        BY Line, Zenon
      <3> QED
        BY <1>1, <3>1, <3>2, Zenon
    <2> QED
      BY <2>1, Heading
  <1>5. r \in Seq(Byte) /\ Len(r) = k /\ \A i \in 1..k : r[i] = t[i]
    <2>1. \A i \in 1..k : t[i] \in Byte
      BY <1>1, <1>2
    <2>2. /\ SubSeq(t, 1, k) \in Seq(Byte) /\ Len(SubSeq(t, 1, k)) = k
          /\ \A i \in 1..k : SubSeq(t, 1, k)[i] = t[i]
      BY <1>1, <1>2, <2>1
    <2> QED
      BY <1>1, <2>2
  <1>6. r[k] = Newline => k = L
    <2>1. r[k] = t[k]
      BY <1>2, <1>5
    <2>2. CASE k < L
      <3>1. k \in 1..(L - 1)
        BY <1>2, <2>2
      <3> QED
        BY <1>3, <2>1, <3>1
    <2> QED
      BY <1>2, <2>2
  <1>7. k = L => r = t
    BY <1>1, <1>2, <1>5, SeqEqual
  <1>8. r[1] = 86
    BY <1>2, <1>4, <1>5
  <1> QED
    BY <1>1, <1>5, <1>6, <1>7, <1>8

\* A line has a head, what stands before the object, and the object.
LEMMA LineOf ==
  ASSUME NEW l \in Part
  PROVE  l.head \in AllHeads /\ Fits(l.head, l.info, l.obj)
  <1>1. IsLine(l)
    BY CodecAssumption DEF Part
  <1>2. l.head \in AllHeads
    BY <1>1 DEF IsLine, AllHeads
  <1>3. ASSUME NEW n \in Nat, NEW f \in [1..n -> Byte] PROVE f \in Seq(Byte) /\ Len(f) = n
    OBVIOUS
  <1>4. InfoSize(l.head) \in Nat /\ CanObjSize \in Nat
    BY <1>2, Lengths DEF CanObjSize
  <1>5. l.info \in [1..InfoSize(l.head) -> Byte] /\ l.obj \in [1..CanObjSize -> Byte]
    BY <1>1 DEF IsLine
  <1>6. l.info \in Seq(Byte) /\ Len(l.info) = InfoSize(l.head)
    BY <1>3, <1>4, <1>5
  <1>7. l.obj \in Seq(Byte) /\ Len(l.obj) = CanObjSize
    BY <1>3, <1>4, <1>5
  <1> QED
    BY <1>2, <1>6, <1>7 DEF Fits

\* The same of a line that arrives.
LEMMA EndOfPart ==
  ASSUME NEW l \in Part, NEW k \in 1..LineLength(l.head), NEW r, r = SubSeq(Text(l), 1, k)
  PROVE  /\ r \in Seq(Byte) /\ Len(r) = k /\ r[1] = 86 /\ k \in Nat /\ k >= 1
         /\ r[k] = Newline => k = LineLength(l.head)
         /\ k = LineLength(l.head) =>
              SubSeq(r, 1, Len(r) - 1) = SubSeq(Text(l), 1, LineLength(l.head) - 1)
  <1>1. PICK h \in AllHeads, fo \in Seq(Byte), ob \in Seq(Byte) :
          h = l.head /\ fo = l.info /\ ob = l.obj /\ Fits(h, fo, ob)
    BY LineOf, Zenon DEF Fits
  <1>2. Text(l) = bin2hex_fast(h, fo, ob)
    BY <1>1, Zenon DEF Text
  <1>3. k \in 1..LineLength(h) /\ r = SubSeq(bin2hex_fast(h, fo, ob), 1, k)
    BY <1>1, <1>2, Zenon
  <1>4. /\ r \in Seq(Byte) /\ Len(r) = k /\ r[1] = 86
        /\ r[k] = Newline => k = LineLength(h)
        /\ k = LineLength(h) =>
             SubSeq(r, 1, Len(r) - 1) = SubSeq(bin2hex_fast(h, fo, ob), 1, LineLength(h) - 1)
    BY <1>1, <1>3, EndOfLine
  <1>5. k \in Nat /\ k >= 1
    OBVIOUS
  <1> QED
    BY <1>1, <1>2, <1>4, <1>5, Zenon

\* What line_process writes for a whole line.
LEMMA WholePart ==
  ASSUME NEW l \in Part
  PROVE  LET str == SubSeq(Text(l), 1, LineLength(l.head) - 1)
         IN  /\ l.head = "VCI_Receive" => line_process(str) = l.obj
             /\ l.head = "VCI_Transmit" => line_process(str) = Refused
  <1>1. PICK h \in AllHeads, fo \in Seq(Byte), ob \in Seq(Byte) :
          h = l.head /\ fo = l.info /\ ob = l.obj /\ Fits(h, fo, ob)
    BY LineOf, Zenon DEF Fits
  <1> DEFINE str == SubSeq(bin2hex_fast(h, fo, ob), 1, LineLength(h) - 1)
  <1>2. SubSeq(Text(l), 1, LineLength(l.head) - 1) = str
    BY <1>1, Zenon DEF Text
  <1>3. h = "VCI_Receive" => line_process(str) = ob
    BY <1>1, ReceiveLine, Zenon
  <1>4. h = "VCI_Transmit" => line_process(str) = Refused
    BY <1>1, TransmitLine, Zenon
  <1> HIDE DEF str
  <1> QED
    BY <1>1, <1>2, <1>3, <1>4, Zenon

\* What is not none is one or more.
LEMMA OneOrMore ==
  ASSUME NEW n \in Nat
  PROVE  (n # 0 => n = 1 \/ n >= 2) /\ (n >= 2 => n # 1)
  OBVIOUS

LEMMA OnlyOne ==
  ASSUME NEW S, NEW s \in Seq(S), Len(s) = 1
  PROVE  s[1] \in S
  OBVIOUS

\* Nothing has arrived at first.
LEMMA CodecInit == Init => CodecInv
  <1> SUFFICES ASSUME Init PROVE CodecInv
    OBVIOUS
  <1>1. rx = <<>> /\ made = <<>> /\ dst = <<>> /\ was = <<>>
    BY DEF Init, Refused
  <1>2. <<>> \in Seq(Byte) /\ <<>> \in Seq(Part) /\ Len(<<>>) = 0
    OBVIOUS
  <1>3. CodecTypeOK
    BY <1>1, <1>2, CodecAssumption DEF CodecTypeOK
  <1>4. MadeOf
    BY <1>1 DEF MadeOf
  <1>5. DecodedIffOneLine /\ WritesOneObject
    BY <1>1 DEF DecodedIffOneLine, WritesOneObject, CanObjSize
  <1> QED
    BY <1>1, <1>2, <1>3, <1>4, <1>5 DEF CodecInv

\* A part of a line arrives.
LEMMA CodecArrives ==
  ASSUME CodecInv, NEW q \in Part, NEW k \in 1..LineLength(q.head), Arrives(q, k)
  PROVE  CodecInv'
  <1> DEFINE r == SubSeq(Text(q), 1, k)
  <1>1. /\ rx' = rx \o r /\ made' = Append(made, q) /\ dst' = <<>> /\ was' = <<>>
        /\ Len(made) < MaxParts
    BY DEF Arrives, Refused
  <1>2. MaxParts \in Nat
    BY CodecAssumption
  <1>3. r \in Seq(Byte) /\ Len(r) = k /\ r[1] = 86 /\ k \in Nat /\ k >= 1
    <2> HIDE DEF r
    <2>1. r = SubSeq(Text(q), 1, k)
      BY DEF r
    <2> QED
      BY <2>1, EndOfPart
  <1>5. rx \in Seq(Byte) /\ made \in Seq(Part) /\ MadeOf
    BY DEF CodecInv, CodecTypeOK
  <1>6. BeginsLine(r, q)
    BY DEF BeginsLine
  <1> HIDE DEF r
  <1>7. /\ rx' \in Seq(Byte) /\ Len(rx') = Len(rx) + k
        /\ rx'[Len(rx) + 1] = 86
    <2>0. PICK a \in Seq(Byte), lr \in Nat : a = rx /\ lr = Len(rx)
      BY <1>5
    <2>1. /\ a \o r \in Seq(Byte) /\ Len(a \o r) = lr + k
          /\ \A i \in 1..lr : (a \o r)[i] = a[i]
          /\ \A i \in 1..k : (a \o r)[lr + i] = r[i]
      <3>1. Len(a) = lr /\ Len(r) = k
        BY <1>3, <2>0
      <3> QED
        BY <1>3, <3>1, Joined
    <2>2. 1 \in 1..k
      BY <1>3
    <2> QED
      BY <1>1, <1>3, <2>0, <2>1, <2>2
  <1>8. /\ made' \in Seq(Part) /\ Len(made') = Len(made) + 1
        /\ made'[Len(made) + 1] = q
    BY <1>1, <1>5
  <1>9. Len(made) \in Nat /\ Len(rx) \in Nat
    BY <1>5
  <1>10. MadeOf'
    <2>1. CASE Len(made) = 0
      <3>1. rx = <<>>
        BY <1>5, <2>1 DEF MadeOf
      <3>2. rx' = r
        BY <1>1, <1>3, <3>1
      <3>3. made'[1] = q /\ Len(made') = 1
        BY <1>8, <2>1
      <3> QED
        BY <1>6, <3>2, <3>3 DEF MadeOf
    <2>2. CASE Len(made) # 0
      <3>1. Len(rx) >= 1
        <4>1. CASE Len(made) = 1
          <5>1. made[1] \in Part
            BY <1>5, <4>1, OnlyOne
          <5>2. PICK j \in 1..LineLength(made[1].head) : rx = SubSeq(Text(made[1]), 1, j)
            BY <1>5, <4>1 DEF MadeOf, BeginsLine
          <5>3. Len(rx) = j /\ j >= 1
            BY <5>1, <5>2, EndOfPart
          <5> QED
            BY <5>3
        <4>2. CASE Len(made) >= 2
          BY <1>5, <1>9, <4>2 DEF MadeOf, Glued
        <4>3. Len(made) = 1 \/ Len(made) >= 2
          BY <1>9, <2>2, OneOrMore
        <4> QED
          BY <4>1, <4>2, <4>3
      <3>2. Glued(rx')
        <4>1. Len(rx) + 1 \in 2..Len(rx')
          BY <1>3, <1>7, <1>9, <3>1
        <4> QED
          BY <1>7, <4>1 DEF Glued
      <3>3. Len(made') # 0 /\ Len(made') # 1
        BY <1>8, <1>9, <2>2
      <3> QED
        BY <3>2, <3>3 DEF MadeOf
    <2> QED
      BY <2>1, <2>2
  <1>11. CodecTypeOK'
    <2>1. <<>> \in Seq(Byte) /\ Len(<<>>) = 0
      OBVIOUS
    <2> QED
      BY <1>1, <1>2, <1>7, <1>8, <1>9, <2>1 DEF CodecTypeOK
  <1>12. DecodedIffOneLine' /\ WritesOneObject'
    BY <1>1 DEF DecodedIffOneLine, WritesOneObject, CanObjSize
  <1>13. was' \in Seq(Part)
    BY <1>1
  <1> QED
    BY <1>8, <1>10, <1>11, <1>12, <1>13 DEF CodecInv

\* line_process sees a line: what it writes is the object of the one part if it is
\* the only one and a line of VCI_Receive, and nothing otherwise.
LEMMA CodecProcess ==
  ASSUME CodecInv, Process
  PROVE  CodecInv'
  <1> DEFINE str == SubSeq(rx, 1, Len(rx) - 1)
             l == Len(rx)
  <1>1. /\ rx # <<>> /\ rx[l] = Newline /\ dst' = line_process(str)
        /\ was' = made /\ rx' = <<>> /\ made' = <<>>
    BY DEF Process, Ended
  <1>2. rx \in Seq(Byte) /\ made \in Seq(Part) /\ MadeOf /\ Len(made) <= MaxParts
    BY DEF CodecInv, CodecTypeOK
  <1>3. l \in Nat /\ l >= 1 /\ Len(made) \in Nat /\ Len(made) # 0
    BY <1>1, <1>2 DEF MadeOf
  <1>4. /\ str \in Seq(Byte) /\ Len(str) = l - 1
        /\ \A i \in 1..(l - 1) : str[i] = rx[i]
    <2> DEFINE w == l - 1
    <2>1. w \in Nat /\ \A i \in 1..w : rx[i] \in Byte
      BY <1>2, <1>3
    <2>2. str = SubSeq(rx, 1, w)
      OBVIOUS
    <2> HIDE DEF w, str
    <2>3. str \in Seq(Byte) /\ Len(str) = w /\ \A i \in 1..w : str[i] = rx[i]
      BY <1>2, <2>1, <2>2
    <2> QED
      BY <2>3 DEF w
  <1> HIDE DEF str, l
  <1>5. dst' \in Seq(Byte)
    BY <1>1, <1>4, ProcessType
  <1>6. ASSUME Len(made) = 1 PROVE DecodedIffOneLine' /\ WritesOneObject'
    <2>1. PICK m \in Part : m = made[1]
      <3>1. made[1] \in Part
        BY <1>2, <1>6, OnlyOne
      <3> QED
        BY <3>1, Zenon
    <2>2. PICK k \in 1..LineLength(m.head) : rx = SubSeq(Text(m), 1, k)
      BY <1>2, <1>6, <2>1 DEF MadeOf, BeginsLine
    <2>3. Len(rx) = k /\ (rx[k] = Newline => k = LineLength(m.head))
          /\ (k = LineLength(m.head) =>
                SubSeq(rx, 1, Len(rx) - 1) = SubSeq(Text(m), 1, LineLength(m.head) - 1))
      BY <2>2, EndOfPart
    <2>4. rx[Len(rx)] = Newline
      BY <1>1 DEF l
    <2>5. str = SubSeq(Text(m), 1, LineLength(m.head) - 1)
      BY <2>3, <2>4, Zenon DEF str
    <2>6. m.head \in AllHeads /\ Len(m.obj) = CanObjSize
      BY LineOf, Zenon DEF Fits
    <2>7. was'[1] = m /\ Len(was') = 1
      BY <1>1, <1>6, <2>1
    <2>8. CASE m.head = "VCI_Receive"
      <3>1. dst' = m.obj
        BY <1>1, <2>5, <2>8, WholePart, Zenon
      <3>2. WritesOneObject'
        <4>1. Len(dst') = 24
          BY <2>6, <3>1 DEF CanObjSize
        <4> QED
          BY <4>1 DEF WritesOneObject, CanObjSize
      <3>3. DecodedIffOneLine'
        BY <2>7, <2>8, <3>1, Zenon DEF DecodedIffOneLine
      <3> QED
        BY <3>2, <3>3
    <2>9. CASE m.head = "VCI_Transmit"
      <3>1. dst' = Refused
        BY <1>1, <2>5, <2>9, WholePart, Zenon
      <3>2. WritesOneObject'
        BY <3>1 DEF WritesOneObject, CanObjSize, Refused
      <3>3. m.head # "VCI_Receive"
        BY <2>9
      <3>4. DecodedIffOneLine'
        BY <2>7, <3>1, <3>3, Zenon DEF DecodedIffOneLine
      <3> QED
        BY <3>2, <3>4
    <2> QED
      BY <2>6, <2>8, <2>9 DEF AllHeads
  <1>7. ASSUME Len(made) >= 2 PROVE DecodedIffOneLine' /\ WritesOneObject'
    <2>1. PICK p \in 2..l : rx[p] = 86
      BY <1>2, <1>7 DEF MadeOf, Glued, l
    <2>2. p # l
      BY <1>1, <2>1 DEF Newline
    <2>3. p \in 2..(l - 1) /\ p \in 1..(l - 1)
      BY <1>3, <2>2
    <2>4. str[p] = 86 /\ p \in 2..Len(str)
      BY <1>4, <2>1, <2>3
    <2>5. dst' = Refused
      BY <1>1, <1>4, <2>4, GluedRefused
    <2>6. WritesOneObject'
      BY <2>5 DEF WritesOneObject, CanObjSize, Refused
    <2>7. Len(was') # 1
      BY <1>1, <1>3, <1>7, OneOrMore
    <2>8. DecodedIffOneLine'
      BY <2>5, <2>7 DEF DecodedIffOneLine
    <2> QED
      BY <2>6, <2>8
  <1>8. DecodedIffOneLine' /\ WritesOneObject'
    <2>1. Len(made) = 1 \/ Len(made) >= 2
      BY <1>3, OneOrMore
    <2> QED
      BY <1>6, <1>7, <2>1
  <1>9. CodecTypeOK' /\ made' \in Seq(Part) /\ was' \in Seq(Part)
    <2>1. <<>> \in Seq(Byte) /\ <<>> \in Seq(Part) /\ Len(<<>>) = 0 /\ MaxParts \in Nat
      BY CodecAssumption
    <2> QED
      BY <1>1, <1>2, <1>5, <2>1 DEF CodecTypeOK
  <1>10. MadeOf'
    BY <1>1 DEF MadeOf
  <1> QED
    BY <1>8, <1>9, <1>10 DEF CodecInv

\* Every step keeps the invariant.
LEMMA CodecNext == CodecInv /\ [Next]_vars => CodecInv'
  <1> SUFFICES ASSUME CodecInv, [Next]_vars PROVE CodecInv'
    OBVIOUS
  <1>1. CASE Process
    BY <1>1, CodecProcess
  <1>2. CASE Drop
    <2>1. rx' = <<>> /\ made' = <<>> /\ dst' = dst /\ was' = was
      BY <1>2 DEF Drop
    <2>2. <<>> \in Seq(Byte) /\ <<>> \in Seq(Part) /\ Len(<<>>) = 0 /\ MaxParts \in Nat
      BY CodecAssumption
    <2>3. CodecTypeOK'
      BY <2>1, <2>2 DEF CodecInv, CodecTypeOK
    <2>4. MadeOf'
      BY <2>1 DEF MadeOf
    <2>5. DecodedIffOneLine' /\ WritesOneObject'
      BY <2>1 DEF CodecInv, DecodedIffOneLine, WritesOneObject
    <2> QED
      BY <2>1, <2>2, <2>3, <2>4, <2>5 DEF CodecInv
  <1>3. ASSUME NEW q \in Lines, Arrives(q, LineLength(q.head))
        PROVE  CodecInv'
    <2>1. q \in Part
      BY DEF Part
    <2>2. q.head \in AllHeads
      BY <2>1, LineOf, Zenon
    <2>3. LineLength(q.head) \in 1..LineLength(q.head)
      BY <2>2, Lengths
    <2> QED
      BY <1>3, <2>1, <2>3, CodecArrives, Zenon
  <1>4. ASSUME NEW q \in CutLines, NEW k \in 1..(LineLength(q.head) - 1), Arrives(q, k)
        PROVE  CodecInv'
    <2>1. q \in Part
      BY DEF Part
    <2>2. q.head \in AllHeads
      BY <2>1, LineOf, Zenon
    <2>3. LineLength(q.head) \in Nat
      BY <2>2, Lengths
    <2>4. k \in 1..LineLength(q.head)
      BY <2>3
    <2> QED
      BY <1>4, <2>1, <2>4, CodecArrives, Zenon
  <1>5. CASE UNCHANGED vars
    BY <1>5 DEF vars, CodecInv, CodecTypeOK, MadeOf, BeginsLine, Glued,
                DecodedIffOneLine, WritesOneObject
  <1> QED
    BY <1>1, <1>2, <1>3, <1>4, <1>5 DEF Next

\* CodecInv is an invariant.
LEMMA CodecInvariant == Spec => []CodecInv
  BY CodecInit, CodecNext, PTL DEF Spec

\* CodecTypeOK: what is received and what is written is bytes.
THEOREM CodecTypeCorrect == Spec => []CodecTypeOK
  <1>1. CodecInv => CodecTypeOK
    BY DEF CodecInv
  <1> QED
    BY <1>1, CodecInvariant, PTL

\* line_process decodes a whole line of VCI_Receive to the frame it was made of,
\* and refuses every text that is glued from the parts of several lines.
THEOREM DecodesOneLine == Spec => []DecodedIffOneLine
  <1>1. CodecInv => DecodedIffOneLine
    BY DEF CodecInv
  <1> QED
    BY <1>1, CodecInvariant, PTL

\* line_process never writes behind the element of pReceive it was given.
THEOREM ObjectFits == Spec => []WritesOneObject
  <1>1. CodecInv => WritesOneObject
    BY DEF CodecInv
  <1> QED
    BY <1>1, CodecInvariant, PTL

\* However the lines in rx_buff_ were cut and glued, line_process hands
\* hex_string_to_bin_fastest whole pairs of characters inside its table.
THEOREM InsideTable == Spec => []LooksUpInsideTable
  <1>1. CodecInv => LooksUpInsideTable
    <2> SUFFICES ASSUME CodecInv, Ended
                 PROVE  LET digits == DecoderInput(SubSeq(rx, 1, Len(rx) - 1))
                        IN  /\ Len(digits) % 2 = 0
                            /\ \A i \in 1..Len(digits) : digits[i] < TableSize
      BY DEF LooksUpInsideTable
    <2> DEFINE str    == SubSeq(rx, 1, Len(rx) - 1)
               digits == DecoderInput(str)
    <2>1. str \in Seq(Byte)
      BY DEF CodecInv, CodecTypeOK, Ended
    <2> HIDE DEF str
    <2>2. digits = <<>> \/ HexPairs(digits)
      BY <2>1, HandedOn, Zenon
    <2> HIDE DEF digits
    <2>3. /\ Len(digits) % 2 = 0
          /\ \A i \in 1..Len(digits) : digits[i] < TableSize
      <3>1. CASE digits = <<>>
        BY <3>1
      <3>2. CASE HexPairs(digits)
        <4>1. Len(digits) % 2 = 0 /\ \A i \in 1..Len(digits) : IsHexDigit(digits[i])
          BY <3>2, Zenon DEF HexPairs, AllHex
        <4>2. ASSUME NEW c, IsHexDigit(c) PROVE c < TableSize
          BY <4>2 DEF IsHexDigit, TableSize
        <4> QED
          BY <4>1, <4>2, Zenon
      <3> QED
        BY <2>2, <3>1, <3>2
    <2> QED
      BY <2>3 DEF digits, str
  <1> QED
    BY <1>1, CodecInvariant, PTL
==============================================================================
