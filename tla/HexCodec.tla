------------------------------- MODULE HexCodec -------------------------------
(***************************************************************************)
(* The text of the protocol: bin2hex_fast writes a line, line_process      *)
(* recognises it with two regular expressions and decodes it with          *)
(* hex_string_to_bin_fastest.  A character is its code.  The small         *)
(* specification below feeds the reader with lines that may be cut by the  *)
(* end of a connection and glued to a line of the next one, as rx_buff_    *)
(* of CanImpCanNet is.                                                     *)
(***************************************************************************)
EXTENDS Integers, Sequences

CONSTANTS Lines,     \* lines that arrive whole
          CutLines,  \* lines that are cut
          MaxParts   \* bound: lines that are glued together

Byte == 0..255

------------------------------------------------------------------------------
(* Encoding. *)

hexmap == [d \in 0..15 |-> IF d < 10 THEN 48 + d ELSE 87 + d]

\* do_conv: two digits for a byte, the high one first.
do_conv(bin) ==
  [i \in 1..(2 * Len(bin)) |->
     IF i % 2 = 1 THEN hexmap[bin[(i + 1) \div 2] \div 16] ELSE hexmap[bin[i \div 2] % 16]]

Newline == 10

\* "VCI_Receive," and "VCI_Transmit,".
HeadText(h) ==
  CASE h = "VCI_Receive"  -> <<86, 67, 73, 95, 82, 101, 99, 101, 105, 118, 101, 44>>
    [] h = "VCI_Transmit" -> <<86, 67, 73, 95, 84, 114, 97, 110, 115, 109, 105, 116, 44>>

\* What stands between the head and the VCI_CAN_OBJ: send_count and the time
\* stamp, two uint64_t, in the agent; three DWORDs in VCI_Transmit.
InfoSize(h) == CASE h = "VCI_Receive" -> 8 + 8 [] h = "VCI_Transmit" -> 3 * 4

CanObjSize == 24

\* What a line is written from.
IsLine(l) ==
  /\ l.head \in {"VCI_Receive", "VCI_Transmit"}
  /\ l.info \in [1..InfoSize(l.head) -> Byte]
  /\ l.obj \in [1..CanObjSize -> Byte]

ASSUME CodecAssumption ==
  /\ \A l \in Lines \cup CutLines : IsLine(l)
  /\ MaxParts \in Nat

\* bin2hex_fast: the head, every argument converted, the newline.
bin2hex_fast(h, info, obj) ==
  HeadText(h) \o do_conv(info) \o do_conv(obj) \o <<Newline>>

------------------------------------------------------------------------------
(* Decoding. *)

\* Mutant: the gap between the upper and the lower case digits is one short.
GapTooShort(c) ==
  CASE c \in 48..57  -> c - 48
    [] c \in 65..70  -> c - 55
    [] c \in 96..101 -> c - 86
    [] OTHER         -> 0

\* Mutant: the lower case digits are taken for upper case ones.
LowerAsUpper(c) ==
  CASE c \in 48..57  -> c - 48
    [] c \in 65..102 -> c - 55
    [] OTHER         -> 0

\* The table of hex_string_to_bin_fastest has 103 entries, the last for 'f'.
\* What is read behind it is not modelled: LooksUpInsideTable.
hashmap(c) ==
  CASE c \in 48..57  -> c - 48
    [] c \in 65..70  -> c - 55
    [] c \in 97..102 -> c - 87
    [] OTHER         -> 0

TableSize == 103

hex_string_to_bin_fastest(str) ==
  [i \in 1..(Len(str) \div 2) |-> ((hashmap(str[2 * i - 1]) * 16) % 256) + hashmap(str[2 * i])]

IsHexDigit(c) == c \in 48..57 \cup 65..70 \cup 97..102

AllHex(str) == \A i \in 1..Len(str) : IsHexDigit(str[i])

\* _receive_pattern2 matches the string from its beginning.
HeadMatches(str, h) ==
  LET n == Len(HeadText(h))
  IN  /\ Len(str) >= n + 32
      /\ SubSeq(str, 1, n) = HeadText(h)
      /\ AllHex(SubSeq(str, n + 1, n + 32))

\* What follows the match of _receive_pattern2.
Payload(str, h) == SubSeq(str, Len(HeadText(h)) + 33, Len(str))

\* Mutant: _hex_str_pattern2 lost its $.
PrefixOfHex(pl) == Len(pl) >= 2 /\ AllHex(SubSeq(pl, 1, 2))

\* _hex_str_pattern2: pairs of digits, from the beginning to the end.
HexPairs(pl) == Len(pl) > 0 /\ Len(pl) % 2 = 0 /\ AllHex(pl)

Refused == <<>>

\* line_process: the characters it hands to the decoder, none if a test fails.
DecoderInput(str) ==
  LET hs == {h \in {"VCI_Receive", "VCI_Transmit"} : HeadMatches(str, h)}
      pl == Payload(str, CHOOSE h \in hs : TRUE)
  IN  IF hs # {} /\ HexPairs(pl) /\ Len(pl) >= 2 * CanObjSize THEN pl ELSE <<>>

\* line_process: what it writes to dst, or nothing.
line_process(str) ==
  IF DecoderInput(str) = <<>> THEN Refused ELSE hex_string_to_bin_fastest(DecoderInput(str))

------------------------------------------------------------------------------
(* Lines on a connection. *)

VARIABLES rx,    \* the text in rx_buff_
          made,  \* history: the lines it is made of
          dst,   \* what line_process wrote for the last line
          was    \* history: what that line was made of

vars == <<rx, made, dst, was>>

Text(l)       == bin2hex_fast(l.head, l.info, l.obj)
LineLength(h) == Len(HeadText(h)) + 2 * InfoSize(h) + 2 * CanObjSize + 1

Init == rx = <<>> /\ made = <<>> /\ dst = Refused /\ was = <<>>

Ended == rx # <<>> /\ rx[Len(rx)] = Newline

\* The first k characters of a line arrive; if it is not all of them, the
\* connection is lost, and another one goes on with a line of its own.
Arrives(l, k) ==
  /\ ~Ended
  /\ Len(made) < MaxParts
  /\ rx' = rx \o SubSeq(Text(l), 1, k)
  /\ made' = Append(made, l)
  /\ dst' = Refused
  /\ was' = <<>>

\* A line is processed, without its newline, and consumed.
Process ==
  /\ Ended
  /\ dst' = line_process(SubSeq(rx, 1, Len(rx) - 1))
  /\ was' = made
  /\ rx' = <<>>
  /\ made' = <<>>

\* The application gives up a connection that ended inside a line.
Drop == rx # <<>> /\ ~Ended /\ rx' = <<>> /\ made' = <<>> /\ UNCHANGED <<dst, was>>

Next ==
  \/ Process \/ Drop
  \/ \E l \in Lines : Arrives(l, LineLength(l.head))
  \/ \E l \in CutLines : \E k \in 1..(LineLength(l.head) - 1) : Arrives(l, k)

Spec == Init /\ [][Next]_vars

------------------------------------------------------------------------------
(* Properties. *)

CodecTypeOK ==
  /\ rx \in Seq(Byte)
  /\ dst \in Seq(Byte)
  /\ Len(made) <= MaxParts /\ Len(was) <= MaxParts

\* The line the agent writes for a frame, and no other text that arises from its
\* lines, is decoded, and to that very frame: a line that was cut anywhere and
\* glued to the next one is refused, although most of it is hexadecimal.  So is
\* a line of VCI_Transmit, although _receive_pattern2 lists its head: it has 24
\* digits where the pattern wants 32, and 8 digits of the object go with them.
DecodedIffOneLine ==
  was # <<>> =>
    dst = IF Len(was) = 1 /\ was[1].head = "VCI_Receive" THEN was[1].obj ELSE Refused

\* line_process checks that there are enough digits for a VCI_CAN_OBJ and decodes
\* all there are: it never writes behind the element of pReceive it was given.
WritesOneObject == Len(dst) <= CanObjSize

\* The decoder uses every character it is given as an index, and its table ends
\* behind 'f', before the 'i' and the 'v' of a head: of the text that waits in
\* rx_buff_, cut and glued as it may be, line_process hands on no character behind
\* the table, and no half pair, whose other index would be the newline.
LooksUpInsideTable ==
  Ended =>
    LET digits == DecoderInput(SubSeq(rx, 1, Len(rx) - 1))
    IN  /\ Len(digits) % 2 = 0
        /\ \A i \in 1..Len(digits) : digits[i] < TableSize
==============================================================================
