-------------------------- MODULE RequestParserProofs --------------------------
(***************************************************************************)
(* PrepareResponse on any text: no offset leaves its string, and the loop  *)
(* over the headers always gets on.  On any request that is sent, cut off  *)
(* anywhere: the headers, the path and the arguments that it returns are   *)
(* those that were sent, as far as RequestParser says that they are.       *)
(*                                                                         *)
(* LineInv says where the stream is between two parts of the request line, *)
(* HeadersInv and TargetInv which headers and arguments are read by then;  *)
(* both rest on lemmas about what is where in the text.                    *)
(***************************************************************************)
EXTENDS RequestParser, FiniteSetTheorems, SequenceTheorems, WellFoundedInduction,
        TLAPS

LEMMA LeastIndex ==
  ASSUME NEW I, I \subseteq Nat, I # {}
  PROVE  \E x \in I : \A y \in I : x <= y
<1>1. IsWellFoundedOn(OpToRel(<, Nat), Nat)
  BY NatLessThanWellFounded
<1>2. PICK x \in I : \A y \in I : ~ (<<y, x>> \in OpToRel(<, Nat))
  BY <1>1, WFMin
<1>3. ASSUME NEW y \in I PROVE x <= y
  <2>1. ~(y < x)
    BY <1>2 DEF OpToRel
  <2> QED BY <2>1
<1> QED BY <1>3

LEMMA GreatestIndex ==
  ASSUME NEW I, NEW n \in Nat, I \subseteq 1 .. n, I # {}
  PROVE  \E x \in I : \A y \in I : x >= y
<1> DEFINE J == {n - x : x \in I}
<1>1. J \subseteq Nat /\ J # {}
  OBVIOUS
<1>2. PICK j \in J : \A y \in J : j <= y
  <2> HIDE DEF J
  <2> QED BY <1>1, LeastIndex
<1>3. PICK x \in I : j = n - x
  BY <1>2
<1>4. ASSUME NEW y \in I PROVE x >= y
  <2>1. n - y \in J
    OBVIOUS
  <2>2. n - x <= n - y
    BY <2>1, <1>2, <1>3
  <2> QED BY <2>2
<1> QED BY <1>4

(* Where a character is found, if it is. *)
LEMMA PositionProperties ==
  ASSUME NEW S, NEW s \in Seq(S), NEW c
  PROVE  /\ Position(s, c) \in 0 .. Len(s)
         /\ \A j \in 1 .. Len(s) : s[j] = c => Position(s, c) > 0
<1> DEFINE I == {j \in 1 .. Len(s) : s[j] = c}
<1>1. Position(s, c) = IF I # {} THEN Min(I) ELSE 0
  BY DEF Position, SelectInSeq
<1>2. I \subseteq Nat /\ I \subseteq 1 .. Len(s) /\ Len(s) \in Nat
  OBVIOUS
<1>3. \A j \in 1 .. Len(s) : s[j] = c => I # {}
  OBVIOUS
<1> HIDE DEF I
<1>4. CASE I # {}
  <2>1. \E x \in I : \A y \in I : x <= y
    BY <1>2, <1>4, LeastIndex
  <2>2. Min(I) \in I
    BY <2>1 DEF Min
  <2>3. Position(s, c) = Min(I)
    BY <1>1, <1>4
  <2>4. Position(s, c) \in 1 .. Len(s)
    BY <1>2, <2>2, <2>3
  <2> QED BY <1>2, <2>4
<1>5. CASE I = {}
  BY <1>1, <1>2, <1>3, <1>5
<1> QED BY <1>4, <1>5

LEMMA LastPositionProperties ==
  ASSUME NEW S, NEW s \in Seq(S), NEW c
  PROVE  LastPosition(s, c) \in 0 .. Len(s)
<1> DEFINE I == {j \in 1 .. Len(s) : s[j] = c}
<1>1. LastPosition(s, c) = IF I # {} THEN Max(I) ELSE 0
  BY DEF LastPosition, SelectLastInSeq
<1>2. I \subseteq 1 .. Len(s) /\ Len(s) \in Nat
  OBVIOUS
<1> HIDE DEF I
<1>3. CASE I # {}
  <2>1. \E x \in I : \A y \in I : x >= y
    BY <1>2, <1>3, GreatestIndex
  <2>2. Max(I) \in I
    BY <2>1 DEF Max
  <2>3. LastPosition(s, c) = Max(I)
    BY <1>1, <1>3
  <2>4. LastPosition(s, c) \in 1 .. Len(s)
    BY <1>2, <2>2, <2>3
  <2> QED BY <1>2, <2>4
<1>4. CASE I = {}
  BY <1>1, <1>2, <1>4
<1> QED BY <1>3, <1>4

LEMMA FromProperties ==
  ASSUME NEW S, NEW s \in Seq(S), NEW n \in 1 .. Len(s) + 1
  PROVE  From(s, n) \in Seq(S) /\ Len(From(s, n)) = Len(s) + 1 - n
<1>1. Len(s) \in Nat
  OBVIOUS
<1>2. \A j \in n .. Len(s) : s[j] \in S
  BY <1>1
<1>3. /\ SubSeq(s, n, Len(s)) \in Seq(S)
      /\ Len(SubSeq(s, n, Len(s))) = IF n <= Len(s) THEN Len(s) - n + 1 ELSE 0
  BY <1>1, <1>2, SubSeqProperties
<1> QED BY <1>1, <1>3 DEF From

-----------------------------------------------------------------------------
Characters == {text[j] : j \in DOMAIN text}

Stream == [pos : 1 .. Len(text) + 1, eof : BOOLEAN, fail : BOOLEAN]

Fine(s) == s \in Stream /\ (Good(s) \/ s.eof)

(* What std::getline makes of a stream: it never goes back, and a good     *)
(* stream gets on or comes to its end.                                     *)
Reads(s, line) ==
  /\ line.is \in Stream /\ line.str \in Seq(Characters)
  /\ line.is.pos >= s.pos
  /\ ~Good(s) => line.is.fail /\ line.is.eof = s.eof
  /\ Good(s) => /\ Good(line.is) \/ line.is.eof
                /\ line.is.eof \/ line.is.pos > s.pos
                /\ line.is.fail => line.is.pos = Len(text) + 1

LEMMA GetLineProperties ==
  ASSUME text \in Seq(Characters), NEW s \in Stream, NEW str, NEW delim,
         str \in Seq(Characters)
  PROVE  Reads(s, GetLine(s, str, delim))
<1> DEFINE rest == From(text, s.pos)
           n == Position(rest, delim)
           line == GetLine(s, str, delim)
<1> SUFFICES Reads(s, line)
  OBVIOUS
<1>1. s.pos \in 1 .. Len(text) + 1 /\ s.eof \in BOOLEAN /\ s.fail \in BOOLEAN /\ Len(text) \in Nat
  BY DEF Stream
<1>2. rest \in Seq(Characters) /\ Len(rest) = Len(text) + 1 - s.pos
  <2> HIDE DEF rest
  <2> QED BY <1>1, FromProperties DEF rest
<1>3. n \in 0 .. Len(rest)
  BY <1>2, PositionProperties
<1> HIDE DEF rest, n
<1>4. CASE ~Good(s)
  <2>1. line = [is |-> [s EXCEPT !.fail = TRUE], str |-> str]
    BY <1>4 DEF GetLine
  <2>2. line.is = [s EXCEPT !.fail = TRUE] /\ line.str = str
    BY <2>1
  <2> HIDE DEF line
  <2>3. line.is \in Stream /\ line.is.pos = s.pos /\ line.is.fail /\ line.is.eof = s.eof
    BY <2>2 DEF Stream
  <2> QED BY <1>1, <1>4, <2>2, <2>3 DEF Reads
<1>5. CASE Good(s) /\ n # 0
  <2> DEFINE next == [s EXCEPT !.pos = @ + n]
             read == SubSeq(rest, 1, n - 1)
  <2>1. line = [is |-> next, str |-> read]
    BY <1>5 DEF GetLine, rest, n
  <2>2. line.is = next /\ line.str = read
    <3> HIDE DEF line, next, read
    <3> QED BY <2>1
  <2> HIDE DEF line
  <2>3. s.pos + n \in 1 .. Len(text) + 1 /\ s.pos + n > s.pos
    BY <1>1, <1>2, <1>3, <1>5
  <2>4. line.is \in Stream /\ line.is.pos = s.pos + n /\ line.is.fail = s.fail
        /\ line.is.eof = s.eof
    BY <2>2, <2>3 DEF Stream
  <2>5. line.str \in Seq(Characters)
    <3>1. \A j \in 1 .. n - 1 : rest[j] \in Characters
      BY <1>2, <1>3
    <3>2. n - 1 \in Int
      BY <1>2, <1>3
    <3> QED BY <2>2, <3>1, <3>2, SubSeqProperties
  <2> QED BY <1>1, <1>5, <2>3, <2>4, <2>5 DEF Reads, Good
<1>6. CASE Good(s) /\ n = 0
  <2>1. line = [is |-> [pos |-> Len(text) + 1, eof |-> TRUE, fail |-> rest = <<>>],
                str |-> rest]
    BY <1>6 DEF GetLine, rest, n
  <2>2. /\ line.is.pos = Len(text) + 1 /\ line.is.eof /\ line.str = rest
        /\ line.is \in Stream
    BY <1>1, <2>1 DEF Stream
  <2> HIDE DEF line
  <2> QED BY <1>1, <1>2, <1>6, <2>2 DEF Reads
<1> QED BY <1>4, <1>5, <1>6

LEMMA IgnoreProperties ==
  ASSUME text \in Seq(Characters), NEW s \in Stream
  PROVE  /\ IgnoreOne(s) \in Stream /\ IgnoreLine(s) \in Stream
         /\ IgnoreOne(s).pos >= s.pos /\ IgnoreLine(s).pos >= s.pos
         /\ Fine(s) => Fine(IgnoreOne(s)) /\ Fine(IgnoreLine(s))
         /\ s.eof => IgnoreOne(s).eof
         /\ Good(s) /\ s.pos = Len(text) + 1 => IgnoreLine(s).eof
<1> DEFINE rest == From(text, s.pos)
           n == Position(rest, "\n")
<1>1. s.pos \in 1 .. Len(text) + 1 /\ s.eof \in BOOLEAN /\ s.fail \in BOOLEAN /\ Len(text) \in Nat
  BY DEF Stream
<1>2. rest \in Seq(Characters) /\ Len(rest) = Len(text) + 1 - s.pos
  <2> HIDE DEF rest
  <2> QED BY <1>1, FromProperties DEF rest
<1>3. n \in 0 .. Len(rest)
  BY <1>2, PositionProperties
<1>4. s.pos + n \in 1 .. Len(text) + 1 /\ n \in Nat /\ s.pos + n >= s.pos
  BY <1>1, <1>2, <1>3
<1>5. s.pos = Len(text) + 1 => n = 0
  BY <1>1, <1>2, <1>3
<1>6. /\ IgnoreOne(s) \in Stream /\ IgnoreOne(s).pos >= s.pos
      /\ Fine(s) => Fine(IgnoreOne(s))
      /\ s.eof => IgnoreOne(s).eof
  <2>1. CASE ~Good(s)
    <3>1. IgnoreOne(s) = [s EXCEPT !.fail = TRUE]
      BY <2>1 DEF IgnoreOne
    <3>2. /\ IgnoreOne(s) \in Stream /\ IgnoreOne(s).pos = s.pos
          /\ IgnoreOne(s).fail /\ IgnoreOne(s).eof = s.eof
      BY <1>1, <3>1 DEF Stream
    <3> QED BY <1>1, <2>1, <3>2 DEF Fine, Good
  <2>2. CASE Good(s) /\ s.pos > Len(text)
    <3>1. IgnoreOne(s) = [s EXCEPT !.eof = TRUE]
      BY <2>2 DEF IgnoreOne
    <3>2. IgnoreOne(s) \in Stream /\ IgnoreOne(s).pos = s.pos /\ IgnoreOne(s).eof
      BY <1>1, <3>1 DEF Stream
    <3> QED BY <1>1, <2>2, <3>2 DEF Fine, Good
  <2>3. CASE Good(s) /\ s.pos <= Len(text)
    <3>1. IgnoreOne(s) = [s EXCEPT !.pos = @ + 1]
      BY <1>1, <2>3 DEF IgnoreOne
    <3>2. s.pos + 1 \in 1 .. Len(text) + 1 /\ s.pos + 1 >= s.pos
      BY <1>1, <2>3
    <3> QED BY <1>1, <2>3, <3>1, <3>2 DEF Fine, Good, Stream
  <2> QED BY <1>1, <2>1, <2>2, <2>3
<1>7. IgnoreLine(s) = IF ~Good(s) THEN [s EXCEPT !.fail = TRUE]
                      ELSE IF n = 0 THEN [s EXCEPT !.pos = Len(text) + 1, !.eof = TRUE]
                      ELSE [s EXCEPT !.pos = @ + n]
  BY DEF IgnoreLine
<1> HIDE DEF n, rest
<1>8. /\ IgnoreLine(s) \in Stream /\ IgnoreLine(s).pos >= s.pos
      /\ Fine(s) => Fine(IgnoreLine(s))
      /\ Good(s) /\ s.pos = Len(text) + 1 => IgnoreLine(s).eof
  <2>1. CASE ~Good(s)
    <3>1. IgnoreLine(s) = [s EXCEPT !.fail = TRUE]
      BY <1>7, <2>1
    <3>2. /\ IgnoreLine(s) \in Stream /\ IgnoreLine(s).pos = s.pos
          /\ IgnoreLine(s).fail /\ IgnoreLine(s).eof = s.eof
      BY <1>1, <3>1 DEF Stream
    <3> QED BY <1>1, <2>1, <3>2 DEF Fine, Good
  <2>2. CASE Good(s) /\ n = 0
    <3>1. IgnoreLine(s) = [s EXCEPT !.pos = Len(text) + 1, !.eof = TRUE]
      BY <1>7, <2>2
    <3>2. Len(text) + 1 \in 1 .. Len(text) + 1 /\ Len(text) + 1 >= s.pos
      BY <1>1
    <3> QED BY <1>1, <2>2, <3>1, <3>2 DEF Fine, Good, Stream
  <2>3. CASE Good(s) /\ n # 0
    <3>1. IgnoreLine(s) = [s EXCEPT !.pos = @ + n]
      BY <1>7, <2>3
    <3> QED BY <1>1, <1>4, <1>5, <2>3, <3>1 DEF Fine, Good, Stream
  <2> QED BY <2>1, <2>2, <2>3
<1> QED BY <1>6, <1>8

-----------------------------------------------------------------------------
(* TypeOK, with what the lines that set the offsets rely on.               *)
PInv ==
  /\ text \in Seq(Characters) /\ is \in Stream /\ secondBuffer \in Seq(Characters)
  /\ at \in {"method", "target", "arguments", "version", "headers",
             "accepted", "rejected"}
  /\ at \in {"method", "target"} => i = 1 /\ argumentStartOffset = 1
  /\ at = "arguments" => /\ i \in 1 .. Len(secondBuffer) + 1
                         /\ argumentStartOffset \in 1 .. Len(secondBuffer) + 1
  /\ at = "headers" => Fine(is)

LEMMA Initially == Init => PInv
<1> SUFFICES ASSUME Init PROVE PInv
  OBVIOUS
<1>1. PICK n \in 0 .. Len(Text(request)) : text = SubSeq(Text(request), 1, n)
  BY DEF Init
<1>2. text \in Seq(Characters)
  <2> DEFINE all == Text(request)
             S == {all[j] : j \in 1 .. n}
  <2>1. n \in Int /\ \A j \in 1 .. n : all[j] \in S
    OBVIOUS
  <2>2. text = SubSeq(all, 1, n)
    BY <1>1
  <2> HIDE DEF all, S
  <2>3. text \in Seq(S)
    BY <2>1, <2>2, SubSeqProperties
  <2>4. \A j \in DOMAIN text : text[j] \in Characters
    BY DEF Characters
  <2> QED BY <2>3, <2>4
<1>3. is \in Stream /\ secondBuffer \in Seq(Characters)
  <2>1. Len(text) \in Nat
    BY <1>2
  <2>2. 1 \in 1 .. Len(text) + 1
    BY <2>1
  <2>3. is = [pos |-> 1, eof |-> FALSE, fail |-> FALSE] /\ secondBuffer = <<>>
    BY DEF Init
  <2> QED BY <2>2, <2>3, EmptySeq DEF Stream
<1> QED BY <1>2, <1>3 DEF Init, PInv

LEMMA MethodStep == PInv /\ ReadMethod => PInv'
<1> SUFFICES ASSUME PInv, ReadMethod PROVE PInv'
  OBVIOUS
<1> DEFINE line == GetLine(is, <<>>, " ")
<1>1. text' = text /\ Characters' = Characters /\ Stream' = Stream
  BY DEF ReadMethod, Characters, Stream
<1>2. line.is \in Stream
  BY GetLineProperties, EmptySeq DEF PInv, Reads
<1>3. is' = line.is /\ secondBuffer' = secondBuffer /\ UNCHANGED offsets
      /\ at' \in {"rejected", "target"} /\ at = "method"
  BY DEF ReadMethod, Reject
<1> QED BY <1>1, <1>2, <1>3 DEF PInv, offsets

LEMMA TargetStep == PInv /\ ReadTarget => PInv'
<1> SUFFICES ASSUME PInv, ReadTarget PROVE PInv'
  OBVIOUS
<1> DEFINE line == GetLine(is, <<>>, " ")
           end == PathEnd(line.str)
           name == From(line.str, end + 1)
           mark == LastPosition(name, "?")
           rest == From(name, mark + 1)
<1>1. text' = text /\ Characters' = Characters /\ Stream' = Stream
  BY DEF ReadTarget, Characters, Stream
<1>2. line.is \in Stream /\ line.str \in Seq(Characters)
  BY GetLineProperties, EmptySeq DEF PInv, Reads
<1>3. rest \in Seq(Characters)
  <2> HIDE DEF line
  <2>1. end \in 0 .. Len(line.str)
    BY <1>2, LastPositionProperties DEF PathEnd
  <2> HIDE DEF end
  <2>2. name \in Seq(Characters)
    <3>1. end + 1 \in 1 .. Len(line.str) + 1
      BY <1>2, <2>1
    <3> QED BY <1>2, <3>1, FromProperties
  <2> HIDE DEF name
  <2>3. mark \in 0 .. Len(name)
    BY <2>2, LastPositionProperties
  <2> HIDE DEF mark
  <2>4. mark + 1 \in 1 .. Len(name) + 1
    BY <2>2, <2>3
  <2> QED BY <2>2, <2>4, FromProperties
<1>4. /\ is' = line.is /\ UNCHANGED offsets /\ at = "target"
      /\ \/ at' = "rejected" /\ secondBuffer' = secondBuffer
         \/ at' = "arguments" /\ secondBuffer' = rest
  BY DEF ReadTarget, Reject
<1> HIDE DEF rest, line
<1>5. secondBuffer' \in Seq(Characters) /\ Len(secondBuffer') \in Nat
  BY <1>3, <1>4 DEF PInv
<1> QED BY <1>1, <1>2, <1>4, <1>5 DEF PInv, offsets

LEMMA ArgumentsStep == PInv /\ ReadArguments => PInv'
<1> SUFFICES ASSUME PInv, ReadArguments PROVE PInv'
  OBVIOUS
<1> DEFINE rest == From(secondBuffer, i + 1)
           n == Position(rest, "&")
<1>1. /\ UNCHANGED <<text, is, secondBuffer>> /\ at = "arguments"
      /\ Characters' = Characters /\ Stream' = Stream
  BY DEF ReadArguments, Characters, Stream
<1>2. i \in 1 .. Len(secondBuffer) + 1 /\ Len(secondBuffer) \in Nat
      /\ argumentStartOffset \in 1 .. Len(secondBuffer) + 1
  BY <1>1 DEF PInv
<1>3. CASE i > Len(secondBuffer)
  BY <1>1, <1>2, <1>3 DEF PInv, ReadArguments
<1>4. CASE i <= Len(secondBuffer)
  <2>1. n \in 0 .. Len(secondBuffer) - i
    <3>1. i + 1 \in 1 .. Len(secondBuffer) + 1
      BY <1>2, <1>4
    <3>2. rest \in Seq(Characters) /\ Len(rest) = Len(secondBuffer) - i
      <4> HIDE DEF rest
      <4> QED BY <1>2, <3>1, FromProperties DEF PInv, rest
    <3> QED BY <3>2, PositionProperties
  <2>2. /\ i' = i + 1 /\ at' = "arguments"
        /\ \/ argumentStartOffset' = argumentStartOffset
           \/ argumentStartOffset' = i + n + 1
    BY <1>1, <1>2, <1>4 DEF ReadArguments, InsertArgument, ArgumentAfter
  <2> HIDE DEF n
  <2>3. /\ i' \in 1 .. Len(secondBuffer) + 1
        /\ argumentStartOffset' \in 1 .. Len(secondBuffer) + 1
    BY <1>2, <1>4, <2>1, <2>2
  <2> QED BY <1>1, <2>2, <2>3 DEF PInv
<1> QED BY <1>2, <1>3, <1>4

LEMMA VersionStep == PInv /\ ReadVersion => PInv'
<1> SUFFICES ASSUME PInv, ReadVersion PROVE PInv'
  OBVIOUS
<1> DEFINE line == GetLine(is, <<>>, "\n")
           next == line.is
<1>1. text' = text /\ Characters' = Characters /\ Stream' = Stream
  BY DEF ReadVersion, Characters, Stream
<1>2. next \in Stream /\ (Good(is) => Good(next) \/ next.eof)
      /\ (~Good(is) => next.fail)
  BY GetLineProperties, EmptySeq DEF PInv, Reads
<1>3. /\ secondBuffer' = secondBuffer
      /\ \/ at' = "rejected" /\ is' = next
         \/ at' = "headers" /\ is' = IgnoreLine(next) /\ ~next.fail
  BY DEF ReadVersion, Reject
<1> HIDE DEF next
<1>4. IgnoreLine(next) \in Stream /\ (Fine(next) => Fine(IgnoreLine(next)))
  BY <1>2, IgnoreProperties DEF PInv
<1>5. ~next.fail => Fine(next)
  BY <1>2 DEF Fine
<1>6. is' \in Stream /\ (at' = "headers" => Fine(is'))
  BY <1>2, <1>3, <1>4, <1>5
<1>7. Fine(is') = Fine(is)'
  BY <1>1 DEF Fine, Good
<1> QED BY <1>1, <1>3, <1>6, <1>7 DEF PInv

(* A turn of the loop over the headers: what it leaves of the stream, and  *)
(* that it gets on.                                                        *)
LEMMA HeaderStep ==
  PInv /\ ReadHeader => PInv' /\ (is'.eof \/ is'.pos > is.pos)
<1> SUFFICES ASSUME PInv, ReadHeader PROVE PInv' /\ (is'.eof \/ is'.pos > is.pos)
  OBVIOUS
<1> DEFINE line == GetLine(is, <<>>, ":")
           first == line.is
           value == ValueAfter(first)
<1>1. text' = text /\ Characters' = Characters /\ Stream' = Stream /\ at' = at
  BY DEF ReadHeader, Characters, Stream
<1>2. Good(is) /\ is \in Stream /\ text \in Seq(Characters)
      /\ secondBuffer \in Seq(Characters)
  BY DEF PInv, ReadHeader, Fine
<1>3. /\ first \in Stream /\ Fine(first) /\ (first.eof \/ first.pos > is.pos)
      /\ first.fail => first.pos = Len(text) + 1
  BY <1>2, GetLineProperties, EmptySeq DEF Fine, Reads
<1>4. \/ is' = first /\ secondBuffer' = secondBuffer
      \/ is' = SkipLine(first) /\ first.fail /\ secondBuffer' = secondBuffer
      \/ is' = value.is /\ secondBuffer' = value.str
  BY DEF ReadHeader
<1> HIDE DEF first
<1>5. first.fail => /\ SkipLine(first) \in Stream /\ Fine(SkipLine(first))
                    /\ SkipLine(first).eof
  <2> DEFINE c == Cleared(first)
  <2>1. c \in Stream /\ Good(c) /\ Fine(c) /\ c.pos = first.pos
    BY <1>3 DEF Cleared, Stream, Good, Fine
  <2> HIDE DEF c
  <2>2. /\ IgnoreLine(c) \in Stream /\ Fine(IgnoreLine(c))
        /\ c.pos = Len(text) + 1 => IgnoreLine(c).eof
    BY <1>2, <2>1, IgnoreProperties
  <2> QED BY <1>3, <2>1, <2>2 DEF SkipLine, c
<1>6. /\ value.is \in Stream /\ Fine(value.is) /\ value.str \in Seq(Characters)
      /\ value.is.eof \/ value.is.pos > is.pos
  <2> DEFINE skipped == IgnoreOne(first)
             next == value.is
  <2>1. /\ skipped \in Stream /\ Fine(skipped) /\ skipped.pos >= first.pos
        /\ first.eof => skipped.eof
    BY <1>2, <1>3, IgnoreProperties
  <2> HIDE DEF skipped
  <2>2. value = GetLine(skipped, secondBuffer, "\n")
    BY DEF ValueAfter, skipped
  <2>3. /\ next \in Stream /\ value.str \in Seq(Characters)
        /\ next.pos >= skipped.pos
        /\ ~Good(skipped) => next.eof = skipped.eof
        /\ Good(skipped) => Good(next) \/ next.eof
    BY <1>2, <2>1, <2>2, GetLineProperties DEF Reads
  <2> HIDE DEF next, value
  <2>4. Fine(next)
    BY <2>1, <2>3 DEF Fine
  <2>5. skipped.eof => next.eof
    BY <2>3 DEF Good
  <2>6. is.pos \in Int /\ first.pos \in Int /\ skipped.pos \in Int /\ next.pos \in Int
    BY <1>2, <1>3, <2>1, <2>3 DEF Stream
  <2>7. next.eof \/ next.pos > is.pos
    BY <1>3, <2>1, <2>3, <2>5, <2>6
  <2> QED BY <2>3, <2>4, <2>7 DEF next
<1> HIDE DEF value
<1>7. is' \in Stream /\ Fine(is') /\ secondBuffer' \in Seq(Characters)
      /\ (is'.eof \/ is'.pos > is.pos)
  BY <1>2, <1>3, <1>4, <1>5, <1>6
<1>8. Fine(is') = Fine(is)'
  BY <1>1 DEF Fine, Good
<1>9. at' = "headers"
  BY <1>1 DEF ReadHeader
<1> QED BY <1>1, <1>2, <1>7, <1>8, <1>9 DEF PInv

LEMMA Inductive == PInv /\ [Next]_parserVars => PInv'
<1> SUFFICES ASSUME PInv, [Next]_parserVars PROVE PInv'
  OBVIOUS
<1>1. ASSUME UNCHANGED <<text, is, secondBuffer, offsets>>,
             at' = at \/ at' = "accepted"
      PROVE  PInv'
  BY <1>1 DEF PInv, Stream, Characters, Fine, Good, offsets
<1>2. CASE ReadMethod
  BY <1>2, MethodStep
<1>3. CASE ReadTarget
  BY <1>3, TargetStep
<1>4. CASE ReadArguments
  BY <1>4, ArgumentsStep
<1>5. CASE ReadVersion
  BY <1>5, VersionStep
<1>6. CASE ReadHeader
  BY <1>6, HeaderStep
<1>7. CASE Accept
  BY <1>1, <1>7 DEF Accept
<1>8. CASE UNCHANGED parserVars
  BY <1>1, <1>8 DEF parserVars
<1> QED BY <1>2, <1>3, <1>4, <1>5, <1>6, <1>7, <1>8 DEF Next, PrepareResponse

LEMMA Always == Spec => []PInv
<1> QED BY Initially, Inductive, PTL DEF Spec

(* TypeOK: no offset with which PrepareResponse calls substr is outside of *)
(* its string, whatever the client sends and wherever the record ends.     *)
THEOREM TypeCorrect == Spec => []TypeOK
<1>1. PInv => TypeOK
  BY DEF PInv, TypeOK, Stream, Fine
<1> QED BY <1>1, Always, PTL

(* TurnsAdvance: the loop over the headers returns, for it cannot take     *)
(* more from the text than there is, although clear takes its end away.    *)
THEOREM LoopGetsOn == Spec => TurnsAdvance
<1>1. PInv /\ [Next]_parserVars =>
        [turns' # turns => is'.eof \/ is'.pos > is.pos]_parserVars
  <2> SUFFICES ASSUME PInv, Next, turns' # turns
               PROVE  is'.eof \/ is'.pos > is.pos
    OBVIOUS
  <2>1. ReadHeader
    BY DEF Next, PrepareResponse, ReadMethod, ReadTarget, ReadArguments, ReadVersion,
           Accept, parserVars
  <2> QED BY <2>1, HeaderStep
<1> QED BY <1>1, Always, PTL DEF Spec, TurnsAdvance

-----------------------------------------------------------------------------
(* Parts put one after the other: how far the first k of them reach, and   *)
(* what is where in the whole.                                             *)

LEMMA Induction ==
  ASSUME NEW H, 0 \in H, \A n \in Nat : n \in H => n + 1 \in H
  PROVE  Nat \subseteq H
<1> DEFINE Fails == Nat \ H
<1> SUFFICES ASSUME Fails # {} PROVE FALSE
  OBVIOUS
<1>1. PICK m \in Fails : \A y \in Fails : m <= y
  <2> HIDE DEF Fails
  <2>1. Fails \subseteq Nat
    BY DEF Fails
  <2> QED BY <2>1, LeastIndex
<1>2. m - 1 \in Nat /\ m - 1 \notin Fails
  BY <1>1
<1>3. (m - 1) + 1 \in H
  BY <1>2
<1> QED BY <1>1, <1>3

(* f joins the first parts of ss, one more at each index up to n.           *)
Joining(f, ss, n) ==
  /\ f = [j \in 1 .. n |-> f[j]]
  /\ n > 0 => f[1] = ss[1]
  /\ \A j \in 1 .. n - 1 : f[j + 1] = f[j] \o ss[j + 1]

LEMMA JoiningExists ==
  ASSUME NEW ss, NEW n \in Nat
  PROVE  \E f : Joining(f, ss, n)
<1> DEFINE H == {k \in Nat : \E f : Joining(f, ss, k)}
<1>1. 0 \in H
  <2> DEFINE f == [j \in 1 .. 0 |-> ss[j]]
  <2>1. Joining(f, ss, 0)
    BY DEF Joining
  <2> QED BY <2>1
<1>2. ASSUME NEW k \in Nat, k \in H PROVE k + 1 \in H
  <2>1. PICK f : Joining(f, ss, k)
    BY <1>2
  <2>2. /\ DOMAIN f = 1 .. k
        /\ k > 0 => f[1] = ss[1]
        /\ \A j \in 1 .. k - 1 : f[j + 1] = f[j] \o ss[j + 1]
    BY <2>1 DEF Joining
  <2> DEFINE last == IF k = 0 THEN ss[1] ELSE f[k] \o ss[k + 1]
             g == [j \in 1 .. k + 1 |-> IF j = k + 1 THEN last ELSE f[j]]
  <2>3. g = [j \in 1 .. k + 1 |-> g[j]]
    OBVIOUS
  <2>4. (k = 0 => last = ss[1]) /\ (k # 0 => last = f[k] \o ss[k + 1])
    OBVIOUS
  <2>5. g[k + 1] = last /\ \A j \in 1 .. k : g[j] = f[j]
    <3> HIDE DEF last
    <3> QED OBVIOUS
  <2> HIDE DEF g, last
  <2>6. ASSUME NEW j \in 1 .. k
        PROVE  g[j + 1] = g[j] \o ss[j + 1]
    <3>1. CASE j = k
      <4>1. k # 0 /\ k \in 1 .. k
        BY <3>1
      <4>2. g[k + 1] = f[k] \o ss[k + 1] /\ g[k] = f[k]
        BY <2>4, <2>5, <4>1
      <4> QED BY <3>1, <4>2
    <3>2. CASE j < k
      <4>1. j \in 1 .. k - 1 /\ j + 1 \in 1 .. k
        BY <3>2
      <4>2. f[j + 1] = f[j] \o ss[j + 1] /\ g[j + 1] = f[j + 1] /\ g[j] = f[j]
        BY <2>2, <2>5, <4>1
      <4> QED BY <4>2
    <3>3. j = k \/ j < k
      OBVIOUS
    <3> QED BY <3>1, <3>2, <3>3, Zenon
  <2>8. g[1] = ss[1]
    BY <2>2, <2>4, <2>5
  <2>7. Joining(g, ss, k + 1)
    <3>1. (k + 1) - 1 = k
      OBVIOUS
    <3>2. \A j \in 1 .. (k + 1) - 1 : g[j + 1] = g[j] \o ss[j + 1]
      BY <2>6, <3>1
    <3> QED BY <2>3, <2>8, <3>2 DEF Joining
  <2> QED BY <2>7
<1> QED
  <2>1. \A k \in Nat : k \in H => k + 1 \in H
    BY <1>2
  <2> HIDE DEF H
  <2>2. Nat \subseteq H
    BY <1>1, <2>1, Induction
  <2> QED BY <2>2 DEF H

LEMMA JoiningUnique ==
  ASSUME NEW ss, NEW n \in Nat, NEW m \in Nat, NEW f, NEW g,
         Joining(f, ss, n), Joining(g, ss, m), m <= n
  PROVE  \A j \in 1 .. m : g[j] = f[j]
<1> DEFINE H == {k \in Nat : k \in 1 .. m => g[k] = f[k]}
<1>1. 0 \in H
  OBVIOUS
<1>2. ASSUME NEW k \in Nat, k \in H PROVE k + 1 \in H
  <2> SUFFICES ASSUME k + 1 \in 1 .. m PROVE g[k + 1] = f[k + 1]
    OBVIOUS
  <2>1. k + 1 \in 1 .. n /\ (k > 0 => k \in 1 .. n - 1 /\ k \in 1 .. m - 1)
    OBVIOUS
  <2>2. CASE k = 0
    BY <2>1, <2>2 DEF Joining
  <2>3. CASE k > 0
    <3>1. g[k] = f[k]
      BY <1>2, <2>3
    <3>2. g[k + 1] = g[k] \o ss[k + 1]
      BY <2>1, <2>3 DEF Joining
    <3>3. f[k + 1] = f[k] \o ss[k + 1]
      BY <2>1, <2>3 DEF Joining
    <3> QED BY <3>1, <3>2, <3>3
  <2> QED BY <2>2, <2>3
<1> QED
  <2>1. \A k \in Nat : k \in H => k + 1 \in H
    BY <1>2
  <2> HIDE DEF H
  <2>2. Nat \subseteq H
    BY <1>1, <2>1, Induction
  <2> QED BY <2>2 DEF H

LEMMA FlattenIsJoining ==
  ASSUME NEW S, NEW ss \in Seq(S), Len(ss) > 0
  PROVE  \E f : Joining(f, ss, Len(ss)) /\ FlattenSeq(ss) = f[Len(ss)]
<1> DEFINE Joins(g) == g = [j \in 1 .. Len(ss) |->
                             IF j = 1 THEN ss[j] ELSE g[j - 1] \o ss[j]]
           f == CHOOSE g : Joins(g)
<1>1. FlattenSeq(ss) = f[Len(ss)]
  BY DEF FlattenSeq
<1>2. PICK g : Joining(g, ss, Len(ss))
  <2>1. Len(ss) \in Nat
    OBVIOUS
  <2> QED BY <2>1, JoiningExists
<1>3. Joins(g)
  <2>1. ASSUME NEW j \in 1 .. Len(ss)
        PROVE  g[j] = IF j = 1 THEN ss[j] ELSE g[j - 1] \o ss[j]
    <3>1. CASE j = 1
      BY <1>2, <3>1 DEF Joining
    <3>2. CASE j # 1
      <4>1. j - 1 \in 1 .. Len(ss) - 1 /\ (j - 1) + 1 = j
        BY <3>2
      <4>2. g[(j - 1) + 1] = g[j - 1] \o ss[(j - 1) + 1]
        BY <1>2, <4>1 DEF Joining
      <4>3. g[j] = g[j - 1] \o ss[j]
        BY <4>1, <4>2
      <4> QED BY <3>2, <4>3, Zenon
    <3> QED BY <3>1, <3>2
  <2>2. g = [j \in 1 .. Len(ss) |-> g[j]]
    BY <1>2 DEF Joining
  <2> QED BY <2>1, <2>2, Zenon
<1>4. Joins(f)
  <2> HIDE DEF Joins
  <2> QED BY <1>3
<1>5. Joining(f, ss, Len(ss))
  <2> HIDE DEF f
  <2>1. \A j \in 1 .. Len(ss) : f[j] = IF j = 1 THEN ss[j] ELSE f[j - 1] \o ss[j]
    BY <1>4, Zenon
  <2>2. f = [j \in 1 .. Len(ss) |-> f[j]]
    BY <1>4, <2>1, Zenon
  <2>3. f[1] = ss[1]
    BY <2>1
  <2>4. ASSUME NEW j \in 1 .. Len(ss) - 1
        PROVE  f[j + 1] = f[j] \o ss[j + 1]
    <3> DEFINE m == j + 1
    <3>1. m \in 1 .. Len(ss) /\ m # 1 /\ m - 1 = j
      OBVIOUS
    <3> HIDE DEF m
    <3>2. f[m] = f[m - 1] \o ss[m]
      BY <2>1, <3>1, Zenon
    <3> QED BY <3>1, <3>2 DEF m
  <2> QED BY <2>2, <2>3, <2>4 DEF Joining
<1> QED BY <1>1, <1>5

LEMMA FlattenAppends ==
  ASSUME NEW S, NEW ss \in Seq(Seq(S)), NEW k \in 1 .. Len(ss)
  PROVE  /\ FlattenSeq(SubSeq(ss, 1, k - 1)) \in Seq(S)
         /\ FlattenSeq(SubSeq(ss, 1, k)) \in Seq(S)
         /\ FlattenSeq(SubSeq(ss, 1, k)) = FlattenSeq(SubSeq(ss, 1, k - 1)) \o ss[k]
<1> DEFINE a(n) == SubSeq(ss, 1, n)
<1>1. PICK f : Joining(f, ss, Len(ss))
  <2>1. Len(ss) \in Nat
    OBVIOUS
  <2> QED BY <2>1, JoiningExists
<1>2. ASSUME NEW n \in 1 .. Len(ss)
      PROVE  FlattenSeq(a(n)) = f[n]
  <2> DEFINE b == a(n)
  <2>1. /\ b \in Seq(Seq(S)) /\ Len(b) = n /\ \A j \in 1 .. n : b[j] = ss[j]
        /\ n \in Nat /\ n > 0 /\ Len(ss) \in Nat /\ n <= Len(ss)
    OBVIOUS
  <2> HIDE DEF b
  <2>2. PICK g : Joining(g, b, n) /\ FlattenSeq(b) = g[n]
    BY <2>1, FlattenIsJoining
  <2>3. Joining(g, ss, n)
    <3>1. ASSUME NEW j \in 1 .. n - 1 PROVE g[j + 1] = g[j] \o ss[j + 1]
      <4>1. j + 1 \in 1 .. n
        BY <2>1
      <4>2. b[j + 1] = ss[j + 1]
        BY <2>1, <4>1
      <4>3. g[j + 1] = g[j] \o b[j + 1]
        BY <2>2 DEF Joining
      <4> QED BY <4>2, <4>3
    <3>2. g[1] = ss[1]
      <4>1. g[1] = b[1]
        BY <2>1, <2>2 DEF Joining
      <4>2. 1 \in 1 .. n
        BY <2>1
      <4>3. b[1] = ss[1]
        BY <2>1, <4>2, Zenon
      <4> QED BY <4>1, <4>3
    <3>3. g = [j \in 1 .. n |-> g[j]]
      BY <2>2 DEF Joining
    <3> QED BY <3>1, <3>2, <3>3 DEF Joining
  <2>4. g[n] = f[n]
    <3>1. \A j \in 1 .. n : g[j] = f[j]
      <4>1. n \in Nat /\ Len(ss) \in Nat /\ n <= Len(ss)
        BY <2>1
      <4> DEFINE l == Len(ss)
      <4>2. l \in Nat /\ n <= l /\ Joining(f, ss, l)
        BY <1>1, <4>1
      <4> HIDE DEF l
      <4> QED BY ONLY <2>3, <4>1, <4>2, JoiningUnique
    <3>2. n \in 1 .. n
      BY <2>1
    <3> QED BY <3>1, <3>2, Zenon
  <2> QED BY <2>2, <2>4 DEF b
<1>3. \A n \in 1 .. Len(ss) : f[n] \in Seq(S)
  <2> DEFINE H == {n \in Nat : n \in 1 .. Len(ss) => f[n] \in Seq(S)}
  <2>1. 0 \in H
    OBVIOUS
  <2>2. ASSUME NEW n \in Nat, n \in H PROVE n + 1 \in H
    <3> SUFFICES ASSUME n + 1 \in 1 .. Len(ss) PROVE f[n + 1] \in Seq(S)
      OBVIOUS
    <3>1. ss[n + 1] \in Seq(S) /\ (n > 0 => n \in 1 .. Len(ss) - 1)
      OBVIOUS
    <3>2. CASE n = 0
      BY <1>1, <3>1, <3>2 DEF Joining
    <3>3. CASE n > 0
      <4>1. f[n + 1] = f[n] \o ss[n + 1]
        BY <1>1, <3>1, <3>3 DEF Joining
      <4>2. f[n] \in Seq(S)
        BY <2>2, <3>3
      <4> QED BY <3>1, <4>1, <4>2
    <3> QED BY <3>2, <3>3
  <2>3. \A n \in Nat : n \in H => n + 1 \in H
    BY <2>2
  <2> HIDE DEF H
  <2>4. Nat \subseteq H
    BY <2>1, <2>3, Induction
  <2> QED BY <2>4 DEF H
<1>4. k \in Nat /\ ss[k] \in Seq(S) /\ (k = 1 \/ k > 1)
  OBVIOUS
<1>5. CASE k = 1
  <2>1. a(0) = <<>> /\ FlattenSeq(<<>>) = <<>>
    BY DEF FlattenSeq
  <2>2. FlattenSeq(a(1)) = ss[1]
    <3>1. f[1] = ss[1]
      BY <1>1, <1>5 DEF Joining
    <3> QED BY <1>2, <1>5, <3>1
  <2>3. <<>> \o ss[k] = ss[k]
    BY <1>4, ConcatEmptySeq
  <2>4. a(k - 1) = <<>> /\ a(k) = a(1) /\ ss[k] = ss[1]
    BY <1>5, <2>1
  <2> HIDE DEF a
  <2>5. /\ FlattenSeq(a(k - 1)) = <<>> /\ <<>> \in Seq(S)
        /\ FlattenSeq(a(k)) = ss[k]
    BY <2>1, <2>2, <2>4, EmptySeq
  <2> QED BY <1>4, <2>3, <2>5 DEF a
<1>6. CASE k > 1
  <2>1. k - 1 \in 1 .. Len(ss) /\ k \in 1 .. Len(ss)
    BY <1>6
  <2>2. f[k] = f[k - 1] \o ss[k]
    <3>1. k - 1 \in 1 .. Len(ss) - 1 /\ (k - 1) + 1 = k
      BY <1>6
    <3>2. f[(k - 1) + 1] = f[k - 1] \o ss[(k - 1) + 1]
      BY <1>1, <3>1 DEF Joining
    <3> QED BY <3>1, <3>2
  <2>3. FlattenSeq(a(k)) = f[k] /\ FlattenSeq(a(k - 1)) = f[k - 1]
    BY <1>2, <2>1
  <2> QED BY <1>3, <2>1, <2>2, <2>3
<1> QED BY <1>4, <1>5, <1>6

(* How far the first k of the parts reach. *)
End(ss, k) == Len(FlattenSeq(SubSeq(ss, 1, k)))

LEMMA EndsGrow ==
  ASSUME NEW S, NEW ss \in Seq(Seq(S))
  PROVE  /\ End(ss, 0) = 0
         /\ \A k \in 0 .. Len(ss) : End(ss, k) \in Nat
         /\ \A k \in 1 .. Len(ss) : End(ss, k) = End(ss, k - 1) + Len(ss[k])
<1>1. SubSeq(ss, 1, 0) = <<>> /\ FlattenSeq(<<>>) = <<>>
  BY SubSeqEmpty DEF FlattenSeq
<1>2. End(ss, 0) = 0
  BY <1>1, EmptySeq DEF End
<1>3. ASSUME NEW k \in 1 .. Len(ss)
      PROVE  End(ss, k) \in Nat /\ End(ss, k) = End(ss, k - 1) + Len(ss[k])
  <2> DEFINE before == FlattenSeq(SubSeq(ss, 1, k - 1))
             after == FlattenSeq(SubSeq(ss, 1, k))
  <2>1. before \in Seq(S) /\ after \in Seq(S) /\ after = before \o ss[k]
    BY FlattenAppends
  <2>2. End(ss, k) = Len(after) /\ End(ss, k - 1) = Len(before)
    BY DEF End
  <2>3. ss[k] \in Seq(S)
    OBVIOUS
  <2> HIDE DEF before, after
  <2> QED BY <2>1, <2>2, <2>3, ConcatProperties
<1>4. \A k \in 0 .. Len(ss) : k = 0 \/ k \in 1 .. Len(ss)
  OBVIOUS
<1> QED BY <1>2, <1>3, <1>4

LEMMA EndsAreOrdered ==
  ASSUME NEW S, NEW ss \in Seq(Seq(S)),
         NEW j \in 0 .. Len(ss), NEW k \in j .. Len(ss)
  PROVE  End(ss, j) <= End(ss, k)
<1> DEFINE e(n) == End(ss, n)
           H == {n \in Nat : j + n <= Len(ss) => e(j) <= e(j + n)}
<1>1. Len(ss) \in Nat
  OBVIOUS
<1>2. 0 \in H
  BY <1>1, EndsGrow
<1>3. ASSUME NEW n \in Nat, n \in H PROVE n + 1 \in H
  <2> SUFFICES ASSUME j + (n + 1) <= Len(ss) PROVE e(j) <= e(j + (n + 1))
    OBVIOUS
  <2> DEFINE m == j + (n + 1)
  <2>1. m \in 1 .. Len(ss) /\ m - 1 = j + n /\ j + n \in 0 .. Len(ss) /\ ss[m] \in Seq(S)
    BY <1>1
  <2> HIDE DEF m, e
  <2>2. e(m) = e(m - 1) + Len(ss[m]) /\ Len(ss[m]) \in Nat /\ e(j + n) \in Nat
        /\ e(j) \in Nat /\ e(m) \in Nat
    BY <1>1, <2>1, EndsGrow DEF e
  <2>3. e(j) <= e(j + n)
    BY <1>1, <1>3, <2>1
  <2>4. e(m - 1) = e(j + n)
    BY <2>1
  <2>5. e(j) <= e(m)
    BY <2>2, <2>3, <2>4
  <2> QED BY <2>5 DEF m
<1>4. k - j \in H
  <2>1. \A n \in Nat : n \in H => n + 1 \in H
    BY <1>3
  <2> HIDE DEF H
  <2>2. Nat \subseteq H
    BY <1>2, <2>1, Induction
  <2>3. k - j \in Nat
    BY <1>1
  <2> QED BY <2>2, <2>3
<1>5. j + (k - j) = k /\ k <= Len(ss)
  BY <1>1
<1> QED BY <1>4, <1>5

(* What a join holds, part by part. *)
LEMMA FlattenParts ==
  ASSUME NEW S, NEW ss \in Seq(Seq(S))
  PROVE  /\ FlattenSeq(ss) \in Seq(S) /\ Len(FlattenSeq(ss)) = End(ss, Len(ss))
         /\ \A k \in 1 .. Len(ss) : \A j \in 1 .. Len(ss[k]) :
              FlattenSeq(ss)[End(ss, k - 1) + j] = ss[k][j]
<1> DEFINE f(n) == FlattenSeq(SubSeq(ss, 1, n))
           e(n) == End(ss, n)
<1>1. Len(ss) \in Nat
  OBVIOUS
<1>2. SubSeq(ss, 1, Len(ss)) = ss
  BY SubSeqFull
<1>3. \A n \in 0 .. Len(ss) : f(n) \in Seq(S) /\ e(n) = Len(f(n)) /\ e(n) \in Nat
  <2>1. f(0) = <<>> /\ <<>> \in Seq(S)
    BY SubSeqEmpty, EmptySeq DEF FlattenSeq
  <2>2. \A n \in 1 .. Len(ss) : f(n) \in Seq(S)
    BY FlattenAppends
  <2>3. \A n \in 0 .. Len(ss) : n = 0 \/ n \in 1 .. Len(ss)
    OBVIOUS
  <2>4. \A n \in 0 .. Len(ss) : e(n) = Len(f(n))
    BY DEF End
  <2>5. \A n \in 0 .. Len(ss) : e(n) \in Nat
    BY EndsGrow
  <2> HIDE DEF f, e
  <2> QED BY <2>1, <2>2, <2>3, <2>4, <2>5
<1>4. ASSUME NEW k \in 1 .. Len(ss), NEW j \in 1 .. Len(ss[k])
      PROVE  f(Len(ss))[e(k - 1) + j] = ss[k][j]
  <2> DEFINE x == e(k - 1) + j
             H == {n \in Nat : k + n <= Len(ss) => f(k + n)[x] = ss[k][j]}
  <2>0. /\ ss[k] \in Seq(S) /\ k - 1 \in 0 .. Len(ss) /\ Len(ss[k]) \in Nat
        /\ e(k) = e(k - 1) + Len(ss[k])
    BY <1>1, EndsGrow
  <2>1. x \in 1 .. e(k)
    <3>1. e(k - 1) \in Nat
      BY <1>3, <2>0
    <3> HIDE DEF e
    <3> QED BY <2>0, <3>1
  <2>2. 0 \in H
    <3> SUFFICES f(k)[x] = ss[k][j]
      OBVIOUS
    <3>1. f(k) = f(k - 1) \o ss[k]
      BY FlattenAppends
    <3> HIDE DEF f, e
    <3>2. \A y \in 1 .. Len(f(k - 1)) + Len(ss[k]) : (f(k - 1) \o ss[k])[y] =
            IF y <= Len(f(k - 1)) THEN f(k - 1)[y] ELSE ss[k][y - Len(f(k - 1))]
      BY <1>3, <2>0, ConcatProperties
    <3>3. x \in 1 .. Len(f(k - 1)) + Len(ss[k]) /\ ~(x <= Len(f(k - 1)))
          /\ x - Len(f(k - 1)) = j
      <4>1. e(k - 1) = Len(f(k - 1)) /\ e(k - 1) \in Nat
        BY <1>3, <2>0
      <4>2. x = Len(f(k - 1)) + j /\ Len(f(k - 1)) \in Nat
        BY <4>1
      <4>3. j \in Nat /\ 1 <= j /\ j <= Len(ss[k]) /\ Len(ss[k]) \in Nat
        BY <2>0
      <4> HIDE DEF x, H
      <4> QED BY <4>2, <4>3
    <3>4. (f(k - 1) \o ss[k])[x] = ss[k][x - Len(f(k - 1))]
      <4> HIDE DEF x
      <4> QED BY <3>2, <3>3, Zenon
    <3>5. ss[k][x - Len(f(k - 1))] = ss[k][j]
      BY <3>3
    <3> QED BY <3>1, <3>4, <3>5
  <2>3. ASSUME NEW n \in Nat, n \in H PROVE n + 1 \in H
    <3> SUFFICES ASSUME k + (n + 1) <= Len(ss) PROVE f(k + (n + 1))[x] = ss[k][j]
      OBVIOUS
    <3> DEFINE m == k + (n + 1)
    <3>1. /\ m \in 1 .. Len(ss) /\ m - 1 = k + n /\ k + n \in 0 .. Len(ss)
          /\ k \in 0 .. Len(ss) /\ k + n \in k .. Len(ss) /\ k + n <= Len(ss)
          /\ ss[m] \in Seq(S)
      BY <1>1
    <3>2. f(k + n)[x] = ss[k][j]
      BY <2>3, <3>1
    <3>3. e(k) <= e(k + n)
      BY <3>1, EndsAreOrdered
    <3> HIDE DEF m
    <3>4. f(m) = f(m - 1) \o ss[m]
      BY <3>1, FlattenAppends
    <3>4a. f(m - 1) = f(k + n)
      BY <3>1
    <3> HIDE DEF f, e
    <3>5. x \in 1 .. Len(f(k + n)) /\ f(k + n) \in Seq(S)
      BY <1>3, <2>1, <3>1, <3>3
    <3> HIDE DEF x
    <3>6. (f(k + n) \o ss[m])[x] = f(k + n)[x]
      BY <3>1, <3>5
    <3>7. f(m)[x] = ss[k][j]
      BY <3>2, <3>4, <3>4a, <3>6
    <3> QED BY <3>7 DEF m
  <2>4. \A n \in Nat : n \in H => n + 1 \in H
    BY <2>3
  <2>5. Len(ss) - k \in H
    <3> HIDE DEF H
    <3>1. Nat \subseteq H
      BY <2>2, <2>4, Induction
    <3>2. Len(ss) - k \in Nat
      BY <1>1
    <3> QED BY <3>1, <3>2
  <2>6. k + (Len(ss) - k) = Len(ss)
    BY <1>1
  <2> QED BY <2>5, <2>6
<1>5. f(Len(ss)) = FlattenSeq(ss)
  BY <1>2
<1> QED BY <1>1, <1>3, <1>4, <1>5

-----------------------------------------------------------------------------
(* Where a character is found, and what a stream is after it.              *)

LEMMA PositionFound ==
  ASSUME NEW S, NEW s \in Seq(S), NEW c, NEW q \in 1 .. Len(s),
         s[q] = c, \A j \in 1 .. q - 1 : s[j] # c
  PROVE  Position(s, c) = q
<1> DEFINE I == {j \in 1 .. Len(s) : s[j] = c}
<1>1. Position(s, c) = IF I # {} THEN Min(I) ELSE 0
  BY DEF Position, SelectInSeq
<1>2. q \in I /\ \A y \in I : q <= y
  OBVIOUS
<1>3. \A x \in I : (\A y \in I : x <= y) => x = q
  BY <1>2
<1> HIDE DEF I
<1>4. Min(I) = q
  BY <1>2, <1>3 DEF Min
<1> QED BY <1>1, <1>2, <1>4

LEMMA PositionNone ==
  ASSUME NEW S, NEW s \in Seq(S), NEW c, \A j \in 1 .. Len(s) : s[j] # c
  PROVE  Position(s, c) = 0
<1> DEFINE I == {j \in 1 .. Len(s) : s[j] = c}
<1>1. Position(s, c) = IF I # {} THEN Min(I) ELSE 0
  BY DEF Position, SelectInSeq
<1>2. I = {}
  OBVIOUS
<1> QED BY <1>1, <1>2

LEMMA LastPositionFound ==
  ASSUME NEW S, NEW s \in Seq(S), NEW c, NEW q \in 1 .. Len(s),
         s[q] = c, \A j \in q + 1 .. Len(s) : s[j] # c
  PROVE  LastPosition(s, c) = q
<1> DEFINE I == {j \in 1 .. Len(s) : s[j] = c}
<1>1. LastPosition(s, c) = IF I # {} THEN Max(I) ELSE 0
  BY DEF LastPosition, SelectLastInSeq
<1>2. q \in I /\ \A y \in I : q >= y
  OBVIOUS
<1>3. \A x \in I : (\A y \in I : x >= y) => x = q
  BY <1>2
<1> HIDE DEF I
<1>4. Max(I) = q
  BY <1>2, <1>3 DEF Max
<1> QED BY <1>1, <1>2, <1>4

LEMMA LastPositionNone ==
  ASSUME NEW S, NEW s \in Seq(S), NEW c, \A j \in 1 .. Len(s) : s[j] # c
  PROVE  LastPosition(s, c) = 0
<1> DEFINE I == {j \in 1 .. Len(s) : s[j] = c}
<1>1. LastPosition(s, c) = IF I # {} THEN Max(I) ELSE 0
  BY DEF LastPosition, SelectLastInSeq
<1>2. I = {}
  OBVIOUS
<1> QED BY <1>1, <1>2

LEMMA FromElements ==
  ASSUME NEW S, NEW s \in Seq(S), NEW n \in 1 .. Len(s) + 1
  PROVE  /\ From(s, n) \in Seq(S) /\ Len(From(s, n)) = Len(s) + 1 - n
         /\ \A j \in 1 .. Len(s) + 1 - n : From(s, n)[j] = s[n + j - 1]
<1>1. Len(s) \in Nat /\ \A j \in n .. Len(s) : s[j] \in S
  OBVIOUS
<1>2. \A j \in 1 .. Len(s) - n + 1 : SubSeq(s, n, Len(s))[j] = s[n + j - 1]
  BY <1>1, SubSeqProperties
<1> QED BY <1>1, <1>2, FromProperties DEF From

LEMMA GoodFields ==
  ASSUME NEW r, NEW p, r = [pos |-> p, eof |-> FALSE, fail |-> FALSE]
  PROVE  r.pos = p /\ r.eof = FALSE /\ Good(r)
BY DEF Good

(* A line that ends, at q: the text from where the stream is up to there.  *)
ReadUpto(line, s, q) ==
  /\ line.is = [pos |-> q + 1, eof |-> FALSE, fail |-> FALSE]
  /\ Good(line.is) /\ line.is.pos = q + 1
  /\ line.str = SubSeq(text, s.pos, q - 1)

LEMMA GetLineFound ==
  ASSUME text \in Seq(Characters), NEW s \in Stream, Good(s), NEW str, NEW delim,
         NEW q \in s.pos .. Len(text), text[q] = delim,
         \A j \in s.pos .. q - 1 : text[j] # delim
  PROVE  ReadUpto(GetLine(s, str, delim), s, q)
<1> DEFINE rest == From(text, s.pos)
           n == Position(rest, delim)
           m == q - s.pos + 1
<1>1. s.pos \in 1 .. Len(text) + 1 /\ s.eof \in BOOLEAN /\ s.fail \in BOOLEAN /\ Len(text) \in Nat
  BY DEF Stream
<1>2. rest \in Seq(Characters) /\ Len(rest) = Len(text) + 1 - s.pos
      /\ \A j \in 1 .. Len(text) + 1 - s.pos : rest[j] = text[s.pos + j - 1]
  <2> HIDE DEF rest
  <2> QED BY <1>1, FromElements DEF rest
<1>3. m \in 1 .. Len(rest) /\ s.pos + m - 1 = q /\ s.pos + m = q + 1 /\ m # 0
  <2> DEFINE p == s.pos
             lr == Len(rest)
             lt == Len(text)
  <2>1. p \in 1 .. lt + 1 /\ lt \in Nat /\ lr = lt + 1 - p /\ q \in p .. lt
        /\ m = q - p + 1
    BY <1>1, <1>2
  <2> HIDE DEF p, lr, lt, m
  <2>2. m \in 1 .. lr /\ p + m - 1 = q /\ p + m = q + 1 /\ m # 0
    BY ONLY <2>1
  <2> QED BY <2>2 DEF p, lr
<1>4. rest[m] = delim
  BY <1>1, <1>2, <1>3
<1>5. ASSUME NEW j \in 1 .. m - 1 PROVE rest[j] # delim
  <2>1. s.pos + j - 1 \in s.pos .. q - 1 /\ j \in 1 .. Len(text) + 1 - s.pos
    <3>1. j \in Int /\ 1 <= j /\ j <= q - s.pos /\ q \in Int /\ q <= Len(text)
      BY <1>1
    <3> HIDE DEF m
    <3> QED BY <1>1, <3>1
  <2> QED BY <1>2, <2>1
<1> HIDE DEF rest, m
<1>6. n = m
  BY <1>2, <1>3, <1>4, <1>5, PositionFound
<1> DEFINE X == [s EXCEPT !.pos = @ + n]
           Y == SubSeq(rest, 1, n - 1)
           line == GetLine(s, str, delim)
<1>7. line = [is |-> X, str |-> Y]
  BY <1>3, <1>6 DEF GetLine, rest
<1>8. line.is = X /\ line.str = Y
  <2> HIDE DEF X, Y, line
  <2> QED BY <1>7
<1>9. X = [pos |-> q + 1, eof |-> FALSE, fail |-> FALSE]
  <2> HIDE DEF Y, line
  <2>1. s.eof = FALSE /\ s.fail = FALSE
    BY <1>1 DEF Good
  <2>2. s.pos + n = q + 1
    BY <1>3, <1>6
  <2> DEFINE p == s.pos
  <2>3. s = [pos |-> p, eof |-> FALSE, fail |-> FALSE]
    BY <2>1 DEF Stream
  <2>4. X = [s EXCEPT !.pos = q + 1]
    BY <2>2
  <2> HIDE DEF n, p, X
  <2> QED BY <2>3, <2>4
<1>10. Y = SubSeq(text, s.pos, q - 1)
  <2> DEFINE Z == SubSeq(text, s.pos, q - 1)
  <2>1. \A j \in s.pos .. q - 1 : text[j] \in Characters
    BY <1>1
  <2>2. q - 1 \in Int /\ s.pos \in Int /\ (q - 1) - s.pos + 1 = m - 1 /\ m - 1 \in Int
        /\ m - 1 >= 0
    <3> DEFINE p == s.pos
    <3>1. m = q - p + 1 /\ p \in Int /\ q \in Int /\ p <= q
      BY <1>1 DEF m
    <3> HIDE DEF p, m
    <3>2. /\ q - 1 \in Int /\ (q - 1) - p + 1 = m - 1 /\ m - 1 \in Int
          /\ m - 1 >= 0
      BY ONLY <3>1
    <3> QED BY <3>1, <3>2 DEF p
  <2>3. Z \in Seq(Characters) /\ Len(Z) = m - 1
        /\ \A j \in 1 .. m - 1 : Z[j] = text[s.pos + j - 1]
    <3> DEFINE x == s.pos
               y == q - 1
    <3>0. x \in Int /\ y \in Int /\ Z = SubSeq(text, x, y)
          /\ \A j \in x .. y : text[j] \in Characters
      BY <2>1, <2>2
    <3> HIDE DEF x, y, Z
    <3>1. /\ Z \in Seq(Characters)
          /\ Len(Z) = IF x <= y THEN y - x + 1 ELSE 0
          /\ \A j \in 1 .. y - x + 1 : Z[j] = text[x + j - 1]
      BY ONLY <3>0, text \in Seq(Characters), SubSeqProperties
    <3>2. y - x + 1 = m - 1
      BY <2>2 DEF x, y
    <3>3. m - 1 \in Int /\ m - 1 >= 0
      BY <2>2
    <3> QED BY ONLY <3>0, <3>1, <3>2, <3>3 DEF x
  <2>4. Y \in Seq(Characters) /\ Len(Y) = m - 1
        /\ \A j \in 1 .. m - 1 : Y[j] = rest[j]
    <3>1. \A j \in 1 .. m - 1 : rest[j] \in Characters
      BY <1>2, <1>3
    <3> HIDE DEF Y
    <3>2. Y = SubSeq(rest, 1, m - 1)
      BY <1>6 DEF Y
    <3>3. /\ Y \in Seq(Characters)
          /\ Len(Y) = IF 1 <= m - 1 THEN m - 1 - 1 + 1 ELSE 0
          /\ \A j \in 1 .. (m - 1) - 1 + 1 : Y[j] = rest[1 + j - 1]
      BY <2>2, <3>1, <3>2, SubSeqProperties
    <3> QED BY <2>2, <3>3
  <2>5. \A j \in 1 .. m - 1 : Y[j] = Z[j]
    <3> HIDE DEF Y, Z
    <3>1. \A j \in 1 .. m - 1 : j \in 1 .. Len(text) + 1 - s.pos
      BY <1>1, <1>2, <1>3
    <3> QED BY <1>2, <2>3, <2>4, <3>1
  <2> HIDE DEF Y, Z
  <2>6. Y = Z
    BY <2>3, <2>4, <2>5, SeqEqual
  <2> QED BY <2>6 DEF Z
<1> DEFINE p == q + 1
<1> HIDE DEF X, Y, line, p
<1>11. X.pos = p /\ Good(X)
  BY <1>9, GoodFields DEF p
<1>12. ReadUpto(line, s, q)
  BY <1>8, <1>9, <1>10, <1>11 DEF ReadUpto, p
<1> QED BY <1>12 DEF line

(* A line that the text ends: the rest of it, and the end of the stream.   *)
LEMMA GetLineCut ==
  ASSUME text \in Seq(Characters), NEW s \in Stream, Good(s), NEW str, NEW delim,
         \A j \in s.pos .. Len(text) : text[j] # delim
  PROVE  /\ GetLine(s, str, delim).is.eof /\ GetLine(s, str, delim).is.pos = Len(text) + 1
         /\ GetLine(s, str, delim).is.fail = (s.pos = Len(text) + 1)
         /\ GetLine(s, str, delim).str = SubSeq(text, s.pos, Len(text))
<1> DEFINE rest == From(text, s.pos)
           n == Position(rest, delim)
           line == GetLine(s, str, delim)
<1>1. s.pos \in 1 .. Len(text) + 1 /\ Len(text) \in Nat
  BY DEF Stream
<1>2. rest \in Seq(Characters) /\ Len(rest) = Len(text) + 1 - s.pos
      /\ \A j \in 1 .. Len(text) + 1 - s.pos : rest[j] = text[s.pos + j - 1]
  <2> HIDE DEF rest
  <2> QED BY <1>1, FromElements DEF rest
<1>3. ASSUME NEW j \in 1 .. Len(rest) PROVE rest[j] # delim
  <2>1. s.pos + j - 1 \in s.pos .. Len(text)
    BY <1>1, <1>2
  <2> QED BY <1>2, <2>1
<1> HIDE DEF rest
<1>4. n = 0
  BY <1>2, <1>3, PositionNone
<1>5. line = [is |-> [pos |-> Len(text) + 1, eof |-> TRUE, fail |-> rest = <<>>],
              str |-> rest]
  BY <1>4 DEF GetLine, rest
<1> DEFINE X == [pos |-> Len(text) + 1, eof |-> TRUE, fail |-> rest = <<>>]
<1>6. line.is = X /\ line.str = rest
  <2> HIDE DEF line, X
  <2>1. line = [is |-> X, str |-> rest]
    BY <1>5 DEF X
  <2> QED BY <2>1
<1>7. X.pos = Len(text) + 1 /\ X.eof = TRUE /\ X.fail = (rest = <<>>)
  OBVIOUS
<1>8. (rest = <<>>) = (s.pos = Len(text) + 1)
  BY <1>1, <1>2, EmptySeq
<1> HIDE DEF line, X
<1> QED BY <1>6, <1>7, <1>8 DEF rest, From, line

(* The same for std::istream::ignore. *)
LEMMA IgnoreLineFound ==
  ASSUME text \in Seq(Characters), NEW s \in Stream, Good(s),
         NEW q \in s.pos .. Len(text), text[q] = "\n",
         \A j \in s.pos .. q - 1 : text[j] # "\n"
  PROVE  IgnoreLine(s) = [pos |-> q + 1, eof |-> FALSE, fail |-> FALSE]
<1> DEFINE rest == From(text, s.pos)
           n == Position(rest, "\n")
           m == q - s.pos + 1
<1>1. s.pos \in 1 .. Len(text) + 1 /\ Len(text) \in Nat
  BY DEF Stream
<1>2. rest \in Seq(Characters) /\ Len(rest) = Len(text) + 1 - s.pos
      /\ \A j \in 1 .. Len(text) + 1 - s.pos : rest[j] = text[s.pos + j - 1]
  <2> HIDE DEF rest
  <2> QED BY <1>1, FromElements DEF rest
<1>3. m \in 1 .. Len(rest) /\ s.pos + m - 1 = q /\ s.pos + m = q + 1 /\ m # 0
  <2> DEFINE p == s.pos
             lr == Len(rest)
             lt == Len(text)
  <2>1. p \in 1 .. lt + 1 /\ lt \in Nat /\ lr = lt + 1 - p /\ q \in p .. lt
        /\ m = q - p + 1
    BY <1>1, <1>2
  <2> HIDE DEF p, lr, lt, m
  <2>2. m \in 1 .. lr /\ p + m - 1 = q /\ p + m = q + 1 /\ m # 0
    BY ONLY <2>1
  <2> QED BY <2>2 DEF p, lr
<1>4. rest[m] = "\n"
  BY <1>1, <1>2, <1>3
<1>5. ASSUME NEW j \in 1 .. m - 1 PROVE rest[j] # "\n"
  <2>1. s.pos + j - 1 \in s.pos .. q - 1 /\ j \in 1 .. Len(text) + 1 - s.pos
    <3>1. j \in Int /\ 1 <= j /\ j <= q - s.pos /\ q \in Int /\ q <= Len(text)
      BY <1>1
    <3> HIDE DEF m
    <3> QED BY <1>1, <3>1
  <2> QED BY <1>2, <2>1
<1> HIDE DEF rest, m
<1>6. n = m
  BY <1>2, <1>3, <1>4, <1>5, PositionFound
<1>7. IgnoreLine(s) = [s EXCEPT !.pos = @ + n]
  BY <1>3, <1>6 DEF IgnoreLine, rest
<1>8. s.eof = FALSE /\ s.fail = FALSE
  BY DEF Good, Stream
<1> QED BY <1>3, <1>6, <1>7, <1>8 DEF Stream

LEMMA IgnoreLineCut ==
  ASSUME text \in Seq(Characters), NEW s \in Stream, Good(s),
         \A j \in s.pos .. Len(text) : text[j] # "\n"
  PROVE  IgnoreLine(s).eof
<1> DEFINE rest == From(text, s.pos)
           n == Position(rest, "\n")
<1>1. s.pos \in 1 .. Len(text) + 1 /\ Len(text) \in Nat
  BY DEF Stream
<1>2. rest \in Seq(Characters) /\ Len(rest) = Len(text) + 1 - s.pos
      /\ \A j \in 1 .. Len(text) + 1 - s.pos : rest[j] = text[s.pos + j - 1]
  <2> HIDE DEF rest
  <2> QED BY <1>1, FromElements DEF rest
<1>3. ASSUME NEW j \in 1 .. Len(rest) PROVE rest[j] # "\n"
  <2>1. s.pos + j - 1 \in s.pos .. Len(text)
    BY <1>1, <1>2
  <2> QED BY <1>2, <2>1
<1> HIDE DEF rest
<1>4. n = 0
  BY <1>2, <1>3, PositionNone
<1>5. IgnoreLine(s) = [s EXCEPT !.pos = Len(text) + 1, !.eof = TRUE]
  BY <1>4 DEF IgnoreLine, rest
<1> QED BY <1>5 DEF Stream

-----------------------------------------------------------------------------
(* The map of pairs in which the first value of a key counts grows by      *)
(* inserting one pair after the other, which is what the loops do.         *)

LEMMA FirstValuesDomain ==
  ASSUME NEW S, NEW pairs \in Seq(S)
  PROVE  DOMAIN FirstValues(pairs) = {pairs[j][1] : j \in 1 .. Len(pairs)}
<1>1. DOMAIN FirstValues(pairs) = {p[1] : p \in Range(pairs)}
  BY DEF FirstValues
<1>2. Range(pairs) = {pairs[j] : j \in 1 .. Len(pairs)}
  BY DEF Range
<1> QED BY <1>1, <1>2

LEMMA FirstValueIs ==
  ASSUME NEW S, NEW pairs \in Seq(S), NEW q \in 1 .. Len(pairs),
         \A j \in 1 .. q - 1 : pairs[j][1] # pairs[q][1]
  PROVE  FirstValues(pairs)[pairs[q][1]] = pairs[q][2]
<1> DEFINE key == pairs[q][1]
           I == {j \in 1 .. Len(pairs) : pairs[j][1] = key}
           n == SelectInSeq(pairs, LAMBDA p : p[1] = key)
<1>1. n = IF I # {} THEN Min(I) ELSE 0
  BY DEF SelectInSeq
<1>2. q \in I /\ \A y \in I : q <= y
  OBVIOUS
<1>3. \A x \in I : (\A y \in I : x <= y) => x = q
  BY <1>2
<1>4. n = q
  <2> HIDE DEF I, n
  <2>1. Min(I) = q
    BY <1>2, <1>3 DEF Min
  <2> QED BY <1>1, <1>2, <2>1
<1>5. key \in {p[1] : p \in Range(pairs)}
  BY DEF Range
<1>6. FirstValues(pairs)[key] = pairs[n][2]
  BY <1>5 DEF FirstValues
<1> QED BY <1>4, <1>6

(* Each key has a first place. *)
LEMMA FirstPlace ==
  ASSUME NEW S, NEW pairs \in Seq(S), NEW key \in DOMAIN FirstValues(pairs)
  PROVE  \E q \in 1 .. Len(pairs) :
           /\ pairs[q][1] = key
           /\ \A j \in 1 .. q - 1 : pairs[j][1] # key
           /\ FirstValues(pairs)[key] = pairs[q][2]
<1> DEFINE I == {j \in 1 .. Len(pairs) : pairs[j][1] = key}
<1>1. I # {} /\ I \subseteq Nat
  <2>1. key \in {pairs[j][1] : j \in 1 .. Len(pairs)}
    BY FirstValuesDomain
  <2> QED BY <2>1
<1>2. PICK q \in I : \A y \in I : q <= y
  <2> HIDE DEF I
  <2> QED BY <1>1, LeastIndex
<1>3. q \in 1 .. Len(pairs) /\ pairs[q][1] = key
  OBVIOUS
<1>4. \A j \in 1 .. q - 1 : pairs[j][1] # key
  BY <1>2
<1>5. FirstValues(pairs)[pairs[q][1]] = pairs[q][2]
  BY <1>3, <1>4, FirstValueIs
<1> QED BY <1>3, <1>4, <1>5

(* What comes later in a sequence of pairs changes no value. *)
LEMMA FirstValuesKept ==
  ASSUME NEW S, NEW a \in Seq(S), NEW b \in Seq(S), Len(a) <= Len(b),
         \A j \in 1 .. Len(a) : a[j] = b[j],
         NEW key \in DOMAIN FirstValues(a)
  PROVE  key \in DOMAIN FirstValues(b) /\ FirstValues(b)[key] = FirstValues(a)[key]
<1>1. PICK q \in 1 .. Len(a) : /\ a[q][1] = key
                               /\ \A j \in 1 .. q - 1 : a[j][1] # key
                               /\ FirstValues(a)[key] = a[q][2]
  BY FirstPlace
<1>2. q \in 1 .. Len(b) /\ a[q] = b[q] /\ \A j \in 1 .. q - 1 : j \in 1 .. Len(a)
  OBVIOUS
<1>3. b[q][1] = key /\ \A j \in 1 .. q - 1 : b[j][1] # b[q][1]
  BY <1>1, <1>2
<1>4. FirstValues(b)[b[q][1]] = b[q][2]
  BY <1>2, <1>3, FirstValueIs
<1>5. key \in DOMAIN FirstValues(b)
  BY <1>2, <1>3, FirstValuesDomain
<1> QED BY <1>1, <1>2, <1>3, <1>4, <1>5

LEMMA FirstValuesEmpty == FirstValues(<<>>) = <<>>
<1>1. <<>> \in Seq({}) /\ Len(<<>>) = 0
  BY EmptySeq
<1>2. DOMAIN FirstValues(<<>>) = {}
  <2> DEFINE e == <<>>
  <2> HIDE DEF e
  <2>1. e \in Seq({}) /\ Len(e) = 0
    BY <1>1 DEF e
  <2>2. DOMAIN FirstValues(e) = {e[j][1] : j \in 1 .. Len(e)}
    BY <2>1, FirstValuesDomain
  <2>3. DOMAIN FirstValues(e) = {}
    BY <2>1, <2>2
  <2> QED BY <2>3 DEF e
<1>3. FirstValues(<<>>) = [k \in DOMAIN FirstValues(<<>>) |-> FirstValues(<<>>)[k]]
  BY DEF FirstValues
<1> HIDE DEF FirstValues
<1> QED BY <1>2, <1>3

(* unordered_map::insert makes one map after the other. *)
LEMMA FirstValuesInsert ==
  ASSUME NEW S, NEW pairs \in Seq(S), NEW more \in Seq(S),
         Len(more) = Len(pairs) + 1,
         \A j \in 1 .. Len(pairs) : more[j] = pairs[j]
  PROVE  FirstValues(more) =
           Insert(FirstValues(pairs), more[Len(more)][1], more[Len(more)][2])
<1> DEFINE p == more[Len(more)]
           f == FirstValues(pairs)
           g == FirstValues(more)
           new == Insert(f, p[1], p[2])
<1>1. Len(pairs) \in Nat /\ Len(more) \in Nat
  OBVIOUS
<1>2. DOMAIN g = DOMAIN f \union {p[1]}
  <2>1. DOMAIN g = {more[j][1] : j \in 1 .. Len(more)}
    BY FirstValuesDomain
  <2>2. DOMAIN f = {pairs[j][1] : j \in 1 .. Len(pairs)}
    BY FirstValuesDomain
  <2>3. \A j \in 1 .. Len(more) : j \in 1 .. Len(pairs) \/ j = Len(more)
    BY <1>1
  <2>4. \A j \in 1 .. Len(pairs) : j \in 1 .. Len(more)
    BY <1>1
  <2>5. Len(more) \in 1 .. Len(more)
    BY <1>1
  <2> HIDE DEF f, g
  <2> QED BY <2>1, <2>2, <2>3, <2>4, <2>5
<1>3. DOMAIN new = DOMAIN f \union {p[1]}
  BY DEF Insert
<1>4. ASSUME NEW k \in DOMAIN f \union {p[1]} PROVE g[k] = new[k]
  <2>1. CASE k \in DOMAIN f
    <3>1. g[k] = f[k]
      BY <1>1, <2>1, FirstValuesKept
    <3>2. new[k] = f[k]
      <4> HIDE DEF f, p
      <4> QED BY <2>1 DEF Insert
    <3> QED BY <3>1, <3>2
  <2>2. CASE k \notin DOMAIN f
    <3>1. k = p[1]
      BY <2>2
    <3>2. new[k] = p[2]
      <4> HIDE DEF f, p
      <4> QED BY <2>2, <3>1 DEF Insert
    <3>3. \A j \in 1 .. Len(more) - 1 : more[j][1] # p[1]
      <4>1. DOMAIN f = {pairs[j][1] : j \in 1 .. Len(pairs)}
        BY FirstValuesDomain
      <4> HIDE DEF f, g, p, new
      <4>2. \A j \in 1 .. Len(pairs) : pairs[j][1] # k
        BY ONLY <2>2, <4>1
      <4>3. \A j \in 1 .. Len(more) - 1 : j \in 1 .. Len(pairs)
        BY <1>1
      <4> QED BY <3>1, <4>2, <4>3
    <3>4. g[p[1]] = p[2]
      <4>1. Len(more) \in 1 .. Len(more)
        BY <1>1
      <4> QED BY <3>3, <4>1, FirstValueIs
    <3> QED BY <3>1, <3>2, <3>4
  <2> QED BY <2>1, <2>2
<1>5. g = [k \in DOMAIN g |-> g[k]]
  <2> HIDE DEF p, f, new
  <2> QED BY DEF FirstValues
<1>6. new = [k \in DOMAIN new |-> new[k]]
  <2> HIDE DEF p, f
  <2> QED BY DEF Insert
<1> HIDE DEF g, f, p, new
<1>7. g = new
  BY <1>2, <1>3, <1>4, <1>5, <1>6
<1> QED BY <1>7 DEF g, f, p, new

LEMMA InsertProperties ==
  ASSUME NEW map, NEW k, NEW v, NEW m, m = Insert(map, k, v)
  PROVE  \A x \in DOMAIN m : x # k => x \in DOMAIN map /\ m[x] = map[x]
  BY DEF Insert

-----------------------------------------------------------------------------
(* What the client sends, token by token: the request line, the headers.   *)

LEMMA ConcatElements ==
  ASSUME NEW S, NEW s \in Seq(S), NEW t \in Seq(S)
  PROVE  /\ s \o t \in Seq(S) /\ Len(s \o t) = Len(s) + Len(t)
         /\ Len(s) \in Nat /\ Len(t) \in Nat
         /\ \A j \in 1 .. Len(s) : (s \o t)[j] = s[j]
         /\ \A j \in 1 .. Len(t) : (s \o t)[Len(s) + j] = t[j]
<1>1. Len(s) \in Nat /\ Len(t) \in Nat
  OBVIOUS
<1>2. ASSUME NEW j \in 1 .. Len(s) PROVE (s \o t)[j] = s[j]
  BY <1>1, ConcatProperties
<1>3. ASSUME NEW j \in 1 .. Len(t) PROVE (s \o t)[Len(s) + j] = t[j]
  <2> DEFINE x == Len(s) + j
  <2>1. x \in 1 .. Len(s) + Len(t) /\ ~(x <= Len(s)) /\ x - Len(s) = j
    BY <1>1
  <2> HIDE DEF x
  <2>2. (s \o t)[x] = t[x - Len(s)]
    BY <1>1, <2>1, ConcatProperties
  <2> QED BY <2>1, <2>2 DEF x
<1> QED BY <1>1, <1>2, <1>3, ConcatProperties

LEMMA SameElements ==
  ASSUME NEW S, NEW s \in Seq(S), NEW t,
         NEW m \in Int, NEW n \in Int, Len(s) = n - m + 1,
         \A j \in 1 .. Len(s) : t[m + j - 1] = s[j]
  PROVE  SubSeq(t, m, n) = s
<1> DEFINE u == SubSeq(t, m, n)
<1>1. Len(s) \in Nat
  OBVIOUS
<1>2. ASSUME NEW j \in m .. n PROVE t[j] \in S
  <2> HIDE DEF u
  <2> DEFINE y == j - m + 1
  <2>1. y \in 1 .. Len(s) /\ m + y - 1 = j
    BY <1>1
  <2>2. s[y] \in S
    BY <2>1
  <2>3. t[m + y - 1] = s[y]
    BY <2>1
  <2> HIDE DEF y
  <2> QED BY <2>1, <2>2, <2>3
<1>3. /\ u \in Seq(S)
      /\ Len(u) = IF m <= n THEN n - m + 1 ELSE 0
      /\ \A j \in 1 .. n - m + 1 : u[j] = t[m + j - 1]
  <2> HIDE DEF u
  <2> QED BY <1>2, SubSeqProperties DEF u
<1> HIDE DEF u
<1>4. Len(u) = Len(s)
  BY <1>1, <1>3
<1>5. \A j \in 1 .. Len(s) : u[j] = s[j]
  BY <1>3
<1>6. u = s
  BY <1>3, <1>4, <1>5, SeqEqual
<1> QED BY <1>6 DEF u

(* Four parts one after the other, each where the ones before it end.      *)
LaidOut(w, a, b, c, d) ==
  /\ Len(a) \in Nat /\ Len(b) \in Nat /\ Len(c) \in Nat /\ Len(d) \in Nat
  /\ Len(w) = Len(a) + Len(b) + Len(c) + Len(d)
  /\ \A j \in 1 .. Len(a) : w[j] = a[j]
  /\ \A j \in 1 .. Len(b) : w[Len(a) + j] = b[j]
  /\ \A j \in 1 .. Len(c) : w[Len(a) + Len(b) + j] = c[j]
  /\ \A j \in 1 .. Len(d) : w[Len(a) + Len(b) + Len(c) + j] = d[j]

LEMMA Layout ==
  ASSUME NEW S, NEW a \in Seq(S), NEW b \in Seq(S), NEW c \in Seq(S), NEW d \in Seq(S)
  PROVE  a \o b \o c \o d \in Seq(S) /\ LaidOut(a \o b \o c \o d, a, b, c, d)
<1> DEFINE u == a \o b
           v == u \o c
           w == v \o d
<1> HIDE DEF u, v, w
<1> HIDE DEF u, v, w
<1>1. /\ u \in Seq(S) /\ Len(u) = Len(a) + Len(b)
      /\ Len(a) \in Nat /\ Len(b) \in Nat /\ Len(u) \in Nat
      /\ \A j \in 1 .. Len(a) : u[j] = a[j]
      /\ \A j \in 1 .. Len(b) : u[Len(a) + j] = b[j]
  BY ConcatElements DEF u
<1>2. /\ v \in Seq(S) /\ Len(v) = Len(u) + Len(c)
      /\ Len(c) \in Nat /\ Len(v) \in Nat
      /\ \A j \in 1 .. Len(u) : v[j] = u[j]
      /\ \A j \in 1 .. Len(c) : v[Len(u) + j] = c[j]
  <2>1. u \in Seq(S)
    BY <1>1
  <2> QED BY <2>1, ConcatElements DEF v
<1>3. /\ w \in Seq(S) /\ Len(w) = Len(v) + Len(d) /\ Len(d) \in Nat
      /\ \A j \in 1 .. Len(v) : w[j] = v[j]
      /\ \A j \in 1 .. Len(d) : w[Len(v) + j] = d[j]
  <2>1. v \in Seq(S)
    BY <1>2
  <2> QED BY <2>1, ConcatElements DEF w
<1>4. Len(u) = Len(a) + Len(b) /\ Len(v) = Len(a) + Len(b) + Len(c)
      /\ Len(w) = Len(a) + Len(b) + Len(c) + Len(d)
  BY <1>1, <1>2, <1>3
<1>5. ASSUME NEW j \in 1 .. Len(a) PROVE w[j] = a[j]
  <2>1. j \in 1 .. Len(u) /\ j \in 1 .. Len(v)
    BY <1>1, <1>2
  <2> QED BY <1>1, <1>2, <1>3, <2>1
<1>6. ASSUME NEW j \in 1 .. Len(b) PROVE w[Len(a) + j] = b[j]
  <2>1. Len(a) + j \in 1 .. Len(u) /\ Len(a) + j \in 1 .. Len(v)
    BY <1>1, <1>2
  <2>2. v[Len(a) + j] = u[Len(a) + j] /\ w[Len(a) + j] = v[Len(a) + j]
    BY <1>2, <1>3, <2>1
  <2> QED BY <1>1, <2>2
<1>7. ASSUME NEW j \in 1 .. Len(c) PROVE w[Len(a) + Len(b) + j] = c[j]
  <2>1. Len(u) + j \in 1 .. Len(v) /\ Len(u) + j = Len(a) + Len(b) + j
    BY <1>1, <1>2
  <2>2. w[Len(u) + j] = v[Len(u) + j] /\ v[Len(u) + j] = c[j]
    BY <1>2, <1>3, <2>1
  <2> QED BY <2>1, <2>2
<1>8. ASSUME NEW j \in 1 .. Len(d) PROVE w[Len(a) + Len(b) + Len(c) + j] = d[j]
  <2>1. Len(v) + j = Len(a) + Len(b) + Len(c) + j
    BY <1>4
  <2>2. w[Len(v) + j] = d[j]
    BY <1>3
  <2> QED BY <2>1, <2>2
<1>9. w = a \o b \o c \o d
  BY DEF u, v, w
<1> QED BY <1>1, <1>2, <1>3, <1>4, <1>5, <1>6, <1>7, <1>8, <1>9 DEF LaidOut

(* What a text is made of: tokens, and those the code looks for among them. *)
Tokens == STRING \union {" ", "/", "?", "&", "=", ":", "\r", "\n"}

Headers == Without({":", "\r", "\n"}) \X Without({"\r", "\n"})

LEMMA HeaderLayout ==
  ASSUME NEW h \in Headers
  PROVE  /\ h[1] \in Seq(Tokens) /\ h[2] \in Seq(Tokens)
         /\ Len(h[1]) \in Nat /\ Len(h[2]) \in Nat
         /\ \A j \in 1 .. Len(h[1]) : h[1][j] \notin {":", "\r", "\n"}
         /\ \A j \in 1 .. Len(h[2]) : h[2][j] \notin {"\r", "\n"}
         /\ HeaderLine(h) \in Seq(Tokens)
         /\ Len(HeaderLine(h)) = Len(h[1]) + Len(h[2]) + 4
         /\ \A j \in 1 .. Len(h[1]) : HeaderLine(h)[j] = h[1][j]
         /\ HeaderLine(h)[Len(h[1]) + 1] = ":"
         /\ HeaderLine(h)[Len(h[1]) + 2] = " "
         /\ \A j \in 1 .. Len(h[2]) : HeaderLine(h)[Len(h[1]) + 2 + j] = h[2][j]
         /\ HeaderLine(h)[Len(h[1]) + Len(h[2]) + 3] = "\r"
         /\ HeaderLine(h)[Len(h[1]) + Len(h[2]) + 4] = "\n"
<1> DEFINE a == h[1]
           b == h[2]
           sep == <<":", " ">>
           w == a \o sep \o b \o EndOfLine
<1>1. /\ a \in Seq(Tokens) /\ b \in Seq(Tokens)
      /\ \A j \in 1 .. Len(a) : a[j] \notin {":", "\r", "\n"}
      /\ \A j \in 1 .. Len(b) : b[j] \notin {"\r", "\n"}
  <2>1. /\ a \in Seq(STRING) /\ b \in Seq(STRING)
        /\ \A j \in DOMAIN a : a[j] \notin {":", "\r", "\n"}
        /\ \A j \in DOMAIN b : b[j] \notin {"\r", "\n"}
    BY DEF Headers, Without
  <2> HIDE DEF a, b
  <2>2. STRING \subseteq Tokens
    BY DEF Tokens
  <2>3. a \in Seq(Tokens) /\ b \in Seq(Tokens)
    BY <2>1, <2>2, SeqMonotonic
  <2> QED BY <2>1, <2>3
<1>2. sep \in Seq(Tokens) /\ Len(sep) = 2 /\ sep[1] = ":" /\ sep[2] = " "
  BY DEF Tokens
<1>3. EndOfLine \in Seq(Tokens) /\ Len(EndOfLine) = 2
      /\ EndOfLine[1] = "\r" /\ EndOfLine[2] = "\n"
  BY DEF EndOfLine, Tokens
<1>4. HeaderLine(h) = w
  BY DEF HeaderLine
<1> HIDE DEF a, b, sep
<1>5. /\ w \in Seq(Tokens) /\ Len(a) \in Nat /\ Len(b) \in Nat
      /\ Len(w) = Len(a) + Len(sep) + Len(b) + Len(EndOfLine)
      /\ \A j \in 1 .. Len(a) : w[j] = a[j]
      /\ \A j \in 1 .. Len(sep) : w[Len(a) + j] = sep[j]
      /\ \A j \in 1 .. Len(b) : w[Len(a) + Len(sep) + j] = b[j]
      /\ \A j \in 1 .. Len(EndOfLine) : w[Len(a) + Len(sep) + Len(b) + j] = EndOfLine[j]
  <2>1. /\ a \in Seq(Tokens) /\ b \in Seq(Tokens)
        /\ sep \in Seq(Tokens) /\ EndOfLine \in Seq(Tokens)
    BY <1>1, <1>2, <1>3
  <2>2. w \in Seq(Tokens) /\ LaidOut(w, a, sep, b, EndOfLine)
    BY <2>1, Layout
  <2> HIDE DEF w
  <2> QED BY <2>2 DEF LaidOut
<1> HIDE DEF w
<1>6. w[Len(a) + 1] = ":" /\ w[Len(a) + 2] = " "
  <2>1. 1 \in 1 .. Len(sep) /\ 2 \in 1 .. Len(sep)
    <3>1. Len(sep) = 2
      BY <1>2
    <3> QED BY <3>1
  <2>2. w[Len(a) + 1] = sep[1] /\ w[Len(a) + 2] = sep[2]
    BY <1>5, <2>1
  <2> QED BY <1>2, <2>2
<1>7. w[Len(a) + Len(b) + 3] = "\r" /\ w[Len(a) + Len(b) + 4] = "\n"
  <2>1. w[Len(a) + Len(sep) + Len(b) + 1] = "\r" /\ w[Len(a) + Len(sep) + Len(b) + 2] = "\n"
    BY <1>3, <1>5
  <2>2. /\ Len(a) + Len(sep) + Len(b) + 1 = Len(a) + Len(b) + 3
        /\ Len(a) + Len(sep) + Len(b) + 2 = Len(a) + Len(b) + 4
    <3>1. Len(a) \in Nat /\ Len(b) \in Nat /\ Len(sep) = 2
      BY <1>2, <1>5
    <3> QED BY <3>1
  <2> QED BY <2>1, <2>2
<1>8. \A j \in 1 .. Len(b) : w[Len(a) + 2 + j] = b[j]
  BY <1>2, <1>5
<1>9. Len(w) = Len(a) + Len(b) + 4
  <2>1. Len(a) \in Nat /\ Len(b) \in Nat /\ Len(sep) = 2 /\ Len(EndOfLine) = 2
        /\ Len(w) = Len(a) + Len(sep) + Len(b) + Len(EndOfLine)
    BY <1>2, <1>3, <1>5
  <2> QED BY <2>1
<1> QED BY <1>1, <1>4, <1>5, <1>6, <1>7, <1>8, <1>9 DEF a, b

NonBlank == Tokens \ {" "}

Arguments == Without({" "}) \X Without({" "})

LEMMA WithoutIsTokens ==
  ASSUME NEW banned, NEW s \in Without(banned)
  PROVE  s \in Seq(Tokens \ banned)
<1>1. s \in Seq(STRING) /\ \A j \in DOMAIN s : s[j] \notin banned
  BY DEF Without
<1>2. STRING \subseteq Tokens
  BY DEF Tokens
<1>3. Len(s) \in Nat /\ DOMAIN s = 1 .. Len(s)
      /\ \A j \in 1 .. Len(s) : s[j] \in Tokens \ banned
  <2>1. Len(s) \in Nat /\ DOMAIN s = 1 .. Len(s)
    BY <1>1, LenProperties
  <2>2. ASSUME NEW j \in 1 .. Len(s) PROVE s[j] \in Tokens \ banned
    <3>1. s[j] \in STRING
      BY <1>1, ElementOfSeq
    <3> QED BY <1>1, <1>2, <2>1, <3>1
  <2> QED BY <2>1, <2>2
<1> QED BY <1>1, <1>3

QueryPart(n, a) == <<IF n = 1 THEN "?" ELSE "&">> \o Argument(a)

QueryParts(arguments) ==
  [n \in 1 .. Len(arguments) |-> QueryPart(n, arguments[n])]

Apart(x, y, z) == (x \o y) \o z = x \o (y \o z)

LEMMA AreApart ==
  ASSUME NEW S, NEW x \in Seq(S), NEW y \in Seq(S), NEW z \in Seq(S)
  PROVE  Apart(x, y, z)
<1>1. (x \o y) \o z = x \o (y \o z)
  OBVIOUS
<1> QED BY <1>1 DEF Apart

LEMMA QueryPartLayout ==
  ASSUME NEW a \in Arguments, NEW n \in Nat
  PROVE  /\ a[1] \in Seq(NonBlank) /\ a[2] \in Seq(NonBlank)
         /\ Len(a[1]) \in Nat /\ Len(a[2]) \in Nat
         /\ QueryPart(n, a) \in Seq(NonBlank)
         /\ Len(QueryPart(n, a)) = Len(a[1]) + Len(a[2]) + 2
         /\ QueryPart(n, a)[1] = IF n = 1 THEN "?" ELSE "&"
         /\ \A j \in 1 .. Len(a[1]) : QueryPart(n, a)[1 + j] = a[1][j]
         /\ QueryPart(n, a)[Len(a[1]) + 2] = "="
         /\ \A j \in 1 .. Len(a[2]) : QueryPart(n, a)[Len(a[1]) + 2 + j] = a[2][j]
<1> DEFINE b == a[1]
           d == a[2]
           m == IF n = 1 THEN "?" ELSE "&"
           mark == <<m>>
           sep == <<"=">>
           w == mark \o b \o sep \o d
<1>1. /\ b \in Seq(NonBlank) /\ d \in Seq(NonBlank)
  <2>1. b \in Without({" "}) /\ d \in Without({" "})
    BY DEF Arguments
  <2> HIDE DEF b, d
  <2> QED BY <2>1, WithoutIsTokens DEF NonBlank
<1>2. "?" \in NonBlank /\ "&" \in NonBlank /\ "=" \in NonBlank
  BY DEF NonBlank, Tokens
<1>3. m \in NonBlank
  BY <1>2
<1>4. mark \in Seq(NonBlank) /\ Len(mark) = 1 /\ mark[1] = m
      /\ sep \in Seq(NonBlank) /\ Len(sep) = 1 /\ sep[1] = "="
  <2> HIDE DEF m
  <2> QED BY <1>2, <1>3
<1> HIDE DEF m
<1>5. QueryPart(n, a) = w
  <2>1. QueryPart(n, a) = mark \o (b \o sep \o d)
    BY DEF QueryPart, Argument, m
  <2> HIDE DEF mark, b, sep, d
  <2>2. b \o sep \in Seq(NonBlank) /\ mark \o b \in Seq(NonBlank)
    BY <1>1, <1>4, ConcatProperties
  <2> DEFINE u == b \o sep
  <2>3. mark \o (b \o sep \o d) = (mark \o (b \o sep)) \o d
    <3>1. mark \in Seq(NonBlank) /\ u \in Seq(NonBlank) /\ d \in Seq(NonBlank)
      BY <1>1, <1>4, <2>2
    <3> HIDE DEF u
    <3>2. Apart(mark, u, d)
      BY ONLY <3>1, AreApart
    <3> QED BY ONLY <3>2 DEF Apart, u
  <2>4. mark \o (b \o sep) = (mark \o b) \o sep
    <3>1. mark \in Seq(NonBlank) /\ b \in Seq(NonBlank) /\ sep \in Seq(NonBlank)
      BY <1>1, <1>4
    <3>2. Apart(mark, b, sep)
      BY ONLY <3>1, AreApart
    <3> QED BY ONLY <3>2 DEF Apart
  <2> QED BY <2>1, <2>3, <2>4
<1> HIDE DEF b, d, sep, mark
<1>6. w \in Seq(NonBlank) /\ LaidOut(w, mark, b, sep, d)
  <2>1. /\ mark \in Seq(NonBlank) /\ b \in Seq(NonBlank)
        /\ sep \in Seq(NonBlank) /\ d \in Seq(NonBlank)
    BY <1>1, <1>4
  <2> QED BY <2>1, Layout
<1> HIDE DEF w
<1>7. /\ Len(b) \in Nat /\ Len(d) \in Nat
      /\ Len(w) = Len(mark) + Len(b) + Len(sep) + Len(d)
      /\ \A j \in 1 .. Len(mark) : w[j] = mark[j]
      /\ \A j \in 1 .. Len(b) : w[Len(mark) + j] = b[j]
      /\ \A j \in 1 .. Len(sep) : w[Len(mark) + Len(b) + j] = sep[j]
      /\ \A j \in 1 .. Len(d) : w[Len(mark) + Len(b) + Len(sep) + j] = d[j]
  BY <1>6 DEF LaidOut
<1>8. Len(mark) = 1 /\ Len(sep) = 1
  BY <1>4
<1>9. Len(w) = Len(b) + Len(d) + 2
  BY <1>7, <1>8
<1>10. w[1] = m
  <2>1. 1 \in 1 .. Len(mark)
    BY <1>8
  <2>2. w[1] = mark[1] /\ mark[1] = m
    BY <1>4, <1>7, <2>1
  <2> QED BY <2>2
<1>11. w[Len(b) + 2] = "="
  <2>1. 1 \in 1 .. Len(sep) /\ Len(mark) + Len(b) + 1 = Len(b) + 2
    BY <1>7, <1>8
  <2>2. w[Len(mark) + Len(b) + 1] = sep[1] /\ sep[1] = "="
    BY <1>4, <1>7, <2>1
  <2> QED BY <2>1, <2>2
<1>12. \A j \in 1 .. Len(b) : w[1 + j] = b[j]
  BY <1>7, <1>8
<1>13. \A j \in 1 .. Len(d) : w[Len(b) + 2 + j] = d[j]
  <2>1. Len(mark) + Len(b) + Len(sep) = Len(b) + 2
    BY <1>7, <1>8
  <2> QED BY <1>7, <2>1
<1>14. /\ QueryPart(n, a) \in Seq(NonBlank)
       /\ Len(QueryPart(n, a)) = Len(b) + Len(d) + 2
       /\ QueryPart(n, a)[1] = m
       /\ \A j \in 1 .. Len(b) : QueryPart(n, a)[1 + j] = b[j]
       /\ QueryPart(n, a)[Len(b) + 2] = "="
       /\ \A j \in 1 .. Len(d) : QueryPart(n, a)[Len(b) + 2 + j] = d[j]
  BY <1>5, <1>6, <1>9, <1>10, <1>11, <1>12, <1>13
<1> QED BY <1>1, <1>7, <1>14 DEF b, d, m

LEMMA QueryLayout ==
  ASSUME NEW arguments \in Seq(Arguments)
  PROVE  /\ QueryParts(arguments) \in Seq(Seq(NonBlank))
         /\ Len(QueryParts(arguments)) = Len(arguments)
         /\ \A n \in 1 .. Len(arguments) :
              QueryParts(arguments)[n] = QueryPart(n, arguments[n])
         /\ Query(arguments) = FlattenSeq(QueryParts(arguments))
         /\ Query(arguments) \in Seq(NonBlank)
<1> DEFINE parts == QueryParts(arguments)
<1>1. Len(arguments) \in Nat
  OBVIOUS
<1>2. ASSUME NEW n \in 1 .. Len(arguments)
      PROVE  parts[n] = QueryPart(n, arguments[n]) /\ parts[n] \in Seq(NonBlank)
  <2>1. parts[n] = QueryPart(n, arguments[n])
    BY DEF QueryParts
  <2>2. arguments[n] \in Arguments /\ n \in Nat
    OBVIOUS
  <2> HIDE DEF parts
  <2> DEFINE a == arguments[n]
  <2> HIDE DEF a
  <2>3. QueryPart(n, a) \in Seq(NonBlank)
    BY <2>2, QueryPartLayout DEF a
  <2> QED BY <2>1, <2>3 DEF a
<1>3. DOMAIN parts = 1 .. Len(arguments)
      /\ parts = [n \in 1 .. Len(arguments) |-> parts[n]]
  BY DEF QueryParts
<1>4. Query(arguments) = FlattenSeq(parts)
  BY DEF Query, QueryParts, QueryPart
<1> HIDE DEF parts
<1>5. parts \in Seq(Seq(NonBlank)) /\ Len(parts) = Len(arguments)
  BY <1>1, <1>2, <1>3
<1>6. FlattenSeq(parts) \in Seq(NonBlank)
  BY <1>5, FlattenParts
<1> QED BY <1>2, <1>4, <1>5, <1>6 DEF parts

HeaderParts(headers) == [n \in 1 .. Len(headers) |-> HeaderLine(headers[n])]

LEMMA HeaderPartsProperties ==
  ASSUME NEW headers \in Seq(Headers)
  PROVE  /\ HeaderParts(headers) \in Seq(Seq(Tokens))
         /\ Len(HeaderParts(headers)) = Len(headers) /\ Len(headers) \in Nat
         /\ \A n \in 1 .. Len(headers) : HeaderParts(headers)[n] = HeaderLine(headers[n])
         /\ HeaderLines(headers) = FlattenSeq(HeaderParts(headers))
<1> DEFINE parts == HeaderParts(headers)
<1>1. Len(headers) \in Nat
  OBVIOUS
<1>2. ASSUME NEW n \in 1 .. Len(headers)
      PROVE  parts[n] = HeaderLine(headers[n]) /\ parts[n] \in Seq(Tokens)
  <2>1. parts[n] = HeaderLine(headers[n])
    BY DEF HeaderParts
  <2> DEFINE h == headers[n]
  <2>2. h \in Headers
    OBVIOUS
  <2> HIDE DEF h, parts
  <2>3. HeaderLine(h) \in Seq(Tokens)
    BY <2>2, HeaderLayout
  <2> QED BY <2>1, <2>3 DEF h
<1>3. DOMAIN parts = 1 .. Len(headers)
      /\ parts = [n \in 1 .. Len(headers) |-> parts[n]]
  BY DEF HeaderParts
<1>4. HeaderLines(headers) = FlattenSeq(parts)
  BY DEF HeaderLines, HeaderParts
<1> HIDE DEF parts
<1>5. parts \in Seq(Seq(Tokens)) /\ Len(parts) = Len(headers)
  BY <1>1, <1>2, <1>3
<1> QED BY <1>1, <1>2, <1>4, <1>5 DEF parts

(* The first k headers make the first k parts. *)
LEMMA SomeHeaderParts ==
  ASSUME NEW headers \in Seq(Headers), NEW k \in 0 .. Len(headers)
  PROVE  HeaderLines(SubSeq(headers, 1, k)) = FlattenSeq(SubSeq(HeaderParts(headers), 1, k))
<1> DEFINE some == SubSeq(headers, 1, k)
           parts == HeaderParts(headers)
<1>1. Len(headers) \in Nat /\ k \in Nat /\ k <= Len(headers)
  OBVIOUS
<1>2. some \in Seq(Headers) /\ Len(some) = k /\ \A j \in 1 .. k : some[j] = headers[j]
  BY <1>1
<1> HIDE DEF some
<1>3. /\ HeaderParts(some) \in Seq(Seq(Tokens)) /\ Len(HeaderParts(some)) = k
      /\ \A j \in 1 .. k : HeaderParts(some)[j] = HeaderLine(some[j])
      /\ HeaderLines(some) = FlattenSeq(HeaderParts(some))
  BY <1>2, HeaderPartsProperties
<1>4. /\ parts \in Seq(Seq(Tokens)) /\ Len(parts) = Len(headers)
      /\ \A j \in 1 .. Len(headers) : parts[j] = HeaderLine(headers[j])
  BY HeaderPartsProperties
<1> HIDE DEF parts
<1>5. SubSeq(parts, 1, k) = HeaderParts(some)
  <2>1. \A j \in 1 .. k : parts[1 + j - 1] = HeaderParts(some)[j]
    <3> SUFFICES ASSUME NEW j \in 1 .. k PROVE parts[1 + j - 1] = HeaderParts(some)[j]
      OBVIOUS
    <3>1. 1 + j - 1 = j /\ j \in 1 .. Len(headers)
      BY <1>1
    <3> QED BY <1>2, <1>3, <1>4, <3>1
  <2>2. 1 \in Int /\ k \in Int /\ k = k - 1 + 1
    BY <1>1
  <2> DEFINE u == HeaderParts(some)
  <2>3. u \in Seq(Seq(Tokens)) /\ Len(u) = k
    BY <1>3
  <2> HIDE DEF u
  <2>4. SubSeq(parts, 1, k) = u
    BY <2>1, <2>2, <2>3, SameElements DEF u
  <2> QED BY <2>4 DEF u
<1> QED BY <1>3, <1>5 DEF some, parts

-----------------------------------------------------------------------------
(* Where the parts of a text are *)

LineEnd == Len(RequestLine(request))

HeaderCount == Len(request.headers)

HeaderEnd(k) == LineEnd + End(HeaderParts(request.headers), k)

(* What stands between the method and the version. *)
Target == <<"/">> \o request.name \o Query(request.arguments)

LEMMA RequestProperties ==
  ASSUME request \in Requests
  PROVE  /\ request.method \in Tokens \ {" "} /\ request.version \in Tokens \ {"\n"}
         /\ request.name \in Seq(NonBlank)
         /\ request.arguments \in Seq(Arguments) /\ request.headers \in Seq(Headers)
<1>1. /\ request.method \in Methods /\ request.version \in Versions
      /\ request.name \in Names /\ request.arguments \in Queries
      /\ request.headers \in HeaderLists
  BY DEF Requests
<1>2. STRING \subseteq Tokens
  BY DEF Tokens
<1>3. request.name \in Without({" "})
  BY <1>1, ParserAssumption
<1>4. request.name \in Seq(NonBlank)
  <2> DEFINE name == request.name
  <2> HIDE DEF name
  <2> QED BY <1>3, WithoutIsTokens DEF NonBlank, name
<1> QED BY <1>1, <1>2, <1>4, ParserAssumption DEF Arguments, Headers

LEMMA TargetProperties ==
  ASSUME request \in Requests
  PROVE  Target \in Seq(NonBlank) /\ Len(Target) \in Nat
<1> DEFINE slash == <<"/">>
           name == request.name
           query == Query(request.arguments)
<1>1. slash \in Seq(NonBlank)
  BY DEF NonBlank, Tokens
<1>2. name \in Seq(NonBlank) /\ query \in Seq(NonBlank)
  BY RequestProperties, QueryLayout
<1>3. Target = slash \o name \o query
  BY DEF Target
<1> HIDE DEF slash, name, query
<1>4. slash \o name \in Seq(NonBlank)
  BY <1>1, <1>2, ConcatProperties
<1>5. (slash \o name) \o query \in Seq(NonBlank)
  BY <1>2, <1>4, ConcatProperties
<1> QED BY <1>3, <1>5, LenProperties

LEMMA Tuples ==
  ASSUME NEW S, NEW x \in S, NEW y \in S, NEW z \in S
  PROVE  /\ <<x>> \in Seq(S) /\ <<x, y>> \in Seq(S)
         /\ <<x, y, z>> = <<x, y>> \o <<z>>
OBVIOUS

FirstApart(a, b, c, d) == a \o b \o c \o d = a \o (b \o c \o d)

LEMMA FirstIsApart ==
  ASSUME NEW S, NEW a \in Seq(S), NEW b \in Seq(S), NEW c \in Seq(S), NEW d \in Seq(S)
  PROVE  FirstApart(a, b, c, d)
<1> DEFINE u == b \o c
<1>2. u \in Seq(S)
  BY ConcatProperties
<1>3. Apart(a, b, c)
  BY AreApart
<1> HIDE DEF u
<1>4. Apart(a, u, d)
  BY <1>2, AreApart
<1>5. (a \o b) \o c = a \o u
  BY ONLY <1>3 DEF Apart, u
<1>6. (a \o u) \o d = a \o (u \o d)
  BY ONLY <1>4 DEF Apart
<1>7. ((a \o b) \o c) \o d = a \o (u \o d)
  BY ONLY <1>5, <1>6
<1> QED BY ONLY <1>7 DEF FirstApart, u

LEMMA LineLayout ==
  ASSUME request \in Requests
  PROVE  /\ RequestLine(request) \in Seq(Tokens)
         /\ LineEnd = Len(Target) + 6
         /\ RequestLine(request)[1] = request.method
         /\ RequestLine(request)[2] = " "
         /\ \A j \in 1 .. Len(Target) : RequestLine(request)[2 + j] = Target[j]
         /\ RequestLine(request)[LineEnd - 3] = " "
         /\ RequestLine(request)[LineEnd - 2] = request.version
         /\ RequestLine(request)[LineEnd - 1] = "\r"
         /\ RequestLine(request)[LineEnd] = "\n"
<1> DEFINE method == request.method
           version == request.version
           first == <<method, " ">>
           slash == <<"/">>
           name == request.name
           query == Query(request.arguments)
           last == <<" ", version>>
           w == first \o Target \o last \o EndOfLine
<1>1. " " \in Tokens /\ "/" \in Tokens /\ "\r" \in Tokens /\ "\n" \in Tokens
      /\ method \in Tokens /\ version \in Tokens
  BY RequestProperties DEF Tokens
<1>2. NonBlank \subseteq Tokens
  BY DEF NonBlank
<1>3. name \in Seq(Tokens) /\ query \in Seq(Tokens) /\ Target \in Seq(Tokens)
  <2>1. name \in Seq(NonBlank) /\ query \in Seq(NonBlank) /\ Target \in Seq(NonBlank)
    BY RequestProperties, QueryLayout, TargetProperties
  <2> HIDE DEF name, query
  <2> QED BY <1>2, <2>1, SeqMonotonic
<1>4. first \in Seq(Tokens) /\ last \in Seq(Tokens) /\ slash \in Seq(Tokens)
      /\ EndOfLine \in Seq(Tokens)
  <2> HIDE DEF method, version, w, query, name
  <2> QED BY <1>1, Tuples DEF EndOfLine
<1>5. Len(first) = 2 /\ Len(last) = 2 /\ Len(EndOfLine) = 2
  BY DEF EndOfLine
<1>6. /\ first[1] = method /\ first[2] = " "
      /\ last[1] = " " /\ last[2] = version
      /\ EndOfLine[1] = "\r" /\ EndOfLine[2] = "\n"
  BY DEF EndOfLine
<1>7. RequestLine(request) = w
  <2>1. RequestLine(request) =
          <<method, " ", "/">> \o name \o query \o last \o EndOfLine
    BY DEF RequestLine
  <2>2. <<method, " ", "/">> = first \o slash
    <3> HIDE DEF method
    <3>1. method \in Tokens /\ " " \in Tokens /\ "/" \in Tokens
      BY <1>1
    <3> QED BY ONLY <3>1, Tuples DEF first, slash
  <2>3. Target = slash \o name \o query
    BY DEF Target
  <2> HIDE DEF first, slash, name, query, last
  <2>4. first \in Seq(Tokens) /\ slash \in Seq(Tokens) /\ name \in Seq(Tokens)
        /\ query \in Seq(Tokens)
    BY <1>3, <1>4
  <2>5. first \o slash \o name \o query = first \o (slash \o name \o query)
    <3>1. FirstApart(first, slash, name, query)
      BY ONLY <2>4, FirstIsApart
    <3> QED BY ONLY <3>1 DEF FirstApart
  <2> QED BY <2>1, <2>2, <2>3, <2>5
<1> HIDE DEF first, last, slash, name, query, method, version
<1>8. w \in Seq(Tokens) /\ LaidOut(w, first, Target, last, EndOfLine)
  <2>1. Target \in Seq(Tokens)
    BY <1>3
  <2> QED BY <1>4, <2>1, Layout
<1> HIDE DEF w
<1>9. /\ Len(Target) \in Nat
      /\ Len(w) = Len(first) + Len(Target) + Len(last) + Len(EndOfLine)
      /\ \A j \in 1 .. Len(first) : w[j] = first[j]
      /\ \A j \in 1 .. Len(Target) : w[Len(first) + j] = Target[j]
      /\ \A j \in 1 .. Len(last) : w[Len(first) + Len(Target) + j] = last[j]
      /\ \A j \in 1 .. Len(EndOfLine) :
           w[Len(first) + Len(Target) + Len(last) + j] = EndOfLine[j]
  BY <1>8 DEF LaidOut
<1>10. LineEnd = Len(Target) + 6 /\ LineEnd = Len(w)
  <2>1. LineEnd = Len(w)
    BY <1>7 DEF LineEnd
  <2> QED BY <1>5, <1>9, <2>1
<1>11. 1 \in 1 .. Len(first) /\ 2 \in 1 .. Len(first) /\ 1 \in 1 .. Len(last)
       /\ 2 \in 1 .. Len(last) /\ 1 \in 1 .. Len(EndOfLine) /\ 2 \in 1 .. Len(EndOfLine)
  BY <1>5
<1>12. /\ Len(first) + Len(Target) + 1 = LineEnd - 3
       /\ Len(first) + Len(Target) + 2 = LineEnd - 2
       /\ Len(first) + Len(Target) + Len(last) + 1 = LineEnd - 1
       /\ Len(first) + Len(Target) + Len(last) + 2 = LineEnd
  BY <1>5, <1>9, <1>10
<1>13. /\ w[1] = first[1] /\ w[2] = first[2]
       /\ w[LineEnd - 3] = last[1] /\ w[LineEnd - 2] = last[2]
       /\ w[LineEnd - 1] = EndOfLine[1] /\ w[LineEnd] = EndOfLine[2]
  <2>1. w[1] = first[1] /\ w[2] = first[2]
    BY <1>9, <1>11
  <2>2. w[Len(first) + Len(Target) + 1] = last[1] /\ w[Len(first) + Len(Target) + 2] = last[2]
    BY <1>9, <1>11
  <2>3. /\ w[Len(first) + Len(Target) + Len(last) + 1] = EndOfLine[1]
        /\ w[Len(first) + Len(Target) + Len(last) + 2] = EndOfLine[2]
    BY <1>9, <1>11
  <2> QED BY <1>12, <2>1, <2>2, <2>3
<1>14. \A j \in 1 .. Len(Target) : w[2 + j] = Target[j]
  BY <1>5, <1>9
<1> QED BY <1>6, <1>7, <1>8, <1>10, <1>13, <1>14 DEF method, version

LEMMA HeaderEnds ==
  ASSUME request \in Requests
  PROVE  /\ HeaderCount \in Nat /\ LineEnd \in Nat /\ LineEnd >= 6
         /\ HeaderEnd(0) = LineEnd
         /\ \A k \in 0 .. HeaderCount : HeaderEnd(k) \in Nat
         /\ \A k \in 1 .. HeaderCount :
              HeaderEnd(k) = HeaderEnd(k - 1) + Len(request.headers[k][1])
                               + Len(request.headers[k][2]) + 4
         /\ \A j \in 0 .. HeaderCount : \A k \in j .. HeaderCount :
              HeaderEnd(j) <= HeaderEnd(k)
<1> DEFINE headers == request.headers
           parts == HeaderParts(headers)
           e(k) == End(parts, k)
<1>1. headers \in Seq(Headers)
  BY RequestProperties
<1> HIDE DEF headers
<1>2. /\ parts \in Seq(Seq(Tokens)) /\ Len(parts) = Len(headers) /\ Len(headers) \in Nat
      /\ \A n \in 1 .. Len(headers) : parts[n] = HeaderLine(headers[n])
  BY <1>1, HeaderPartsProperties
<1> HIDE DEF parts
<1>3. /\ e(0) = 0
      /\ \A k \in 0 .. Len(headers) : e(k) \in Nat
      /\ \A k \in 1 .. Len(headers) : e(k) = e(k - 1) + Len(parts[k])
  BY <1>2, EndsGrow
<1>4. ASSUME NEW j \in 0 .. Len(headers), NEW k \in j .. Len(headers)
      PROVE  e(j) <= e(k)
  BY <1>2, EndsAreOrdered
<1>5. LineEnd \in Nat /\ LineEnd >= 6
  <2>1. LineEnd = Len(Target) + 6 /\ Len(Target) \in Nat
    BY LineLayout, TargetProperties
  <2> QED BY <2>1
<1>6. \A k : HeaderEnd(k) = LineEnd + e(k)
  BY DEF HeaderEnd, parts, headers
<1> HIDE DEF e
<1>7. HeaderCount = Len(headers)
  BY DEF HeaderCount, headers
<1>8. ASSUME NEW k \in 1 .. Len(headers)
      PROVE  HeaderEnd(k) = HeaderEnd(k - 1) + Len(headers[k][1]) + Len(headers[k][2]) + 4
  <2> DEFINE h == headers[k]
  <2>1. h \in Headers /\ k - 1 \in 0 .. Len(headers) /\ k \in 0 .. Len(headers)
    BY <1>1, <1>2
  <2>2. parts[k] = HeaderLine(h)
    BY <1>2
  <2> HIDE DEF h
  <2>3. Len(HeaderLine(h)) = Len(h[1]) + Len(h[2]) + 4 /\ Len(h[1]) \in Nat /\ Len(h[2]) \in Nat
    BY <2>1, HeaderLayout
  <2>4. e(k) = e(k - 1) + Len(parts[k]) /\ e(k - 1) \in Nat /\ e(k) \in Nat
    BY <1>3, <2>1
  <2>5. e(k) = e(k - 1) + (Len(h[1]) + Len(h[2]) + 4)
    BY <2>2, <2>3, <2>4
  <2>6. HeaderEnd(k) = HeaderEnd(k - 1) + Len(h[1]) + Len(h[2]) + 4
    <3>1. HeaderEnd(k) = LineEnd + e(k) /\ HeaderEnd(k - 1) = LineEnd + e(k - 1)
      BY <1>6
    <3>2. Len(h[1]) \in Nat /\ Len(h[2]) \in Nat
      BY <2>3
    <3>3. e(k - 1) \in Nat /\ e(k) \in Nat
      BY <2>4
    <3> DEFINE x == Len(h[1])
               y == Len(h[2])
               p == e(k - 1)
               q == e(k)
               r == HeaderEnd(k - 1)
    <3>4. /\ x \in Nat /\ y \in Nat /\ p \in Nat /\ q \in Nat /\ LineEnd \in Nat
          /\ q = p + (x + y + 4) /\ HeaderEnd(k) = LineEnd + q /\ r = LineEnd + p
      BY <1>5, <2>5, <3>1, <3>2, <3>3
    <3> HIDE DEF x, y, p, q, r
    <3>5. HeaderEnd(k) = r + x + y + 4
      BY <3>4
    <3> QED BY <3>5 DEF r, x, y
  <2> QED BY <2>6 DEF h
<1>9. ASSUME NEW j \in 0 .. Len(headers), NEW k \in j .. Len(headers)
      PROVE  HeaderEnd(j) <= HeaderEnd(k)
  <2>1. j \in 0 .. Len(headers) /\ k \in 0 .. Len(headers)
    BY <1>2
  <2> QED BY <1>3, <1>4, <1>5, <1>6, <2>1
<1>10. HeaderEnd(0) = LineEnd /\ \A k \in 0 .. Len(headers) : HeaderEnd(k) \in Nat
  BY <1>3, <1>5, <1>6
<1> QED BY <1>2, <1>5, <1>7, <1>8, <1>9, <1>10 DEF headers

LEMMA TextLayout ==
  ASSUME request \in Requests
  PROVE  /\ Text(request) \in Seq(Tokens)
         /\ Len(Text(request)) = HeaderEnd(HeaderCount) + 2
         /\ \A j \in 1 .. LineEnd : Text(request)[j] = RequestLine(request)[j]
         /\ \A k \in 1 .. HeaderCount : \A j \in 1 .. Len(HeaderLine(request.headers[k])) :
              Text(request)[HeaderEnd(k - 1) + j] = HeaderLine(request.headers[k])[j]
         /\ Text(request)[HeaderEnd(HeaderCount) + 1] = "\r"
         /\ Text(request)[HeaderEnd(HeaderCount) + 2] = "\n"
<1> DEFINE headers == request.headers
           parts == HeaderParts(headers)
           line == RequestLine(request)
           lines == HeaderLines(headers)
           T == Text(request)
           K == HeaderCount
<1>1. headers \in Seq(Headers) /\ line \in Seq(Tokens)
  BY RequestProperties, LineLayout
<1> HIDE DEF headers
<1>2. /\ parts \in Seq(Seq(Tokens)) /\ Len(parts) = Len(headers) /\ Len(headers) \in Nat
      /\ \A n \in 1 .. Len(headers) : parts[n] = HeaderLine(headers[n])
      /\ lines = FlattenSeq(parts)
  BY <1>1, HeaderPartsProperties
<1> HIDE DEF parts
<1>3. /\ FlattenSeq(parts) \in Seq(Tokens)
      /\ Len(FlattenSeq(parts)) = End(parts, Len(parts))
      /\ \A k \in 1 .. Len(parts) : \A j \in 1 .. Len(parts[k]) :
           FlattenSeq(parts)[End(parts, k - 1) + j] = parts[k][j]
  BY <1>2, FlattenParts
<1>4. T = line \o lines \o EndOfLine
  BY DEF Text, headers
<1> HIDE DEF line, lines
<1>5. K = Len(headers) /\ K \in Nat
  BY <1>2 DEF HeaderCount, headers
<1> HIDE DEF K
<1>6. \A k : HeaderEnd(k) = LineEnd + End(parts, k)
  BY DEF HeaderEnd, parts, headers
<1>7. /\ LineEnd \in Nat /\ \A k \in 0 .. K : HeaderEnd(k) \in Nat
      /\ \A j \in 0 .. K : \A k \in j .. K : HeaderEnd(j) <= HeaderEnd(k)
  BY HeaderEnds DEF K
<1>8. LineEnd = Len(line)
  BY DEF LineEnd, line
<1>9. Len(lines) = End(parts, K)
  BY <1>2, <1>3, <1>5
<1>10. EndOfLine \in Seq(Tokens)
  <2>1. "\r" \in Tokens /\ "\n" \in Tokens
    BY DEF Tokens
  <2> QED BY <2>1, Tuples DEF EndOfLine
<1>11. Len(EndOfLine) = 2
  BY DEF EndOfLine
<1>12. EndOfLine[1] = "\r" /\ EndOfLine[2] = "\n"
  BY DEF EndOfLine
<1>13. lines \in Seq(Tokens)
  BY <1>2, <1>3
<1> DEFINE u == line \o lines
<1>14. /\ u \in Seq(Tokens) /\ Len(u) = Len(line) + Len(lines) /\ Len(lines) \in Nat
       /\ \A j \in 1 .. Len(line) : u[j] = line[j]
       /\ \A j \in 1 .. Len(lines) : u[Len(line) + j] = lines[j]
  BY <1>1, <1>13, ConcatElements
<1>15. T = u \o EndOfLine
  BY <1>4
<1> HIDE DEF u, T
<1>16. /\ T \in Seq(Tokens) /\ Len(T) = Len(u) + Len(EndOfLine)
       /\ \A j \in 1 .. Len(u) : T[j] = u[j]
       /\ \A j \in 1 .. Len(EndOfLine) : T[Len(u) + j] = EndOfLine[j]
  <2>1. u \in Seq(Tokens)
    BY <1>14
  <2> QED BY <1>10, <1>15, <2>1, ConcatElements
<1>17. Len(u) = HeaderEnd(K) /\ Len(u) \in Nat /\ LineEnd <= Len(u)
  <2>1. Len(u) = LineEnd + End(parts, K) /\ HeaderEnd(K) = LineEnd + End(parts, K)
    BY <1>6, <1>8, <1>9, <1>14
  <2>2. End(parts, K) \in Nat
    BY <1>9, <1>14
  <2> QED BY <1>7, <2>1, <2>2
<1>18. Len(T) = HeaderEnd(K) + 2
  BY <1>11, <1>16, <1>17
<1>19. T[HeaderEnd(K) + 1] = "\r" /\ T[HeaderEnd(K) + 2] = "\n"
  <2>1. 1 \in 1 .. Len(EndOfLine) /\ 2 \in 1 .. Len(EndOfLine)
    BY <1>11
  <2>2. T[Len(u) + 1] = EndOfLine[1] /\ T[Len(u) + 2] = EndOfLine[2]
    BY <1>16, <2>1
  <2> QED BY <1>12, <1>17, <2>2
<1>20. ASSUME NEW j \in 1 .. LineEnd PROVE T[j] = line[j]
  <2>1. j \in 1 .. Len(u) /\ j \in 1 .. Len(line)
    BY <1>7, <1>8, <1>17
  <2> QED BY <1>14, <1>16, <2>1
<1>21. ASSUME NEW k \in 1 .. K, NEW j \in 1 .. Len(parts[k])
       PROVE  T[HeaderEnd(k - 1) + j] = parts[k][j]
  <2> DEFINE x == End(parts, k - 1) + j
  <2>0. k \in 1 .. Len(parts)
    BY <1>2, <1>5
  <2>1. FlattenSeq(parts)[x] = parts[k][j]
    BY <1>3, <2>0
  <2>2. /\ End(parts, k) = End(parts, k - 1) + Len(parts[k])
        /\ End(parts, k - 1) \in Nat /\ End(parts, k) \in Nat
        /\ End(parts, k) <= End(parts, K) /\ Len(parts[k]) \in Nat
        /\ End(parts, K) \in Nat
    <3>1. k \in 0 .. Len(parts) /\ K \in k .. Len(parts) /\ k - 1 \in 0 .. Len(parts)
          /\ K \in 0 .. Len(parts)
      BY <1>2, <1>5
    <3>2. End(parts, k) <= End(parts, K)
      BY <1>2, <3>1, EndsAreOrdered
    <3>3. /\ End(parts, k) = End(parts, k - 1) + Len(parts[k])
          /\ End(parts, k - 1) \in Nat /\ End(parts, k) \in Nat /\ End(parts, K) \in Nat
      BY <1>2, <2>0, <3>1, EndsGrow
    <3>4. parts[k] \in Seq(Tokens)
      BY <1>2, <2>0
    <3> QED BY <3>2, <3>3, <3>4, LenProperties
  <2>3. x \in 1 .. Len(lines)
    <3>1. j \in Nat /\ j >= 1 /\ j <= Len(parts[k])
      BY <2>2
    <3>2. x <= End(parts, k) /\ x >= 1 /\ x \in Nat
      BY <2>2, <3>1
    <3> HIDE DEF x
    <3> QED BY <1>9, <2>2, <3>2
  <2> HIDE DEF x
  <2>4. u[Len(line) + x] = lines[x]
    BY <1>14, <2>3
  <2>5. Len(line) + x \in 1 .. Len(u)
    BY <1>7, <1>8, <1>14, <2>3
  <2>6. T[Len(line) + x] = parts[k][j]
    BY <1>2, <1>16, <2>1, <2>4, <2>5
  <2>7. Len(line) + x = HeaderEnd(k - 1) + j
    <3>1. HeaderEnd(k - 1) = LineEnd + End(parts, k - 1)
      BY <1>6
    <3> QED BY <1>7, <1>8, <2>2, <3>1 DEF x
  <2> QED BY <2>6, <2>7
<1>22. \A k \in 1 .. K : parts[k] = HeaderLine(headers[k])
  BY <1>2, <1>5
<1>23. \A k \in 1 .. K : \A j \in 1 .. Len(HeaderLine(headers[k])) :
         T[HeaderEnd(k - 1) + j] = HeaderLine(headers[k])[j]
  BY <1>21, <1>22
<1> QED BY <1>16, <1>18, <1>19, <1>20, <1>23 DEF T, K, headers, line

(* Where a header is, and what of it the code may stop at. *)
LEMMA HeaderPlace ==
  ASSUME request \in Requests, NEW k \in 1 .. HeaderCount
  PROVE  LET T == Text(request)
             a == request.headers[k][1]
             b == request.headers[k][2]
             start == HeaderEnd(k - 1)
             colon == start + Len(a) + 1
         IN /\ start \in Nat /\ colon \in Nat /\ start < colon
            /\ HeaderEnd(k) = colon + Len(b) + 3
            /\ HeaderEnd(k) <= Len(T) - 2
            /\ Len(a) \in Nat /\ Len(b) \in Nat
            /\ a \in Seq(Tokens) /\ b \in Seq(Tokens)
            /\ \A j \in 1 .. Len(a) : a[j] \notin {":", "\r", "\n"}
            /\ \A j \in 1 .. Len(b) : b[j] \notin {"\r", "\n"}
            /\ \A j \in 1 .. Len(a) : T[start + j] = a[j]
            /\ T[colon] = ":" /\ T[colon + 1] = " "
            /\ \A j \in 1 .. Len(b) : T[colon + 1 + j] = b[j]
            /\ T[HeaderEnd(k) - 1] = "\r" /\ T[HeaderEnd(k)] = "\n"
<1> DEFINE T == Text(request)
           h == request.headers[k]
           a == h[1]
           b == h[2]
           w == HeaderLine(h)
           start == HeaderEnd(k - 1)
           colon == start + Len(a) + 1
<1>1. h \in Headers
  <2> DEFINE headers == request.headers
  <2>1. headers \in Seq(Headers) /\ HeaderCount = Len(headers)
    BY RequestProperties DEF HeaderCount
  <2> HIDE DEF headers
  <2> QED BY <2>1 DEF headers
<1>2. /\ HeaderEnd(k) = start + Len(a) + Len(b) + 4
      /\ start \in Nat /\ HeaderEnd(k) \in Nat
      /\ HeaderEnd(k) <= HeaderEnd(HeaderCount) /\ HeaderEnd(HeaderCount) \in Nat
  <2>1. /\ k - 1 \in 0 .. HeaderCount /\ k \in 0 .. HeaderCount
        /\ HeaderCount \in k .. HeaderCount /\ HeaderCount \in 0 .. HeaderCount
    BY HeaderEnds
  <2> QED BY <2>1, HeaderEnds
<1>3. /\ Len(T) = HeaderEnd(HeaderCount) + 2
      /\ \A j \in 1 .. Len(w) : T[start + j] = w[j]
  BY TextLayout
<1> HIDE DEF T, h, start
<1>4. /\ a \in Seq(Tokens) /\ b \in Seq(Tokens)
      /\ Len(a) \in Nat /\ Len(b) \in Nat
      /\ \A j \in 1 .. Len(a) : a[j] \notin {":", "\r", "\n"}
      /\ \A j \in 1 .. Len(b) : b[j] \notin {"\r", "\n"}
      /\ Len(w) = Len(a) + Len(b) + 4
      /\ \A j \in 1 .. Len(a) : w[j] = a[j]
      /\ w[Len(a) + 1] = ":"
      /\ w[Len(a) + 2] = " "
      /\ \A j \in 1 .. Len(b) : w[Len(a) + 2 + j] = b[j]
      /\ w[Len(a) + Len(b) + 3] = "\r"
      /\ w[Len(a) + Len(b) + 4] = "\n"
  BY <1>1, HeaderLayout
<1> HIDE DEF a, b, w
<1>5. Len(a) \in Nat /\ Len(b) \in Nat /\ Len(w) = Len(a) + Len(b) + 4
  BY <1>4
<1>6. /\ colon \in Nat /\ start < colon /\ HeaderEnd(k) = colon + Len(b) + 3
      /\ HeaderEnd(k) <= Len(T) - 2
  BY <1>2, <1>3, <1>5
<1>7. ASSUME NEW j \in 1 .. Len(a) PROVE T[start + j] = a[j]
  <2>1. j \in 1 .. Len(w)
    BY <1>5
  <2> QED BY <1>3, <1>4, <2>1
<1>8. ASSUME NEW j \in 1 .. Len(b) PROVE T[colon + 1 + j] = b[j]
  <2> DEFINE x == Len(a) + 2 + j
  <2>1. x \in 1 .. Len(w) /\ start + x = colon + 1 + j
    BY <1>2, <1>5
  <2>2. w[x] = b[j]
    BY <1>4
  <2> HIDE DEF x, colon
  <2>3. T[start + x] = w[x]
    BY <1>3, <2>1
  <2> QED BY <2>1, <2>2, <2>3
<1>9. /\ T[colon] = ":" /\ T[colon + 1] = " "
      /\ T[HeaderEnd(k) - 1] = "\r" /\ T[HeaderEnd(k)] = "\n"
  <2>1. /\ Len(a) + 1 \in 1 .. Len(w) /\ Len(a) + 2 \in 1 .. Len(w)
        /\ Len(a) + Len(b) + 3 \in 1 .. Len(w) /\ Len(a) + Len(b) + 4 \in 1 .. Len(w)
    BY <1>5
  <2>2. /\ T[start + (Len(a) + 1)] = w[Len(a) + 1]
        /\ T[start + (Len(a) + 2)] = w[Len(a) + 2]
        /\ T[start + (Len(a) + Len(b) + 3)] = w[Len(a) + Len(b) + 3]
        /\ T[start + (Len(a) + Len(b) + 4)] = w[Len(a) + Len(b) + 4]
    BY <1>3, <2>1
  <2>3. /\ start + (Len(a) + 1) = colon /\ start + (Len(a) + 2) = colon + 1
        /\ start + (Len(a) + Len(b) + 3) = HeaderEnd(k) - 1
        /\ start + (Len(a) + Len(b) + 4) = HeaderEnd(k)
    BY <1>2, <1>5
  <2> HIDE DEF colon
  <2> QED BY <1>4, <2>2, <2>3
<1> QED BY <1>2, <1>4, <1>6, <1>7, <1>8, <1>9 DEF T, h, a, b, start

-----------------------------------------------------------------------------
(* One turn of the loop over the headers, with a colon ahead and without.  *)

LEMMA StreamFields ==
  ASSUME NEW s \in Stream
  PROVE  /\ s.pos \in 1 .. Len(text) + 1 /\ s.eof \in BOOLEAN /\ s.fail \in BOOLEAN
         /\ s = [pos |-> s.pos, eof |-> s.eof, fail |-> s.fail]
BY DEF Stream

(* The end of a stream is not taken back by reading on. *)
LEMMA EndStays ==
  ASSUME PInv, NEW s \in Stream, s.eof
  PROVE  /\ IgnoreOne(s).eof
         /\ \A str \in Seq(Characters) : \A delim : GetLine(s, str, delim).is.eof
<1>1. IgnoreOne(s).eof
  BY IgnoreProperties DEF PInv
<1>2. ASSUME NEW str \in Seq(Characters), NEW delim
      PROVE  GetLine(s, str, delim).is.eof
  <2>1. Reads(s, GetLine(s, str, delim))
    BY GetLineProperties DEF PInv
  <2>2. ~Good(s)
    BY DEF Good
  <2> QED BY <2>1, <2>2 DEF Reads
<1> QED BY <1>1, <1>2

(* A turn without a colon is the last: it keeps the headers, when nothing  *)
(* or the blank line is left, or takes the rest for a key.                 *)
LEMMA TurnWithoutColon ==
  ASSUME PInv, ReadHeader, \A j \in is.pos .. Len(text) : text[j] # ":"
  PROVE  /\ is'.eof
         /\ \/ /\ mHttpHeaders' = mHttpHeaders
               /\ is.pos = Len(text) + 1 \/ SubSeq(text, is.pos, Len(text)) = EndOfLine
            \/ /\ is.pos <= Len(text) /\ SubSeq(text, is.pos, Len(text)) # EndOfLine
               /\ \E key, v : mHttpHeaders' = Insert(mHttpHeaders, key, v)
<1> DEFINE line == GetLine(is, <<>>, ":")
           first == line.is
           key == line.str
           value == ValueAfter(first)
<1>1. /\ Good(is) /\ is \in Stream /\ text \in Seq(Characters)
      /\ secondBuffer \in Seq(Characters) /\ <<>> \in Seq(Characters)
  BY EmptySeq DEF PInv, ReadHeader, Fine
<1>2. first.eof /\ first.pos = Len(text) + 1 /\ first.fail = (is.pos = Len(text) + 1)
      /\ key = SubSeq(text, is.pos, Len(text))
  BY <1>1, GetLineCut
<1>3. first \in Stream /\ key \in Seq(Characters)
  BY <1>1, GetLineProperties DEF Reads
<1>4. \/ is' = first /\ mHttpHeaders' = mHttpHeaders /\ key = EndOfLine
      \/ /\ is' = SkipLine(first) /\ first.fail /\ mHttpHeaders' = mHttpHeaders
      \/ /\ is' = value.is /\ ~first.fail /\ key # EndOfLine
         /\ mHttpHeaders' = Insert(mHttpHeaders, key, UntilReturn(value.str))
  BY DEF ReadHeader
<1> HIDE DEF first, key
<1>5. SkipLine(first).eof
  <2> DEFINE c == Cleared(first)
  <2>1. c \in Stream /\ Good(c) /\ c.pos = Len(text) + 1
    BY <1>2, <1>3 DEF Cleared, Stream, Good
  <2> HIDE DEF c
  <2>2. IgnoreLine(c).eof
    BY <1>1, <2>1, IgnoreProperties
  <2> QED BY <2>2 DEF SkipLine, c
<1>6. value.is.eof
  <2> DEFINE skipped == IgnoreOne(first)
  <2>1. skipped \in Stream /\ skipped.eof
    BY <1>1, <1>2, <1>3, IgnoreProperties, EndStays
  <2> HIDE DEF skipped
  <2>2. GetLine(skipped, secondBuffer, "\n").is.eof
    BY <1>1, <2>1, EndStays
  <2> QED BY <2>2 DEF ValueAfter, skipped
<1>7. is.pos \in 1 .. Len(text) + 1 /\ Len(text) \in Nat
  BY <1>1, StreamFields
<1> HIDE DEF value
<1>8. is'.eof
  BY <1>2, <1>4, <1>5, <1>6
<1>9. (is.pos = Len(text) + 1) => key # EndOfLine
  <2> SUFFICES ASSUME is.pos = Len(text) + 1 PROVE key # EndOfLine
    OBVIOUS
  <2>1. is.pos \in Int /\ Len(text) \in Int /\ Len(text) < is.pos
    BY <1>7
  <2>2. key = <<>>
    BY <1>2, <2>1, SubSeqEmpty
  <2>3. EndOfLine # <<>>
    BY DEF EndOfLine
  <2> QED BY <2>2, <2>3
<1>10. is.pos # Len(text) + 1 => is.pos <= Len(text)
  BY <1>7
<1> QED BY <1>2, <1>4, <1>8, <1>10

(* What a turn comes to that reads key before a colon at q: the value      *)
(* reaches to the end of the line, at z, and if that has not arrived, the  *)
(* turn is the last.                                                       *)
ColonTurn(q, key) ==
  /\ (\A j \in q + 2 .. Len(text) : text[j] # "\n") =>
       is'.eof /\ \E v : mHttpHeaders' = Insert(mHttpHeaders, key, v)
  /\ \A z \in q + 2 .. Len(text) :
       text[z] = "\n" /\ (\A j \in q + 2 .. z - 1 : text[j] # "\n") =>
         /\ ~is'.eof /\ is'.pos = z + 1
         /\ mHttpHeaders' =
              Insert(mHttpHeaders, key, UntilReturn(SubSeq(text, q + 2, z - 1)))

ColonAt(q, key) ==
  /\ text[q] = ":" /\ \A j \in is.pos .. q - 1 : text[j] # ":"
  /\ key = SubSeq(text, is.pos, q - 1)

(* A turn that finds a colon: the key is what stands before it.            *)
LEMMA TurnWithColon ==
  ASSUME PInv, ReadHeader, NEW q \in is.pos .. Len(text), NEW key,
         ColonAt(q, key), key # EndOfLine
  PROVE  ColonTurn(q, key)
<1>0. /\ text[q] = ":" /\ \A j \in is.pos .. q - 1 : text[j] # ":"
      /\ key = SubSeq(text, is.pos, q - 1)
  BY DEF ColonAt
<1> DEFINE line == GetLine(is, <<>>, ":")
           first == line.is
           skipped == IgnoreOne(first)
           value == GetLine(skipped, secondBuffer, "\n")
<1>1. /\ Good(is) /\ is \in Stream /\ text \in Seq(Characters)
      /\ secondBuffer \in Seq(Characters) /\ <<>> \in Seq(Characters)
  BY EmptySeq DEF PInv, ReadHeader, Fine
<1>2. first = [pos |-> q + 1, eof |-> FALSE, fail |-> FALSE] /\ line.str = key
  <2>1. /\ GetLine(is, <<>>, ":").is = [pos |-> q + 1, eof |-> FALSE, fail |-> FALSE]
        /\ GetLine(is, <<>>, ":").str = SubSeq(text, is.pos, q - 1)
    <3> HIDE DEF value, skipped, first, line
    <3>1. ReadUpto(GetLine(is, <<>>, ":"), is, q)
      BY <1>0, <1>1, GetLineFound
    <3> QED BY <3>1 DEF ReadUpto
  <2> QED BY <1>0, <2>1
<1>3. /\ is.pos \in 1 .. Len(text) + 1 /\ Len(text) \in Nat
      /\ is = [pos |-> is.pos, eof |-> is.eof, fail |-> is.fail]
  BY <1>1, StreamFields
<1>4. is.eof = FALSE /\ is.fail = FALSE
  BY <1>1 DEF Good, Stream
<1>5. q \in 1 .. Len(text) /\ q + 1 \in 1 .. Len(text) + 1
  BY <1>3
<1>6. first = [pos |-> q + 1, eof |-> FALSE, fail |-> FALSE]
  BY <1>2
<1>7. /\ is' = value.is
      /\ mHttpHeaders' = Insert(mHttpHeaders, key, UntilReturn(value.str))
  <2>1. ~first.fail
    BY <1>6
  <2> QED BY <1>2, <2>1 DEF ReadHeader, ValueAfter
<1> HIDE DEF first
<1>8. first \in Stream /\ Good(first) /\ first.pos = q + 1
  BY <1>5, <1>6 DEF Stream, Good
<1>9. CASE q + 1 > Len(text)
  <2>1. skipped = [first EXCEPT !.eof = TRUE]
    BY <1>8, <1>9 DEF IgnoreOne
  <2>2. skipped \in Stream /\ skipped.eof
    BY <1>5, <1>6, <2>1 DEF Stream
  <2> HIDE DEF skipped
  <2>3. value.is.eof
    BY <1>1, <2>2, EndStays
  <2>4. ~ \E z \in q + 2 .. Len(text) : TRUE
    BY <1>5, <1>9
  <2> HIDE DEF value
  <2> QED BY <1>7, <2>3, <2>4 DEF ColonTurn
<1>10. CASE q + 1 <= Len(text)
  <2>1. skipped = [first EXCEPT !.pos = @ + 1]
    BY <1>3, <1>5, <1>8, <1>10 DEF IgnoreOne
  <2>2. skipped = [pos |-> q + 2, eof |-> FALSE, fail |-> FALSE]
    <3> HIDE DEF skipped, value, line
    <3>1. first.pos + 1 = q + 2
      BY <1>5, <1>8
    <3>2. skipped = [pos |-> first.pos + 1, eof |-> FALSE, fail |-> FALSE]
      BY <1>6, <2>1
    <3> QED BY <3>1, <3>2
  <2>3. q + 2 \in 1 .. Len(text) + 1
    BY <1>3, <1>5, <1>10
  <2> HIDE DEF skipped
  <2>4. skipped \in Stream /\ Good(skipped) /\ skipped.pos = q + 2
    BY <2>2, <2>3 DEF Stream, Good
  <2>5. ASSUME \A j \in q + 2 .. Len(text) : text[j] # "\n"
        PROVE  is'.eof /\ \E v : mHttpHeaders' = Insert(mHttpHeaders, key, v)
    <3>1. value.is.eof
      BY <1>1, <2>4, <2>5, GetLineCut
    <3> HIDE DEF value
    <3> QED BY <1>7, <3>1
  <2>6. ASSUME NEW z \in q + 2 .. Len(text), text[z] = "\n",
               \A j \in q + 2 .. z - 1 : text[j] # "\n"
        PROVE  /\ ~is'.eof /\ is'.pos = z + 1
               /\ mHttpHeaders' =
                    Insert(mHttpHeaders, key, UntilReturn(SubSeq(text, q + 2, z - 1)))
    <3>1. /\ value.is = [pos |-> z + 1, eof |-> FALSE, fail |-> FALSE]
          /\ value.str = SubSeq(text, q + 2, z - 1)
      <4>1. z \in skipped.pos .. Len(text) /\ \A j \in skipped.pos .. z - 1 : text[j] # "\n"
        BY <2>4, <2>6
      <4> HIDE DEF line
      <4>2. /\ value.is = [pos |-> z + 1, eof |-> FALSE, fail |-> FALSE]
            /\ value.str = SubSeq(text, skipped.pos, z - 1)
        <5>1. ReadUpto(GetLine(skipped, secondBuffer, "\n"), skipped, z)
          BY <1>1, <2>4, <2>6, <4>1, GetLineFound
        <5> QED BY <5>1 DEF ReadUpto
      <4> QED BY <2>4, <4>2
    <3> HIDE DEF value
    <3>2. value.is.pos = z + 1 /\ value.is.eof = FALSE
      BY <2>2, <3>1
    <3> QED BY <1>7, <3>1, <3>2
  <2> QED BY <2>5, <2>6 DEF ColonTurn
<1> QED BY <1>3, <1>5, <1>9, <1>10

-----------------------------------------------------------------------------
(* How much of the headers is read, and what the next turn makes of it.    *)

(* The text is the request, cut off somewhere. *)
TextInv ==
  /\ request \in Requests
  /\ Len(text) \in 0 .. Len(Text(request))
  /\ text = SubSeq(Text(request), 1, Len(text))

(* The headers that PrepareResponse keeps of the first k. *)
Read(k) == FirstValues(SubSeq(request.headers, 2, k))

(* Between two turns: k headers read, or no header and the text at its end. *)
AtHeader(k) ==
  /\ mHttpHeaders = Read(k)
  /\ k # 0 => is.pos = HeaderEnd(k) + 1
  /\ k = 0 => HeaderCount = 0 /\ is.pos = Len(text) + 1 /\ Len(text) = LineEnd + 2

(* k is the number of headers that arrived whole. *)
Whole(k) ==
  HeaderEnd(k) <= Len(text) /\ (k < HeaderCount => Len(text) < HeaderEnd(k + 1))

(* After the last turn: the headers read, and one made from the rest of    *)
(* the text if that ends within a line.                                    *)
ReadAll(k) == mHttpHeaders = Read(k) /\ (Last(text) = "\n" => Whole(k))

OneMore(k) ==
  /\ Last(text) # "\n"
  /\ \E key \in DOMAIN mHttpHeaders : mHttpHeaders = Insert(Read(k), key, mHttpHeaders[key])

LEMMA TextPrefix ==
  ASSUME TextInv
  PROVE  /\ Len(text) \in Nat /\ Len(text) <= Len(Text(request))
         /\ Len(Text(request)) \in Nat
         /\ \A j \in 1 .. Len(text) : text[j] = Text(request)[j]
<1> DEFINE T == Text(request)
           n == Len(text)
<1>1. T \in Seq(Tokens)
  BY TextLayout DEF TextInv
<1>2. n \in 0 .. Len(T) /\ text = SubSeq(T, 1, n)
  BY DEF TextInv
<1> HIDE DEF T, n
<1>3. Len(T) \in Nat /\ n \in Nat /\ n <= Len(T)
  BY <1>1, <1>2
<1>4. \A j \in 1 .. n : T[j] \in Tokens
  BY <1>1, <1>3
<1>5. \A j \in 1 .. n - 1 + 1 : SubSeq(T, 1, n)[j] = T[1 + j - 1]
  BY <1>3, <1>4, SubSeqProperties
<1>6. \A j \in 1 .. n : text[j] = T[j]
  BY <1>2, <1>3, <1>5
<1> QED BY <1>3, <1>6 DEF T, n

(* Reading the next header. *)
LEMMA ReadNext ==
  ASSUME request \in Requests, NEW k \in 1 .. HeaderCount, k < HeaderCount
  PROVE  Read(k + 1) =
           Insert(Read(k), request.headers[k + 1][1], request.headers[k + 1][2])
<1> DEFINE headers == request.headers
           a == SubSeq(headers, 2, k)
           b == SubSeq(headers, 2, k + 1)
<1>1. headers \in Seq(Headers) /\ HeaderCount = Len(headers)
  BY RequestProperties DEF HeaderCount
<1> HIDE DEF headers
<1>2. k \in Nat /\ k >= 1 /\ k < Len(headers) /\ Len(headers) \in Nat
  BY <1>1
<1>3. /\ a \in Seq(Headers) /\ Len(a) = k - 1
      /\ \A j \in 1 .. k - 1 : a[j] = headers[j + 1]
  <2>1. \A j \in 2 .. k : headers[j] \in Headers
    BY <1>1, <1>2
  <2> HIDE DEF a
  <2>2. /\ a \in Seq(Headers) /\ Len(a) = IF 2 <= k THEN k - 2 + 1 ELSE 0
        /\ \A j \in 1 .. k - 2 + 1 : a[j] = headers[2 + j - 1]
    BY <1>2, <2>1, SubSeqProperties DEF a
  <2> QED BY <1>2, <2>2
<1>4. /\ b \in Seq(Headers) /\ Len(b) = k
      /\ \A j \in 1 .. k : b[j] = headers[j + 1]
  <2>1. \A j \in 2 .. k + 1 : headers[j] \in Headers
    BY <1>1, <1>2
  <2> HIDE DEF b
  <2>2. /\ b \in Seq(Headers) /\ Len(b) = IF 2 <= k + 1 THEN k + 1 - 2 + 1 ELSE 0
        /\ \A j \in 1 .. k + 1 - 2 + 1 : b[j] = headers[2 + j - 1]
    BY <1>2, <2>1, SubSeqProperties DEF b
  <2> QED BY <1>2, <2>2
<1> HIDE DEF a, b
<1>5. Len(b) = Len(a) + 1 /\ \A j \in 1 .. Len(a) : b[j] = a[j]
  <2>1. Len(b) = k /\ Len(a) = k - 1
    BY <1>3, <1>4
  <2>2. \A j \in 1 .. k - 1 : j \in 1 .. k
    BY <1>2
  <2>3. \A j \in 1 .. k - 1 : b[j] = a[j]
    BY <1>3, <1>4, <2>2
  <2> QED BY <1>2, <2>1, <2>3
<1>6. b[Len(b)] = headers[k + 1]
  BY <1>2, <1>4
<1>7. FirstValues(b) = Insert(FirstValues(a), b[Len(b)][1], b[Len(b)][2])
  BY <1>3, <1>4, <1>5, FirstValuesInsert
<1> QED BY <1>6, <1>7 DEF Read, a, b, headers

(* A line that std::getline reads up to its line feed still has its        *)
(* carriage return.                                                        *)
LEMMA ValueIs ==
  ASSUME TextInv, NEW v \in Seq(Tokens), NEW m \in 1 .. Len(text), NEW z \in 1 .. Len(text),
         z = m + Len(v) + 1, \A j \in 1 .. Len(v) : v[j] # "\r",
         \A j \in 1 .. Len(v) : text[m + j - 1] = v[j], text[z - 1] = "\r"
  PROVE  UntilReturn(SubSeq(text, m, z - 1)) = v
<1> DEFINE cr == <<"\r">>
           w == v \o cr
           n == Len(v)
<1>1. "\r" \in Tokens
  BY DEF Tokens
<1>2. cr \in Seq(Tokens)
  BY <1>1, Tuples
<1>3. Len(cr) = 1
  OBVIOUS
<1>4. cr[1] = "\r"
  OBVIOUS
<1>5. n \in Nat /\ m \in Int /\ z \in Int
  BY TextPrefix, LenProperties
<1> HIDE DEF cr
<1>6. /\ w \in Seq(Tokens) /\ Len(w) = Len(v) + Len(cr)
      /\ \A j \in 1 .. Len(v) : w[j] = v[j]
      /\ \A j \in 1 .. Len(cr) : w[Len(v) + j] = cr[j]
  BY <1>2, ConcatElements
<1> HIDE DEF w
<1>7. Len(w) = n + 1 /\ \A j \in 1 .. n : w[j] = v[j]
  BY <1>3, <1>6
<1>8. w[n + 1] = "\r"
  <2>1. 1 \in 1 .. Len(cr)
    BY <1>3
  <2> QED BY <1>4, <1>6, <2>1
<1>9. SubSeq(text, m, z - 1) = w
  <2>1. ASSUME NEW j \in 1 .. Len(w) PROVE text[m + j - 1] = w[j]
    <3>1. CASE j <= n
      <4>1. j \in 1 .. n
        BY <1>5, <3>1
      <4> QED BY <1>7, <4>1
    <3>2. CASE j = n + 1
      <4>1. m + j - 1 = z - 1
        BY <1>5, <3>2
      <4> QED BY <1>8, <3>2, <4>1
    <3>3. j <= n \/ j = n + 1
      BY <1>5, <1>7
    <3> QED BY <3>1, <3>2, <3>3
  <2>2. z - 1 \in Int /\ Len(w) = z - 1 - m + 1
    <3>1. Len(w) = n + 1 /\ z = m + n + 1
      BY <1>7
    <3> QED BY <1>5, <3>1
  <2>3. w \in Seq(Tokens)
    BY <1>6
  <2> QED BY <1>5, <2>1, <2>2, <2>3, SameElements
<1>10. Position(w, "\r") = n + 1
  <2>1. n + 1 \in 1 .. Len(w)
    BY <1>5, <1>7
  <2>2. \A j \in 1 .. n + 1 - 1 : w[j] # "\r"
    <3>1. n + 1 - 1 = n
      BY <1>5
    <3> QED BY <1>7, <3>1
  <2>3. w \in Seq(Tokens)
    BY <1>6
  <2> DEFINE q == n + 1
  <2>4. q \in 1 .. Len(w) /\ w[q] = "\r" /\ \A j \in 1 .. q - 1 : w[j] # "\r"
    BY <1>8, <2>1, <2>2
  <2> HIDE DEF q
  <2>5. Position(w, "\r") = q
    BY ONLY <2>3, <2>4, PositionFound
  <2> QED BY <2>5 DEF q
<1>11. UntilReturn(w) = SubSeq(w, 1, n)
  <2>1. n + 1 # 0 /\ n + 1 - 1 = n
    BY <1>5
  <2> QED BY <1>10, <2>1 DEF UntilReturn
<1>12. SubSeq(w, 1, n) = v
  <2>1. \A j \in 1 .. Len(v) : w[1 + j - 1] = v[j]
    <3> SUFFICES ASSUME NEW j \in 1 .. Len(v) PROVE w[1 + j - 1] = v[j]
      OBVIOUS
    <3>1. 1 + j - 1 = j
      BY <1>5
    <3> QED BY <1>7, <3>1
  <2>2. 1 \in Int /\ n \in Int /\ Len(v) = n - 1 + 1
    BY <1>5
  <2> QED BY <2>1, <2>2, SameElements
<1> QED BY <1>9, <1>11, <1>12

(* What a turn that starts after k headers may come to. *)
TurnEnds(k) ==
  \/ is'.eof /\ mHttpHeaders' = Read(k) /\ (Last(text) = "\n" => Whole(k))
  \/ /\ is'.eof /\ Last(text) # "\n"
     /\ \E key, v : mHttpHeaders' = Insert(Read(k), key, v)
  \/ /\ ~is'.eof /\ k < HeaderCount /\ k # 0
     /\ is'.pos = HeaderEnd(k + 1) + 1 /\ mHttpHeaders' = Read(k + 1)

(* The turn after the last header: the blank line, or what came of it. *)
LEMMA LastTurn ==
  ASSUME PInv, TextInv, ReadHeader, AtHeader(HeaderCount)
  PROVE  TurnEnds(HeaderCount)
<1> DEFINE k == HeaderCount
           T == Text(request)
           n == Len(text)
<1>1. /\ k \in Nat /\ HeaderEnd(k) \in Nat /\ LineEnd \in Nat
      /\ HeaderEnd(0) = LineEnd
  <2>1. request \in Requests
    BY DEF TextInv
  <2>2. k \in Nat /\ k \in 0 .. HeaderCount
    BY <2>1, HeaderEnds
  <2> QED BY <2>1, <2>2, HeaderEnds
<1>2. /\ Len(T) = HeaderEnd(k) + 2
      /\ T[HeaderEnd(k) + 1] = "\r" /\ T[HeaderEnd(k) + 2] = "\n"
  BY TextLayout DEF TextInv
<1>3. n \in Nat /\ n <= Len(T) /\ \A j \in 1 .. n : text[j] = T[j]
  BY TextPrefix
<1>4. is.pos \in 1 .. n + 1
  BY StreamFields DEF PInv
<1>5. is.pos >= HeaderEnd(k) + 1 /\ is.pos \in Nat
  <2>1. CASE k # 0
    BY <1>1, <1>4, <2>1 DEF AtHeader
  <2>2. CASE k = 0
    <3>1. is.pos = n + 1 /\ n = LineEnd + 2
      BY <2>2 DEF AtHeader
    <3>2. HeaderEnd(k) = LineEnd
      BY <1>1, <2>2
    <3> QED BY <1>1, <3>1, <3>2
  <2> QED BY <2>1, <2>2
<1>6. HeaderEnd(k) <= n
  BY <1>1, <1>3, <1>4, <1>5
<1>7. \A j \in is.pos .. n : text[j] # ":" /\ (text[j] = "\r" \/ text[j] = "\n")
  <2> SUFFICES ASSUME NEW j \in is.pos .. n
               PROVE  text[j] # ":" /\ (text[j] = "\r" \/ text[j] = "\n")
    OBVIOUS
  <2>1. j \in 1 .. n /\ (j = HeaderEnd(k) + 1 \/ j = HeaderEnd(k) + 2)
    <3>1. j >= HeaderEnd(k) + 1 /\ j <= HeaderEnd(k) + 2 /\ j \in Int /\ j <= n
      BY <1>1, <1>2, <1>3, <1>4, <1>5
    <3> QED BY <1>1, <1>3, <3>1
  <2>2. text[j] = T[j]
    BY <1>3, <2>1
  <2> QED BY <1>2, <2>1, <2>2
<1>8. /\ is'.eof
      /\ \/ mHttpHeaders' = mHttpHeaders
         \/ /\ is.pos <= n /\ SubSeq(text, is.pos, n) # EndOfLine
            /\ \E key, v : mHttpHeaders' = Insert(mHttpHeaders, key, v)
  <2>1. \A j \in is.pos .. Len(text) : text[j] # ":"
    BY <1>7
  <2> HIDE DEF k
  <2> QED BY <2>1, TurnWithoutColon
<1>9. mHttpHeaders = Read(k)
  BY DEF AtHeader
<1>10. Whole(k)
  BY <1>1, <1>6 DEF Whole
<1>11. CASE mHttpHeaders' = mHttpHeaders
  BY <1>8, <1>9, <1>10, <1>11 DEF TurnEnds
<1>12. CASE /\ is.pos <= n /\ SubSeq(text, is.pos, n) # EndOfLine
            /\ \E key, v : mHttpHeaders' = Insert(mHttpHeaders, key, v)
  <2>1. Last(text) # "\n"
    <3> SUFFICES ASSUME text[n] = "\n" PROVE FALSE
      BY DEF Last
    <3>1. n \in 1 .. n /\ text[n] = T[n]
      BY <1>3, <1>4, <1>12
    <3>2. n = HeaderEnd(k) + 1 \/ n = HeaderEnd(k) + 2
      BY <1>1, <1>2, <1>3, <1>5, <1>12
    <3>3. n = HeaderEnd(k) + 2
      BY <1>2, <3>1, <3>2
    <3>4. k # 0
      <4> SUFFICES ASSUME k = 0 PROVE FALSE
        OBVIOUS
      <4>1. is.pos = n + 1
        BY DEF AtHeader
      <4> QED BY <1>3, <1>12, <4>1
    <3>5. is.pos = n - 1
      <4>1. is.pos = HeaderEnd(k) + 1
        BY <3>4 DEF AtHeader
      <4> QED BY <1>1, <3>3, <4>1
    <3>6. n - 1 \in 1 .. n /\ text[n - 1] = "\r"
      <4>1. n - 1 \in 1 .. n /\ n - 1 = HeaderEnd(k) + 1
        BY <1>1, <1>3, <1>4, <3>3, <3>5
      <4>2. text[n - 1] = T[n - 1]
        BY <1>3, <4>1
      <4> QED BY <1>2, <4>1, <4>2
    <3>7. SubSeq(text, n - 1, n) = EndOfLine
      <4>1. EndOfLine \in Seq(Tokens)
        <5>1. "\r" \in Tokens /\ "\n" \in Tokens
          BY DEF Tokens
        <5> QED BY <5>1, Tuples DEF EndOfLine
      <4>2. Len(EndOfLine) = 2
        BY DEF EndOfLine
      <4>3. EndOfLine[1] = "\r" /\ EndOfLine[2] = "\n"
        BY DEF EndOfLine
      <4>4. ASSUME NEW j \in 1 .. 2 PROVE text[n - 1 + j - 1] = EndOfLine[j]
        <5>1. CASE j = 1
          <6>1. n - 1 + j - 1 = n - 1
            BY <1>3, <5>1
          <6> QED BY <3>6, <4>3, <5>1, <6>1
        <5>2. CASE j = 2
          <6>1. n - 1 + j - 1 = n
            BY <1>3, <5>2
          <6> QED BY <4>3, <5>2, <6>1
        <5> QED BY <5>1, <5>2
      <4>5. n - 1 \in Int /\ n \in Int /\ 2 = n - (n - 1) + 1
        BY <1>3
      <4>6. Len(EndOfLine) = n - (n - 1) + 1
            /\ \A j \in 1 .. Len(EndOfLine) : text[n - 1 + j - 1] = EndOfLine[j]
        BY <4>2, <4>4, <4>5
      <4> HIDE DEF n
      <4> QED BY <4>1, <4>5, <4>6, SameElements
    <3> QED BY <1>12, <3>5, <3>7
  <2> QED BY <1>8, <1>9, <1>12, <2>1 DEF TurnEnds
<1> QED BY <1>8, <1>11, <1>12

(* The turn that reads header k + 1. *)
LEMMA NextTurn ==
  ASSUME PInv, TextInv, ReadHeader, NEW k \in 1 .. HeaderCount, k < HeaderCount,
         AtHeader(k)
  PROVE  TurnEnds(k)
<1> DEFINE T == Text(request)
           n == Len(text)
           h == request.headers[k + 1]
           a == h[1]
           b == h[2]
           start == HeaderEnd(k)
           colon == start + Len(a) + 1
           end == HeaderEnd(k + 1)
           la == Len(a)
           lb == Len(b)
           lt == Len(T)
<1>1. HeaderCount \in Nat /\ request \in Requests
  BY HeaderEnds DEF TextInv
<1>2. k + 1 \in 1 .. HeaderCount /\ (k + 1) - 1 = k /\ k # 0 /\ k \in Nat
  BY <1>1
<1>3. /\ start \in Nat /\ colon \in Nat /\ start < colon
      /\ end = colon + Len(b) + 3 /\ end <= Len(T) - 2
      /\ Len(a) \in Nat /\ Len(b) \in Nat
      /\ a \in Seq(Tokens) /\ b \in Seq(Tokens)
      /\ \A j \in 1 .. Len(a) : a[j] \notin {":", "\r", "\n"}
      /\ \A j \in 1 .. Len(b) : b[j] \notin {"\r", "\n"}
      /\ \A j \in 1 .. Len(a) : T[start + j] = a[j]
      /\ T[colon] = ":" /\ T[colon + 1] = " "
      /\ \A j \in 1 .. Len(b) : T[colon + 1 + j] = b[j]
      /\ T[end - 1] = "\r" /\ T[end] = "\n"
  <2> DEFINE m == k + 1
  <2>1. m \in 1 .. HeaderCount /\ m - 1 = k
    BY <1>2
  <2> HIDE DEF m
  <2>2. LET a1 == request.headers[m][1]
            b1 == request.headers[m][2]
            start1 == HeaderEnd(m - 1)
            colon1 == start1 + Len(a1) + 1
        IN /\ start1 \in Nat /\ colon1 \in Nat /\ start1 < colon1
           /\ HeaderEnd(m) = colon1 + Len(b1) + 3
           /\ HeaderEnd(m) <= Len(T) - 2
           /\ Len(a1) \in Nat /\ Len(b1) \in Nat
           /\ a1 \in Seq(Tokens) /\ b1 \in Seq(Tokens)
           /\ \A j \in 1 .. Len(a1) : a1[j] \notin {":", "\r", "\n"}
           /\ \A j \in 1 .. Len(b1) : b1[j] \notin {"\r", "\n"}
           /\ \A j \in 1 .. Len(a1) : T[start1 + j] = a1[j]
           /\ T[colon1] = ":" /\ T[colon1 + 1] = " "
           /\ \A j \in 1 .. Len(b1) : T[colon1 + 1 + j] = b1[j]
           /\ T[HeaderEnd(m) - 1] = "\r" /\ T[HeaderEnd(m)] = "\n"
    BY <1>1, <2>1, HeaderPlace
  <2> QED BY <2>1, <2>2 DEF m
<1>4. n \in Nat /\ n <= Len(T) /\ \A j \in 1 .. n : text[j] = T[j]
  BY TextPrefix
<1>5. is.pos = start + 1 /\ is.pos \in 1 .. n + 1 /\ mHttpHeaders = Read(k)
  <2>1. is.pos \in 1 .. n + 1
    BY StreamFields DEF PInv
  <2> QED BY <1>2, <2>1 DEF AtHeader
<1>11. /\ start \in Nat /\ la \in Nat /\ lb \in Nat /\ lt \in Nat /\ n \in Nat
       /\ colon = start + la + 1 /\ end = colon + lb + 3
       /\ end <= lt - 2 /\ n <= lt
  <2> HIDE DEF T, n, a, b, start, end
  <2>1. lt \in Nat
    BY TextPrefix DEF T
  <2> QED BY <1>3, <1>4, <2>1
<1> HIDE DEF T, n, h, a, b, start, colon, end, la, lb, lt
<1>12. colon \in Nat /\ end \in Nat
  BY <1>11
<1>13. a \in Seq(Tokens) /\ b \in Seq(Tokens)
  BY <1>3
<1>14. \A j \in 1 .. la : a[j] \notin {":", "\r", "\n"} /\ T[start + j] = a[j]
  BY <1>3 DEF la
<1>15. \A j \in 1 .. lb : b[j] \notin {"\r", "\n"} /\ T[colon + 1 + j] = b[j]
  BY <1>3 DEF lb
<1>16. T[colon] = ":" /\ T[colon + 1] = " " /\ T[end - 1] = "\r" /\ T[end] = "\n"
  BY <1>3
<1>17. \A j \in 1 .. n : text[j] = T[j]
  BY <1>4
<1>18. is.pos = start + 1
  BY <1>5
<1>19. mHttpHeaders = Read(k)
  BY <1>5
<1>6. ASSUME NEW j \in start + 1 .. colon - 1, j <= n
      PROVE  text[j] \notin {":", "\r", "\n"}
  <2> DEFINE x == j - start
  <2>1. x \in 1 .. la /\ start + x = j /\ j \in 1 .. n
    BY <1>11, <1>6
  <2> HIDE DEF x
  <2>2. text[j] = a[x]
    BY <1>14, <1>17, <2>1
  <2> QED BY <1>14, <2>1, <2>2
<1>7. ASSUME NEW j \in colon + 1 .. end - 1, j <= n
      PROVE  text[j] # "\n"
  <2>0. j \in 1 .. n /\ text[j] = T[j]
    <3>1. j \in 1 .. n
      BY <1>11, <1>7
    <3> QED BY <1>17, <3>1
  <2>1. CASE j = colon + 1
    BY <1>16, <2>0, <2>1
  <2>2. CASE j = end - 1
    BY <1>16, <2>0, <2>2
  <2>3. CASE j > colon + 1 /\ j < end - 1
    <3> DEFINE x == j - colon - 1
    <3>1. x \in 1 .. lb /\ colon + 1 + x = j
      BY <1>11, <2>3
    <3> HIDE DEF x
    <3>2. T[j] = b[x] /\ b[x] \notin {"\r", "\n"}
      BY <1>15, <3>1
    <3> QED BY <2>0, <3>2
  <2>4. j = colon + 1 \/ j = end - 1 \/ (j > colon + 1 /\ j < end - 1)
    BY <1>11
  <2> QED BY <2>1, <2>2, <2>3, <2>4
<1>8. CASE n < colon
  <2>1. \A j \in is.pos .. Len(text) : text[j] # ":"
    <3> SUFFICES ASSUME NEW j \in is.pos .. n PROVE text[j] # ":"
      BY DEF n
    <3>1. j \in start + 1 .. colon - 1 /\ j <= n
      BY <1>11, <1>18, <1>8
    <3> QED BY <1>6, <3>1
  <2>2. /\ is'.eof
        /\ \/ /\ mHttpHeaders' = mHttpHeaders
              /\ is.pos = n + 1 \/ SubSeq(text, is.pos, n) = EndOfLine
           \/ /\ is.pos <= n
              /\ \E key, v : mHttpHeaders' = Insert(mHttpHeaders, key, v)
    BY <2>1, TurnWithoutColon DEF n
  <2>3. is.pos <= n => Last(text) # "\n" /\ SubSeq(text, is.pos, n) # EndOfLine
    <3> SUFFICES ASSUME is.pos <= n
                 PROVE  Last(text) # "\n" /\ SubSeq(text, is.pos, n) # EndOfLine
      OBVIOUS
    <3>1. n \in start + 1 .. colon - 1 /\ n <= n
      BY <1>11, <1>18, <1>8
    <3>2. text[n] \notin {":", "\r", "\n"}
      BY <1>6, <3>1
    <3>3. Last(text) # "\n"
      BY <3>2 DEF Last, n
    <3>4. SubSeq(text, is.pos, n) # EndOfLine
      <4> DEFINE u == SubSeq(text, is.pos, n)
      <4>1. \A j \in is.pos .. n : text[j] \in Characters
        BY <1>11, <1>18 DEF PInv, n
      <4>2. is.pos \in Int /\ n \in Int
        BY <1>11, <1>18
      <4> HIDE DEF u
      <4>3. /\ Len(u) = IF is.pos <= n THEN n - is.pos + 1 ELSE 0
            /\ \A j \in 1 .. n - is.pos + 1 : u[j] = text[is.pos + j - 1]
        BY <4>1, <4>2, SubSeqProperties DEF u
      <4>4. n - is.pos + 1 \in 1 .. n - is.pos + 1 /\ is.pos + (n - is.pos + 1) - 1 = n
            /\ Len(u) = n - is.pos + 1
        BY <4>2, <4>3
      <4>5. u[Len(u)] = text[n]
        BY <4>3, <4>4
      <4>6. Len(EndOfLine) = 2
        BY DEF EndOfLine
      <4>7. EndOfLine[2] = "\n"
        BY DEF EndOfLine
      <4> QED BY <3>2, <4>5, <4>6, <4>7 DEF u
    <3> QED BY <3>3, <3>4
  <2>4. start <= n /\ n < end
    <3>1. is.pos <= n + 1
      BY <1>5, <1>11
    <3> QED BY <1>8, <1>11, <1>18, <3>1
  <2>5. Whole(k)
    BY <2>4 DEF Whole, n, start, end
  <2>6. CASE mHttpHeaders' = mHttpHeaders
    BY <1>19, <2>2, <2>5, <2>6 DEF TurnEnds
  <2>7. CASE is.pos <= n /\ \E key, v : mHttpHeaders' = Insert(mHttpHeaders, key, v)
    BY <1>19, <2>2, <2>3, <2>7 DEF TurnEnds
  <2> QED BY <2>2, <2>6, <2>7
<1>9. CASE n >= colon
  <2>1. colon \in is.pos .. Len(text) /\ text[colon] = ":"
    <3>1. colon \in is.pos .. n /\ colon \in 1 .. n
      BY <1>11, <1>18, <1>9
    <3>2. text[colon] = T[colon]
      BY <1>17, <3>1
    <3> QED BY <1>16, <3>1, <3>2 DEF n
  <2>2. \A j \in is.pos .. colon - 1 : text[j] # ":"
    <3> SUFFICES ASSUME NEW j \in is.pos .. colon - 1 PROVE text[j] # ":"
      OBVIOUS
    <3>1. j \in start + 1 .. colon - 1 /\ j <= n
      BY <1>11, <1>18, <1>9
    <3> QED BY <1>6, <3>1
  <2>3. SubSeq(text, is.pos, colon - 1) = a
    <3>1. is.pos \in Int /\ colon - 1 \in Int /\ Len(a) = colon - 1 - is.pos + 1
      BY <1>11, <1>18 DEF la
    <3>2. ASSUME NEW j \in 1 .. Len(a) PROVE text[is.pos + j - 1] = a[j]
      <4>1. j \in 1 .. la
        BY DEF la
      <4>2. is.pos + j - 1 = start + j /\ start + j \in 1 .. n
        BY <1>11, <1>18, <1>9, <4>1
      <4>3. text[start + j] = T[start + j]
        BY <1>17, <4>2
      <4> QED BY <1>14, <4>1, <4>2, <4>3
    <3> QED BY <1>13, <3>1, <3>2, SameElements
  <2>4. a # EndOfLine
    <3> SUFFICES ASSUME a = EndOfLine PROVE FALSE
      OBVIOUS
    <3>1. Len(EndOfLine) = 2
      BY DEF EndOfLine
    <3>2. EndOfLine[1] = "\r"
      BY DEF EndOfLine
    <3>3. 1 \in 1 .. la /\ a[1] = "\r"
      BY <3>1, <3>2 DEF la
    <3> QED BY <1>14, <3>3
  <2>5. /\ (\A j \in colon + 2 .. Len(text) : text[j] # "\n") =>
              is'.eof /\ \E v : mHttpHeaders' = Insert(mHttpHeaders, a, v)
        /\ \A z \in colon + 2 .. Len(text) :
              text[z] = "\n" /\ (\A j \in colon + 2 .. z - 1 : text[j] # "\n") =>
                /\ ~is'.eof /\ is'.pos = z + 1
                /\ mHttpHeaders' =
                     Insert(mHttpHeaders, a, UntilReturn(SubSeq(text, colon + 2, z - 1)))
    <3>1. ColonAt(colon, a)
      BY <2>1, <2>2, <2>3 DEF ColonAt
    <3>2. ColonTurn(colon, a)
      BY <2>1, <2>4, <3>1, TurnWithColon
    <3> QED BY <3>2 DEF ColonTurn
  <2>6. CASE n < end
    <3>1. \A j \in colon + 2 .. Len(text) : text[j] # "\n"
      <4> SUFFICES ASSUME NEW j \in colon + 2 .. n PROVE text[j] # "\n"
        BY DEF n
      <4>1. j \in colon + 1 .. end - 1 /\ j <= n
        BY <1>11, <2>6
      <4> QED BY <1>7, <4>1
    <3>2. Last(text) # "\n"
      <4>1. n = colon \/ n \in colon + 1 .. end - 1
        BY <1>11, <1>9, <2>6
      <4>2. n = colon => text[n] = ":"
        BY <2>1
      <4>3. n \in colon + 1 .. end - 1 => text[n] # "\n"
        BY <1>11, <1>7
      <4> QED BY <4>1, <4>2, <4>3 DEF Last, n
    <3>3. is'.eof /\ \E v : mHttpHeaders' = Insert(mHttpHeaders, a, v)
      BY <2>5, <3>1
    <3> QED BY <1>19, <3>2, <3>3 DEF TurnEnds
  <2>7. CASE n >= end
    <3>1. end \in colon + 2 .. n /\ end \in 1 .. n /\ end - 1 \in 1 .. n /\ colon + 2 \in 1 .. n
          /\ colon + 2 \in Nat
      BY <1>11, <2>7
    <3>2. text[end] = "\n" /\ text[end - 1] = "\r"
      BY <1>16, <1>17, <3>1
    <3>3. \A j \in colon + 2 .. end - 1 : text[j] # "\n"
      <4> SUFFICES ASSUME NEW j \in colon + 2 .. end - 1 PROVE text[j] # "\n"
        OBVIOUS
      <4>1. j \in colon + 1 .. end - 1 /\ j <= n
        BY <1>11, <2>7
      <4> QED BY <1>7, <4>1
    <3>4. /\ ~is'.eof /\ is'.pos = end + 1
          /\ mHttpHeaders' =
               Insert(mHttpHeaders, a, UntilReturn(SubSeq(text, colon + 2, end - 1)))
      <4>1. end \in colon + 2 .. Len(text)
        BY <3>1 DEF n
      <4> QED BY <2>5, <3>2, <3>3, <4>1
    <3>5. UntilReturn(SubSeq(text, colon + 2, end - 1)) = b
      <4>1. ASSUME NEW j \in 1 .. Len(b) PROVE text[colon + 2 + j - 1] = b[j]
        <5>1. j \in 1 .. lb
          BY DEF lb
        <5>2. colon + 2 + j - 1 = colon + 1 + j /\ colon + 1 + j \in 1 .. n
          BY <1>11, <2>7, <5>1
        <5>3. text[colon + 1 + j] = T[colon + 1 + j]
          BY <1>17, <5>2
        <5> QED BY <1>15, <5>1, <5>2, <5>3
      <4>2. colon + 2 \in 1 .. Len(text) /\ end \in 1 .. Len(text)
        BY <3>1 DEF n
      <4>3. end = (colon + 2) + Len(b) + 1
        BY <1>11 DEF lb
      <4>4. b \in Seq(Tokens) /\ \A j \in 1 .. Len(b) : b[j] # "\r"
        BY <1>13, <1>15 DEF lb
      <4> DEFINE m == colon + 2
      <4>5. /\ m \in 1 .. Len(text) /\ end \in 1 .. Len(text) /\ end = m + Len(b) + 1
            /\ \A j \in 1 .. Len(b) : text[m + j - 1] = b[j]
        BY <4>1, <4>2, <4>3
      <4> HIDE DEF m
      <4>6. UntilReturn(SubSeq(text, m, end - 1)) = b
        BY <3>2, <4>4, <4>5, ValueIs
      <4> QED BY <4>6 DEF m
    <3>6. mHttpHeaders' = Read(k + 1)
      <4>1. Read(k + 1) = Insert(Read(k), a, b)
        BY <1>1, ReadNext DEF a, b, h
      <4> QED BY <1>19, <3>4, <3>5, <4>1
    <3> QED BY <1>2, <3>4, <3>6 DEF TurnEnds, end
  <2>8. n < end \/ n >= end
    BY <1>11
  <2> QED BY <2>6, <2>7, <2>8
<1>10. n < colon \/ n >= colon
  BY <1>11
<1> QED BY <1>8, <1>9, <1>10

-----------------------------------------------------------------------------
(* The request line: where each part of it starts in the stream.           *)

(* Where the stream is while the request line is read. *)
LineInv ==
  /\ TextInv
  /\ at = "method" => Good(is) /\ is.pos = 1
  /\ at = "target" /\ Good(is) => is.pos = 3
  /\ at \in {"arguments", "version"} /\ Good(is) => is.pos = LineEnd - 2

(* What is read of the headers. *)
HeadersInv ==
  /\ at \in {"method", "target", "arguments", "version"} => mHttpHeaders = <<>>
  /\ at = "headers" /\ ~is.eof => \E k \in 0 .. HeaderCount : AtHeader(k)
  /\ at \in {"headers", "accepted"} /\ is.eof =>
       \E k \in 0 .. HeaderCount : ReadAll(k) \/ OneMore(k)
  /\ at = "accepted" => is.eof

LEMMA HeaderFeeds ==
  ASSUME request \in Requests, NEW k \in 1 .. HeaderCount
  PROVE  /\ HeaderEnd(k - 1) \in Nat /\ HeaderEnd(k) \in Nat
         /\ HeaderEnd(k - 1) < HeaderEnd(k) /\ HeaderEnd(k) <= Len(Text(request)) - 2
         /\ Text(request)[HeaderEnd(k)] = "\n"
         /\ \A j \in HeaderEnd(k - 1) + 1 .. HeaderEnd(k) - 1 : Text(request)[j] # "\n"
<1> DEFINE T == Text(request)
           a == request.headers[k][1]
           b == request.headers[k][2]
           start == HeaderEnd(k - 1)
           colon == start + Len(a) + 1
           end == HeaderEnd(k)
           la == Len(a)
           lb == Len(b)
           lt == Len(T)
<1>1. /\ start \in Nat /\ colon \in Nat /\ start < colon
      /\ end = colon + Len(b) + 3 /\ end <= Len(T) - 2
      /\ Len(a) \in Nat /\ Len(b) \in Nat
      /\ a \in Seq(Tokens) /\ b \in Seq(Tokens)
      /\ \A j \in 1 .. Len(a) : a[j] \notin {":", "\r", "\n"}
      /\ \A j \in 1 .. Len(b) : b[j] \notin {"\r", "\n"}
      /\ \A j \in 1 .. Len(a) : T[start + j] = a[j]
      /\ T[colon] = ":" /\ T[colon + 1] = " "
      /\ \A j \in 1 .. Len(b) : T[colon + 1 + j] = b[j]
      /\ T[end - 1] = "\r" /\ T[end] = "\n"
  BY HeaderPlace
<1>2. /\ start \in Nat /\ la \in Nat /\ lb \in Nat
      /\ colon = start + la + 1 /\ end = colon + lb + 3
  <2> HIDE DEF T, a, b, start, end
  <2> QED BY <1>1
<1>3. end <= lt - 2
  <2> HIDE DEF T, a, b, start, end
  <2> QED BY <1>1
<1> HIDE DEF T, a, b, start, colon, end, la, lb, lt
<1>4. colon \in Nat /\ end \in Nat /\ start < end
  BY <1>2
<1>5. \A j \in 1 .. la : a[j] # "\n" /\ T[start + j] = a[j]
  BY <1>1 DEF la
<1>6. \A j \in 1 .. lb : b[j] # "\n" /\ T[colon + 1 + j] = b[j]
  BY <1>1 DEF lb
<1>7. T[colon] = ":" /\ T[colon + 1] = " " /\ T[end - 1] = "\r" /\ T[end] = "\n"
  BY <1>1
<1>8. ASSUME NEW j \in start + 1 .. end - 1 PROVE T[j] # "\n"
  <2>1. CASE j < colon
    <3> DEFINE x == j - start
    <3>1. x \in 1 .. la /\ start + x = j
      BY <1>2, <2>1
    <3> HIDE DEF x
    <3> QED BY <1>5, <3>1
  <2>2. CASE j = colon \/ j = colon + 1 \/ j = end - 1
    BY <1>7, <2>2
  <2>3. CASE j > colon + 1 /\ j < end - 1
    <3> DEFINE x == j - colon - 1
    <3>1. x \in 1 .. lb /\ colon + 1 + x = j
      BY <1>2, <2>3
    <3> HIDE DEF x
    <3> QED BY <1>6, <3>1
  <2> QED BY <1>2, <2>1, <2>2, <2>3
<1> QED BY <1>2, <1>3, <1>4, <1>7, <1>8 DEF T, start, end, lt

LEMMA InsertItself ==
  ASSUME NEW map, NEW k, NEW v, NEW m, m = Insert(map, k, v)
  PROVE  k \in DOMAIN m /\ m = Insert(map, k, m[k])
<1>1. k \in DOMAIN m
  BY DEF Insert
<1>2. m[k] = IF k \in DOMAIN map THEN map[k] ELSE v
  BY DEF Insert
<1> DEFINE w == m[k]
<1>3. w = IF k \in DOMAIN map THEN map[k] ELSE v
  BY <1>2
<1> HIDE DEF w
<1>4. Insert(map, k, w) = Insert(map, k, v)
  <2>1. CASE k \in DOMAIN map
    BY <2>1 DEF Insert
  <2>2. CASE k \notin DOMAIN map
    BY <1>3, <2>2
  <2> QED BY <2>1, <2>2
<1> QED BY <1>1, <1>4 DEF w

LEMMA NothingRead == Read(0) = <<>> /\ Read(1) = <<>>
<1>1. SubSeq(request.headers, 2, 0) = <<>> /\ SubSeq(request.headers, 2, 1) = <<>>
  BY SubSeqEmpty
<1> QED BY <1>1, FirstValuesEmpty DEF Read

LEMMA MethodRead ==
  ASSUME PInv, LineInv, ReadMethod, Good(is')
  PROVE  is'.pos = 3
<1> DEFINE T == Text(request)
           n == Len(text)
           line == GetLine(is, <<>>, " ")
<1>1. text \in Seq(Characters) /\ is \in Stream /\ Good(is) /\ request \in Requests
  BY DEF PInv, LineInv, ReadMethod, TextInv
<1>7. is.pos = 1
  BY DEF LineInv, ReadMethod
<1>2. n \in Nat /\ \A j \in 1 .. n : text[j] = T[j]
  BY TextPrefix DEF LineInv
<1>3. T[1] # " " /\ T[2] = " "
  <2>1. request.method # " "
    BY <1>1, RequestProperties
  <2>2. LineEnd >= 6 /\ LineEnd \in Nat
    BY <1>1, HeaderEnds
  <2>3. 1 \in 1 .. LineEnd /\ 2 \in 1 .. LineEnd
    BY <2>2
  <2>4. T[1] = RequestLine(request)[1] /\ T[2] = RequestLine(request)[2]
    BY <1>1, <2>3, TextLayout
  <2> QED BY <1>1, <2>1, <2>4, LineLayout
<1>4. is' = line.is
  BY DEF ReadMethod
<1>5. CASE n < 2
  <2>1. \A j \in is.pos .. Len(text) : text[j] # " "
    <3> SUFFICES ASSUME NEW j \in 1 .. n PROVE text[j] # " "
      BY <1>7
    <3>1. j = 1
      BY <1>2, <1>5
    <3> QED BY <1>2, <1>3, <3>1
  <2> HIDE DEF n, T, line
  <2>2. line.is.eof
    BY <1>1, <2>1, GetLineCut DEF line
  <2> QED BY <1>4, <2>2 DEF Good
<1>6. CASE n >= 2
  <2>0. 2 \in 1 .. n
    BY <1>2, <1>6
  <2>1. 2 \in is.pos .. Len(text) /\ text[2] = " "
    BY <1>2, <1>3, <1>7, <2>0
  <2>2. \A j \in is.pos .. 2 - 1 : text[j] # " "
    <3> SUFFICES ASSUME NEW j \in is.pos .. 2 - 1 PROVE text[j] # " "
      OBVIOUS
    <3>1. j = 1 /\ 1 \in 1 .. n
      BY <1>2, <1>6, <1>7
    <3> QED BY <1>2, <1>3, <3>1
  <2> HIDE DEF n, T, line
  <2>3. line.is.pos = 2 + 1
    <3>1. ReadUpto(GetLine(is, <<>>, " "), is, 2)
      BY <1>1, <2>1, <2>2, GetLineFound
    <3> QED BY <3>1 DEF ReadUpto, line
  <2> QED BY <1>4, <2>3
<1> QED BY <1>2, <1>5, <1>6

(* A target that is read up to its blank is the one that was sent. *)
LEMMA TargetRead ==
  ASSUME PInv, LineInv, ReadTarget, Good(is')
  PROVE  is'.pos = LineEnd - 2 /\ GetLine(is, <<>>, " ").str = Target
<1> DEFINE T == Text(request)
           n == Len(text)
           line == GetLine(is, <<>>, " ")
           lg == Len(Target)
<1>1. text \in Seq(Characters) /\ is \in Stream /\ request \in Requests
      /\ <<>> \in Seq(Characters)
  BY EmptySeq DEF PInv, LineInv, TextInv
<1>2. n \in Nat /\ \A j \in 1 .. n : text[j] = T[j]
  BY TextPrefix DEF LineInv
<1>3. is' = line.is
  BY DEF ReadTarget
<1>4. Good(is)
  <2> HIDE DEF line
  <2>1. Reads(is, line)
    BY <1>1, GetLineProperties DEF line
  <2> QED BY <1>3, <2>1 DEF Reads, Good
<1>5. is.pos = 3
  BY <1>4 DEF LineInv, ReadTarget
<1>6. LineEnd = lg + 6 /\ lg \in Nat
  BY <1>1, LineLayout, TargetProperties
<1>7. Target \in Seq(Tokens) /\ \A j \in 1 .. lg : Target[j] # " "
  <2> HIDE DEF T, n, line
  <2>1. Target \in Seq(NonBlank) /\ NonBlank \subseteq Tokens
    BY <1>1, TargetProperties DEF NonBlank
  <2>2. \A j \in 1 .. lg : Target[j] \in NonBlank
    BY <2>1
  <2>3. \A x \in NonBlank : x # " "
    BY DEF NonBlank
  <2> QED BY <2>1, <2>2, <2>3, SeqMonotonic
<1>8. ASSUME NEW j \in 1 .. lg PROVE T[2 + j] = Target[j]
  <2>1. 2 + j \in 1 .. LineEnd
    BY <1>6
  <2>2. T[2 + j] = RequestLine(request)[2 + j]
    BY <1>1, <2>1, TextLayout
  <2> QED BY <1>1, <2>2, LineLayout
<1>9. T[lg + 3] = " "
  <2>1. lg + 3 \in 1 .. LineEnd /\ lg + 3 = LineEnd - 3
    BY <1>6
  <2>2. T[lg + 3] = RequestLine(request)[lg + 3]
    BY <1>1, <2>1, TextLayout
  <2> QED BY <1>1, <2>1, <2>2, LineLayout
<1> HIDE DEF T, n, lg, line
<1>10. ASSUME NEW j \in 3 .. lg + 2, j <= n
       PROVE  text[j] # " " /\ text[j] = Target[j - 2] /\ j - 2 \in 1 .. lg
  <2>1. j - 2 \in 1 .. lg /\ 2 + (j - 2) = j /\ j \in 1 .. n
    BY <1>2, <1>6, <1>10
  <2>2. T[2 + (j - 2)] = Target[j - 2]
    BY <1>8, <2>1
  <2> QED BY <1>2, <1>7, <2>1, <2>2
<1>11. CASE n < lg + 3
  <2>1. \A j \in is.pos .. Len(text) : text[j] # " "
    <3> SUFFICES ASSUME NEW j \in 3 .. n PROVE text[j] # " "
      BY <1>5 DEF n
    <3>1. j \in 3 .. lg + 2 /\ j <= n
      BY <1>2, <1>6, <1>11
    <3> QED BY <1>10, <3>1
  <2>2. line.is.eof
    BY <1>1, <1>4, <2>1, GetLineCut DEF line
  <2> QED BY <1>3, <2>2 DEF Good
<1>12. CASE n >= lg + 3
  <2> DEFINE q == lg + 3
  <2>1. q \in 3 .. n /\ q \in 1 .. n /\ q + 1 = LineEnd - 2 /\ q - 1 = lg + 2
    BY <1>2, <1>6, <1>12
  <2>2. text[q] = " "
    BY <1>2, <1>9, <2>1
  <2>3. \A j \in 3 .. q - 1 : text[j] # " "
    <3> SUFFICES ASSUME NEW j \in 3 .. q - 1 PROVE text[j] # " "
      OBVIOUS
    <3>1. j \in 3 .. lg + 2 /\ j <= n
      BY <1>2, <1>6, <1>12
    <3> QED BY <1>10, <3>1
  <2>4. SubSeq(text, 3, q - 1) = Target
    <3>1. \A j \in 1 .. Len(Target) : text[3 + j - 1] = Target[j]
      <4> SUFFICES ASSUME NEW j \in 1 .. lg PROVE text[3 + j - 1] = Target[j]
        BY DEF lg
      <4> DEFINE x == 3 + j - 1
      <4>1. x \in 3 .. lg + 2 /\ x <= n /\ x - 2 = j
        BY <1>2, <1>6, <1>12
      <4> HIDE DEF x
      <4>2. text[x] = Target[x - 2]
        BY <1>10, <4>1
      <4> QED BY <4>1, <4>2 DEF x
    <3>2. 3 \in Int /\ q - 1 \in Int /\ Len(Target) = q - 1 - 3 + 1
      BY <1>6 DEF lg
    <3> HIDE DEF q
    <3> QED BY <1>7, <3>1, <3>2, SameElements
  <2> HIDE DEF q
  <2>5. /\ line.is.pos = q + 1
        /\ line.str = SubSeq(text, is.pos, q - 1)
    <3>1. q \in is.pos .. Len(text) /\ \A j \in is.pos .. q - 1 : text[j] # " "
      BY <1>5, <2>1, <2>3 DEF n
    <3>2. ReadUpto(GetLine(is, <<>>, " "), is, q)
      BY <1>1, <1>4, <2>2, <3>1, GetLineFound
    <3> QED BY <3>2 DEF ReadUpto, line
  <2>7. line.str = Target
    BY <1>5, <2>4, <2>5
  <2> QED BY <1>3, <2>1, <2>5, <2>7 DEF line
<1>13. n < lg + 3 \/ n >= lg + 3
  BY <1>2, <1>6
<1> QED BY <1>11, <1>12, <1>13

LEMMA LineFeed ==
  ASSUME request \in Requests
  PROVE  /\ LineEnd \in Nat /\ LineEnd >= 6 /\ LineEnd <= Len(Text(request)) - 2
         /\ Text(request)[LineEnd] = "\n"
         /\ \A j \in LineEnd - 2 .. LineEnd - 1 : Text(request)[j] # "\n"
<1> DEFINE T == Text(request)
<1>1. LineEnd \in Nat /\ LineEnd >= 6
  BY HeaderEnds
<1>2. LineEnd <= Len(T) - 2
  <2>1. HeaderCount \in Nat /\ HeaderEnd(0) = LineEnd /\ HeaderEnd(HeaderCount) \in Nat
        /\ HeaderEnd(0) <= HeaderEnd(HeaderCount)
    <3>1. HeaderCount \in Nat
      BY HeaderEnds
    <3>2. 0 \in 0 .. HeaderCount /\ HeaderCount \in 0 .. HeaderCount
      BY <3>1
    <3> QED BY <3>1, <3>2, HeaderEnds
  <2>2. Len(T) = HeaderEnd(HeaderCount) + 2
    BY TextLayout
  <2> HIDE DEF T
  <2> QED BY <1>1, <2>1, <2>2
<1>3. \A j \in 1 .. LineEnd : T[j] = RequestLine(request)[j]
  BY TextLayout
<1> HIDE DEF T
<1>4. LineEnd - 2 \in 1 .. LineEnd /\ LineEnd - 1 \in 1 .. LineEnd /\ LineEnd \in 1 .. LineEnd
  BY <1>1
<1>5. /\ T[LineEnd - 2] = RequestLine(request)[LineEnd - 2]
      /\ T[LineEnd - 1] = RequestLine(request)[LineEnd - 1]
      /\ T[LineEnd] = RequestLine(request)[LineEnd]
  BY <1>3, <1>4
<1>6. T[LineEnd - 2] # "\n" /\ T[LineEnd - 1] = "\r" /\ T[LineEnd] = "\n"
  BY <1>5, LineLayout, RequestProperties
<1>7. ASSUME NEW j \in LineEnd - 2 .. LineEnd - 1 PROVE T[j] # "\n"
  <2>1. j = LineEnd - 2 \/ j = LineEnd - 1
    BY <1>1
  <2> QED BY <1>6, <2>1
<1> QED BY <1>1, <1>2, <1>6, <1>7 DEF T

LEMMA NextLineFound ==
  ASSUME PInv, NEW s \in Stream, Good(s), NEW q \in s.pos .. Len(text), text[q] = "\n",
         \A j \in s.pos .. q - 1 : text[j] # "\n"
  PROVE  IgnoreLine(s).pos = q + 1 /\ ~IgnoreLine(s).eof
<1>1. text \in Seq(Characters)
  BY DEF PInv
<1>2. IgnoreLine(s) = [pos |-> q + 1, eof |-> FALSE, fail |-> FALSE]
  BY <1>1, IgnoreLineFound
<1> DEFINE t == IgnoreLine(s)
<1>3. t = [pos |-> q + 1, eof |-> FALSE, fail |-> FALSE]
  BY <1>2
<1> HIDE DEF t
<1>4. t.pos = q + 1 /\ ~t.eof
  BY <1>3
<1> QED BY <1>4 DEF t

(* The version and the line after it. *)
LEMMA VersionRead ==
  ASSUME PInv, LineInv, HeadersInv, ReadVersion, at' = "headers"
  PROVE  /\ mHttpHeaders' = <<>>
         /\ \/ is'.eof /\ (Last(text) = "\n" => Whole(0))
            \/ ~is'.eof /\ HeaderCount # 0 /\ is'.pos = HeaderEnd(1) + 1
            \/ /\ ~is'.eof /\ HeaderCount = 0 /\ is'.pos = Len(text) + 1
               /\ Len(text) = LineEnd + 2
<1> DEFINE T == Text(request)
           n == Len(text)
           lt == Len(T)
           line == GetLine(is, <<>>, "\n")
           first == line.is
           K == HeaderCount
<1>1. text \in Seq(Characters) /\ is \in Stream /\ request \in Requests
      /\ <<>> \in Seq(Characters)
  BY EmptySeq DEF PInv, LineInv, TextInv
<1>2. n \in Nat /\ n <= lt /\ lt \in Nat /\ \A j \in 1 .. n : text[j] = T[j]
  BY TextPrefix DEF LineInv
<1>3. mHttpHeaders' = <<>>
  <2>1. at = "version" /\ UNCHANGED mHttpHeaders
    BY DEF ReadVersion, Reject
  <2> QED BY <2>1 DEF HeadersInv
<1>4. ~first.fail /\ is' = IgnoreLine(first)
  BY DEF ReadVersion, Reject
<1>5. Good(is)
  <2> HIDE DEF line
  <2>1. Reads(is, line)
    BY <1>1, GetLineProperties DEF line
  <2> QED BY <1>4, <2>1 DEF Reads
<1>6. is.pos = LineEnd - 2 /\ is.pos \in 1 .. n + 1
  BY <1>1, <1>5, StreamFields DEF LineInv, ReadVersion
<1>7. /\ LineEnd \in Nat /\ LineEnd >= 6 /\ LineEnd <= lt - 2 /\ T[LineEnd] = "\n"
      /\ \A j \in LineEnd - 2 .. LineEnd - 1 : T[j] # "\n"
  BY <1>1, LineFeed
<1>8. K \in Nat /\ HeaderEnd(0) = LineEnd /\ lt = HeaderEnd(K) + 2
      /\ T[HeaderEnd(K) + 1] = "\r" /\ T[HeaderEnd(K) + 2] = "\n"
  BY <1>1, HeaderEnds, TextLayout
<1> HIDE DEF T, n, lt, line, K
<1>9. is.pos = LineEnd - 2 /\ is.pos \in Nat /\ is.pos <= n + 1
  BY <1>2, <1>6
<1>10. LineEnd \in Nat /\ LineEnd >= 6 /\ LineEnd <= lt - 2 /\ n \in Nat /\ n <= lt /\ lt \in Nat
       /\ K \in Nat
  BY <1>2, <1>7, <1>8
<1>11. \A j \in 1 .. n : text[j] = T[j]
  BY <1>2
<1>12. ASSUME NEW j \in LineEnd - 2 .. LineEnd - 1, j <= n PROVE text[j] # "\n"
  <2>1. j \in 1 .. n
    BY <1>10, <1>12
  <2> QED BY <1>7, <1>11, <2>1
<1>13. CASE n < LineEnd
  <2>1. \A j \in is.pos .. Len(text) : text[j] # "\n"
    <3> SUFFICES ASSUME NEW j \in is.pos .. n PROVE text[j] # "\n"
      BY DEF n
    <3>1. j \in LineEnd - 2 .. LineEnd - 1 /\ j <= n
      BY <1>9, <1>10, <1>13
    <3> QED BY <1>12, <3>1
  <2>2. first.eof /\ first.fail = (is.pos = n + 1)
    BY <1>1, <1>5, <2>1, GetLineCut DEF line, n
  <2>3. first \in Stream
    BY <1>1, GetLineProperties DEF Reads, line
  <2>4. is'.eof
    <3> HIDE DEF first
    <3>1. ~Good(first)
      BY <2>2 DEF Good
    <3>2. IgnoreLine(first) = [first EXCEPT !.fail = TRUE]
      BY <3>1 DEF IgnoreLine
    <3>3. IgnoreLine(first).eof
      BY <2>2, <2>3, <3>2 DEF Stream
    <3> QED BY <1>4, <3>3
  <2>5. Last(text) # "\n"
    <3>1. is.pos # n + 1
      BY <1>4, <2>2
    <3>2. n \in LineEnd - 2 .. LineEnd - 1 /\ n <= n
      BY <1>9, <1>10, <1>13, <3>1
    <3>3. text[n] # "\n"
      BY <1>12, <3>2
    <3> QED BY <3>3 DEF Last, n
  <2> QED BY <1>3, <2>4, <2>5
<1>14. CASE n >= LineEnd
  <2>1. LineEnd \in is.pos .. Len(text) /\ text[LineEnd] = "\n"
    <3>1. LineEnd \in 1 .. n /\ LineEnd \in is.pos .. n
      BY <1>9, <1>10, <1>14
    <3>2. text[LineEnd] = T[LineEnd]
      BY <1>11, <3>1
    <3> QED BY <1>7, <3>1, <3>2 DEF n
  <2>2. \A j \in is.pos .. LineEnd - 1 : text[j] # "\n"
    <3> SUFFICES ASSUME NEW j \in is.pos .. LineEnd - 1 PROVE text[j] # "\n"
      OBVIOUS
    <3>1. j \in LineEnd - 2 .. LineEnd - 1 /\ j <= n
      BY <1>9, <1>10, <1>14
    <3> QED BY <1>12, <3>1
  <2>3. first \in Stream /\ Good(first) /\ first.pos = LineEnd + 1
    <3>1. ReadUpto(GetLine(is, <<>>, "\n"), is, LineEnd)
      BY <1>1, <1>5, <2>1, <2>2, GetLineFound
    <3>2. Reads(is, line)
      BY <1>1, GetLineProperties DEF line
    <3> QED BY <3>1, <3>2 DEF ReadUpto, Reads, line
  <2> HIDE DEF first
  <2>4. \A q \in LineEnd + 1 .. n :
           text[q] = "\n" /\ (\A j \in LineEnd + 1 .. q - 1 : text[j] # "\n")
             => is'.pos = q + 1 /\ ~is'.eof
    <3> SUFFICES ASSUME NEW q \in LineEnd + 1 .. n, text[q] = "\n",
                        \A j \in LineEnd + 1 .. q - 1 : text[j] # "\n"
                 PROVE  is'.pos = q + 1 /\ ~is'.eof
      OBVIOUS
    <3>1. q \in first.pos .. Len(text) /\ \A j \in first.pos .. q - 1 : text[j] # "\n"
      BY <2>3 DEF n
    <3>2. IgnoreLine(first).pos = q + 1 /\ ~IgnoreLine(first).eof
      BY <2>3, <3>1, NextLineFound
    <3> QED BY <1>4, <3>2
  <2>5. (\A j \in LineEnd + 1 .. n : text[j] # "\n") => is'.eof
    <3> SUFFICES ASSUME \A j \in LineEnd + 1 .. n : text[j] # "\n" PROVE is'.eof
      OBVIOUS
    <3>1. \A j \in first.pos .. Len(text) : text[j] # "\n"
      BY <2>3 DEF n
    <3> QED BY <1>1, <1>4, <2>3, <3>1, IgnoreLineCut
  <2>6. CASE K # 0
    <3> DEFINE e == HeaderEnd(1)
    <3>1. 1 \in 1 .. K /\ 1 - 1 = 0
      BY <1>10, <2>6
    <3>2. /\ HeaderEnd(1 - 1) \in Nat /\ HeaderEnd(1) \in Nat
          /\ HeaderEnd(1 - 1) < HeaderEnd(1) /\ HeaderEnd(1) <= Len(Text(request)) - 2
          /\ Text(request)[HeaderEnd(1)] = "\n"
          /\ \A j \in HeaderEnd(1 - 1) + 1 .. HeaderEnd(1) - 1 : Text(request)[j] # "\n"
      BY <1>1, <3>1, HeaderFeeds DEF K
    <3>3. e \in Nat /\ LineEnd < e /\ e <= lt - 2
      BY <1>8, <3>1, <3>2 DEF lt, T
    <3>4. T[e] = "\n" /\ \A j \in LineEnd + 1 .. e - 1 : T[j] # "\n"
      BY <1>8, <3>1, <3>2 DEF T
    <3> HIDE DEF e
    <3>5. ASSUME NEW j \in LineEnd + 1 .. e - 1, j <= n PROVE text[j] # "\n"
      <4>1. j \in 1 .. n
        BY <1>10, <3>5
      <4> QED BY <1>11, <3>4, <4>1
    <3>6. CASE n >= e
      <4>1. e \in LineEnd + 1 .. n /\ e \in 1 .. n
        BY <1>10, <3>3, <3>6
      <4>2. text[e] = "\n"
        BY <1>11, <3>4, <4>1
      <4>3. \A j \in LineEnd + 1 .. e - 1 : text[j] # "\n"
        <5> SUFFICES ASSUME NEW j \in LineEnd + 1 .. e - 1 PROVE text[j] # "\n"
          OBVIOUS
        <5>1. j <= n
          BY <1>10, <3>3, <3>6
        <5> QED BY <3>5, <5>1
      <4>4. is'.pos = e + 1 /\ ~is'.eof
        BY <2>4, <4>1, <4>2, <4>3
      <4> QED BY <1>3, <2>6, <4>4 DEF e, K
    <3>7. CASE n < e
      <4>1. \A j \in LineEnd + 1 .. n : text[j] # "\n"
        <5> SUFFICES ASSUME NEW j \in LineEnd + 1 .. n PROVE text[j] # "\n"
          OBVIOUS
        <5>1. j \in LineEnd + 1 .. e - 1 /\ j <= n
          BY <1>10, <3>3, <3>7
        <5> QED BY <3>5, <5>1
      <4>2. HeaderEnd(0) <= Len(text) /\ (0 < HeaderCount => Len(text) < HeaderEnd(0 + 1))
        <5>1. 0 + 1 = 1
          OBVIOUS
        <5> QED BY <1>8, <1>14, <3>7, <5>1 DEF n, e
      <4> QED BY <1>3, <2>5, <4>1, <4>2 DEF Whole
    <3> QED BY <1>10, <3>3, <3>6, <3>7
  <2>7. CASE K = 0
    <3>1. lt = LineEnd + 2 /\ T[LineEnd + 1] = "\r" /\ T[LineEnd + 2] = "\n"
      BY <1>8, <2>7
    <3>2. n = LineEnd + 2 \/ n = LineEnd + 1 \/ n = LineEnd
      <4>1. lt = LineEnd + 2
        BY <3>1
      <4> QED BY <1>10, <1>14, <4>1
    <3>3. n > LineEnd => text[LineEnd + 1] = "\r"
      <4> SUFFICES ASSUME n > LineEnd PROVE text[LineEnd + 1] = "\r"
        OBVIOUS
      <4>1. LineEnd + 1 \in 1 .. n
        BY <1>10
      <4> QED BY <1>11, <3>1, <4>1
    <3>4. CASE n = LineEnd + 2
      <4>1. n \in 1 .. n /\ n \in LineEnd + 1 .. n
        BY <1>10, <3>4
      <4>2. text[n] = "\n"
        BY <1>11, <3>1, <3>4, <4>1
      <4>3. ASSUME NEW j \in LineEnd + 1 .. n - 1 PROVE text[j] # "\n"
        <5>1. j = LineEnd + 1 /\ n > LineEnd
          BY <1>10, <3>4
        <5> QED BY <3>3, <5>1
      <4>4. is'.pos = n + 1 /\ ~is'.eof
        BY <2>4, <4>1, <4>2, <4>3
      <4> QED BY <1>3, <2>7, <3>4, <4>4 DEF n, K
    <3>5. CASE n = LineEnd + 1 \/ n = LineEnd
      <4>1. ASSUME NEW j \in LineEnd + 1 .. n PROVE text[j] # "\n"
        <5>1. j = LineEnd + 1 /\ n > LineEnd
          BY <1>10, <3>5
        <5> QED BY <3>3, <5>1
      <4>2. Whole(0)
        BY <1>8, <1>14, <2>7 DEF Whole, n, K
      <4> QED BY <1>3, <2>5, <4>1, <4>2
    <3> QED BY <3>2, <3>4, <3>5
  <2> QED BY <2>6, <2>7
<1> QED BY <1>10, <1>13, <1>14

-----------------------------------------------------------------------------
(* HeadersInv holds throughout, and the two theorems about headers.        *)

LEMMA InvInitially == Init => LineInv /\ HeadersInv
<1> SUFFICES ASSUME Init PROVE LineInv /\ HeadersInv
  OBVIOUS
<1>1. /\ request \in Requests /\ is = [pos |-> 1, eof |-> FALSE, fail |-> FALSE]
      /\ at = "method" /\ mHttpHeaders = <<>>
  BY DEF Init
<1>2. Good(is) /\ is.pos = 1
  BY <1>1, GoodFields
<1>3. TextInv
  <2> DEFINE T == Text(request)
  <2>1. PICK n \in 0 .. Len(T) : text = SubSeq(T, 1, n)
    BY DEF Init
  <2>2. T \in Seq(Tokens)
    BY <1>1, TextLayout
  <2> HIDE DEF T
  <2>3. Len(T) \in Nat
    BY <2>2
  <2>4. \A j \in 1 .. n : T[j] \in Tokens
    BY <2>2, <2>3
  <2>5. n \in Int /\ n \in Nat
    BY <2>3
  <2>6. Len(SubSeq(T, 1, n)) = IF 1 <= n THEN n - 1 + 1 ELSE 0
    BY <2>4, <2>5, SubSeqProperties
  <2>7. Len(text) = n
    BY <2>1, <2>5, <2>6
  <2> QED BY <1>1, <2>1, <2>7 DEF TextInv, T
<1> QED BY <1>1, <1>2, <1>3 DEF LineInv, HeadersInv

(* The request and the text stay as they are. *)
LEMMA SameText ==
  ASSUME TextInv, UNCHANGED <<request, text>>
  PROVE  TextInv' /\ LineEnd' = LineEnd /\ HeaderCount' = HeaderCount
<1> QED BY DEF TextInv, LineEnd, HeaderCount

LEMMA LineInvSteps ==
  ASSUME PInv, LineInv, HeadersInv, [Next]_parserVars
  PROVE  LineInv'
<1>1. UNCHANGED <<request, text>>
  BY DEF Next, PrepareResponse, ReadMethod, ReadTarget, ReadArguments, ReadVersion,
         ReadHeader, Accept, parserVars
<1>2. TextInv' /\ LineEnd' = LineEnd
  BY <1>1, SameText DEF LineInv
<1>3. CASE ReadMethod
  <2>1. at' \in {"target", "rejected"}
    BY <1>3 DEF ReadMethod, Reject
  <2>2. at' = "target" /\ Good(is') => is'.pos = 3
    BY <1>3, MethodRead
  <2>3. Good(is)' = Good(is')
    BY DEF Good
  <2> QED BY <1>2, <2>1, <2>2, <2>3 DEF LineInv
<1>4. CASE ReadTarget
  <2>1. at' \in {"arguments", "rejected"}
    BY <1>4 DEF ReadTarget, Reject
  <2>2. at' = "arguments" /\ Good(is') => is'.pos = LineEnd - 2
    BY <1>4, TargetRead
  <2>3. Good(is)' = Good(is')
    BY DEF Good
  <2> QED BY <1>2, <2>1, <2>2, <2>3 DEF LineInv
<1>5. CASE ReadArguments
  <2>1. at = "arguments" /\ at' \in {"arguments", "version"} /\ is' = is
    BY <1>5 DEF ReadArguments
  <2>2. Good(is)' = Good(is)
    BY <2>1 DEF Good
  <2> QED BY <1>2, <2>1, <2>2 DEF LineInv
<1>6. CASE ReadVersion
  <2>1. at' \in {"headers", "rejected"}
    BY <1>6 DEF ReadVersion, Reject
  <2> QED BY <1>2, <2>1 DEF LineInv
<1>7. CASE ReadHeader
  <2>1. at' = "headers"
    BY <1>7 DEF ReadHeader
  <2> QED BY <1>2, <2>1 DEF LineInv
<1>8. CASE Accept
  <2>1. at' = "accepted"
    BY <1>8 DEF Accept
  <2> QED BY <1>2, <2>1 DEF LineInv
<1>9. CASE UNCHANGED parserVars
  <2>1. at' = at /\ is' = is
    BY <1>9 DEF parserVars
  <2>2. Good(is)' = Good(is)
    BY <2>1 DEF Good
  <2> QED BY <1>2, <2>1, <2>2 DEF LineInv
<1> QED BY <1>3, <1>4, <1>5, <1>6, <1>7, <1>8, <1>9 DEF Next, PrepareResponse

LEMMA HeadersInvSteps ==
  ASSUME PInv, LineInv, HeadersInv, [Next]_parserVars
  PROVE  HeadersInv'
<1>1. UNCHANGED <<request, text>>
  BY DEF Next, PrepareResponse, ReadMethod, ReadTarget, ReadArguments, ReadVersion,
         ReadHeader, Accept, parserVars
<1>2. HeaderCount' = HeaderCount
  BY <1>1 DEF HeaderCount
<1>3. HeaderCount \in Nat /\ request \in Requests
  BY HeaderEnds DEF LineInv, TextInv
<1>4. ASSUME NEW k PROVE Read(k)' = Read(k) /\ HeaderEnd(k)' = HeaderEnd(k) /\ Whole(k)' = Whole(k)
  BY <1>1 DEF Read, HeaderEnd, Whole, LineEnd, HeaderCount
<1>5. ASSUME NEW k \in 0 .. HeaderCount, is'.eof, mHttpHeaders' = Read(k),
             Last(text) = "\n" => Whole(k), at' = "headers"
      PROVE  HeadersInv'
  <2>1. ReadAll(k)'
    BY <1>1, <1>4, <1>5 DEF ReadAll
  <2> QED BY <1>2, <1>5, <2>1 DEF HeadersInv
<1>6. ASSUME NEW k \in 0 .. HeaderCount, ~is'.eof, AtHeader(k)', at' = "headers"
      PROVE  HeadersInv'
  BY <1>2, <1>6 DEF HeadersInv
<1>7. CASE ReadMethod \/ ReadTarget
  <2>1. at' \in {"target", "arguments", "rejected"} /\ mHttpHeaders' = mHttpHeaders
    BY <1>7 DEF ReadMethod, ReadTarget, Reject, fields
  <2>2. mHttpHeaders = <<>>
    BY <1>7 DEF ReadMethod, ReadTarget, HeadersInv
  <2> QED BY <2>1, <2>2 DEF HeadersInv
<1>8. CASE ReadArguments
  <2>1. at' \in {"arguments", "version"} /\ mHttpHeaders' = mHttpHeaders
    BY <1>8 DEF ReadArguments
  <2>2. mHttpHeaders = <<>>
    BY <1>8 DEF ReadArguments, HeadersInv
  <2> QED BY <2>1, <2>2 DEF HeadersInv
<1>9. CASE ReadVersion
  <2>1. CASE at' = "rejected"
    BY <2>1 DEF HeadersInv
  <2>2. CASE at' = "headers"
    <3>1. mHttpHeaders' = <<>>
      BY <1>9, <2>2, VersionRead
    <3>2. CASE is'.eof /\ (Last(text) = "\n" => Whole(0))
      <4>1. 0 \in 0 .. HeaderCount /\ mHttpHeaders' = Read(0)
        BY <1>3, <3>1, NothingRead
      <4> QED BY <1>5, <2>2, <3>2, <4>1
    <3>3. CASE ~is'.eof /\ HeaderCount # 0 /\ is'.pos = HeaderEnd(1) + 1
      <4>1. 1 \in 0 .. HeaderCount /\ mHttpHeaders' = Read(1)
        BY <1>3, <3>1, <3>3, NothingRead
      <4>2. AtHeader(1)'
        BY <1>4, <3>3, <4>1 DEF AtHeader
      <4> QED BY <1>6, <2>2, <3>3, <4>1, <4>2
    <3>4. CASE /\ ~is'.eof /\ HeaderCount = 0 /\ is'.pos = Len(text) + 1
               /\ Len(text) = LineEnd + 2
      <4>1. 0 \in 0 .. HeaderCount /\ mHttpHeaders' = Read(0)
        BY <1>3, <3>1, NothingRead
      <4>2. text' = text /\ LineEnd' = LineEnd
        BY <1>1 DEF LineEnd
      <4>3. AtHeader(0)'
        BY <1>2, <1>4, <3>4, <4>1, <4>2 DEF AtHeader
      <4> QED BY <1>6, <2>2, <3>4, <4>1, <4>3
    <3> QED BY <1>9, <2>2, <3>2, <3>3, <3>4, VersionRead
  <2> QED BY <1>9, <2>1, <2>2 DEF ReadVersion, Reject
<1>10. CASE ReadHeader
  <2>1. at = "headers" /\ ~is.eof /\ at' = "headers"
    BY <1>10 DEF ReadHeader
  <2>2. PICK k \in 0 .. HeaderCount : AtHeader(k)
    BY <2>1 DEF HeadersInv
  <2>3. TurnEnds(k)
    <3>1. CASE k = HeaderCount
      BY <1>10, <2>2, <3>1, LastTurn DEF LineInv
    <3>2. CASE k # HeaderCount
      <4>1. k # 0
        BY <2>2, <3>2 DEF AtHeader
      <4>2. k \in 1 .. HeaderCount /\ k < HeaderCount
        BY <1>3, <3>2, <4>1
      <4> QED BY <1>10, <2>2, <4>2, NextTurn DEF LineInv
    <3> QED BY <3>1, <3>2
  <2>4. CASE is'.eof /\ mHttpHeaders' = Read(k) /\ (Last(text) = "\n" => Whole(k))
    BY <1>5, <2>1, <2>4
  <2>5. CASE /\ is'.eof /\ Last(text) # "\n"
             /\ \E key, v : mHttpHeaders' = Insert(Read(k), key, v)
    <3>1. PICK key, v : mHttpHeaders' = Insert(Read(k), key, v)
      BY <2>5
    <3> DEFINE m == mHttpHeaders'
               before == Read(k)
    <3>2. m = Insert(before, key, v)
      BY <3>1
    <3> HIDE DEF m, before
    <3>3. key \in DOMAIN m /\ m = Insert(before, key, m[key])
      BY <3>2, InsertItself
    <3>4. OneMore(k)'
      BY <1>1, <1>4, <2>5, <3>3 DEF OneMore, m, before
    <3> QED BY <1>2, <2>1, <2>5, <3>4 DEF HeadersInv
  <2>6. CASE /\ ~is'.eof /\ k < HeaderCount /\ k # 0
             /\ is'.pos = HeaderEnd(k + 1) + 1 /\ mHttpHeaders' = Read(k + 1)
    <3>1. k + 1 \in 0 .. HeaderCount /\ k + 1 # 0
      BY <1>3, <2>6
    <3>2. AtHeader(k + 1)'
      BY <1>4, <2>6, <3>1 DEF AtHeader
    <3> QED BY <1>6, <2>1, <2>6, <3>1, <3>2
  <2> QED BY <2>3, <2>4, <2>5, <2>6 DEF TurnEnds
<1>11. CASE Accept
  <2>1. at = "headers" /\ at' = "accepted" /\ is.eof /\ is' = is
        /\ mHttpHeaders' = mHttpHeaders
    BY <1>11 DEF Accept, fields
  <2>2. PICK k \in 0 .. HeaderCount : ReadAll(k) \/ OneMore(k)
    BY <2>1 DEF HeadersInv
  <2>3. (ReadAll(k) \/ OneMore(k))'
    BY <1>1, <1>4, <2>1, <2>2 DEF ReadAll, OneMore
  <2> QED BY <1>2, <2>1, <2>3 DEF HeadersInv
<1>12. CASE UNCHANGED parserVars
  <2>1. is' = is /\ at' = at /\ mHttpHeaders' = mHttpHeaders
    BY <1>12 DEF parserVars, fields
  <2>2. ASSUME NEW k PROVE /\ AtHeader(k)' = AtHeader(k) /\ ReadAll(k)' = ReadAll(k)
                           /\ OneMore(k)' = OneMore(k)
    BY <1>1, <1>4, <2>1 DEF AtHeader, ReadAll, OneMore, HeaderCount, LineEnd
  <2> QED BY <1>2, <2>1, <2>2 DEF HeadersInv
<1> QED BY <1>7, <1>8, <1>9, <1>10, <1>11, <1>12 DEF Next, PrepareResponse

LEMMA HeadersAlways == Spec => [](PInv /\ LineInv /\ HeadersInv)
<1>1. PInv /\ LineInv /\ HeadersInv /\ [Next]_parserVars => (PInv /\ LineInv /\ HeadersInv)'
  BY Inductive, LineInvSteps, HeadersInvSteps
<1>2. Init => PInv /\ LineInv /\ HeadersInv
  BY Initially, InvInitially
<1> QED BY <1>1, <1>2, PTL DEF Spec

LEMMA ReadPart ==
  ASSUME request \in Requests, NEW k \in 0 .. HeaderCount
  PROVE  /\ SubSeq(request.headers, 2, k) \in Seq(Headers)
         /\ Len(SubSeq(request.headers, 2, k)) = IF 2 <= k THEN k - 1 ELSE 0
         /\ \A j \in 1 .. k - 1 : SubSeq(request.headers, 2, k)[j] = request.headers[j + 1]
<1> DEFINE headers == request.headers
           a == SubSeq(headers, 2, k)
<1>1. headers \in Seq(Headers) /\ HeaderCount = Len(headers)
  BY RequestProperties DEF HeaderCount
<1> HIDE DEF headers
<1>2. k \in Nat /\ k <= Len(headers) /\ Len(headers) \in Nat
  BY <1>1
<1>3. \A j \in 2 .. k : headers[j] \in Headers
  BY <1>1, <1>2
<1> HIDE DEF a
<1>4. /\ a \in Seq(Headers) /\ Len(a) = IF 2 <= k THEN k - 2 + 1 ELSE 0
      /\ \A j \in 1 .. k - 2 + 1 : a[j] = headers[2 + j - 1]
  BY <1>2, <1>3, SubSeqProperties DEF a
<1>5. Len(a) = IF 2 <= k THEN k - 1 ELSE 0
  BY <1>2, <1>4
<1>6. ASSUME NEW j \in 1 .. k - 1 PROVE a[j] = headers[j + 1]
  <2>1. j \in 1 .. k - 2 + 1 /\ 2 + j - 1 = j + 1
    BY <1>2
  <2> QED BY <1>4, <2>1
<1> QED BY <1>4, <1>5, <1>6 DEF a, headers

(* A header that is read keeps its value when all of them are read. *)
LEMMA ReadKept ==
  ASSUME request \in Requests, NEW k \in 0 .. HeaderCount, NEW key \in DOMAIN Read(k)
  PROVE  key \in DOMAIN Read(HeaderCount) /\ Read(HeaderCount)[key] = Read(k)[key]
<1> DEFINE K == HeaderCount
           a == SubSeq(request.headers, 2, k)
           b == SubSeq(request.headers, 2, K)
<1>1. K \in Nat
  BY HeaderEnds
<1>2. K \in 0 .. HeaderCount
  BY <1>1
<1>3. a \in Seq(Headers) /\ Len(a) = (IF 2 <= k THEN k - 1 ELSE 0)
      /\ \A j \in 1 .. k - 1 : a[j] = request.headers[j + 1]
  BY ReadPart
<1>4. b \in Seq(Headers) /\ Len(b) = (IF 2 <= K THEN K - 1 ELSE 0)
      /\ \A j \in 1 .. K - 1 : b[j] = request.headers[j + 1]
  <2> HIDE DEF K
  <2> QED BY <1>2, ReadPart
<1>5. k \in Nat /\ k <= K
  BY <1>1
<1> HIDE DEF K, a, b
<1>6. Len(a) <= Len(b)
  BY <1>1, <1>3, <1>4, <1>5
<1>7. ASSUME NEW j \in 1 .. Len(a) PROVE a[j] = b[j]
  <2>1. j \in 1 .. k - 1 /\ j \in 1 .. K - 1
    BY <1>1, <1>3, <1>5
  <2> QED BY <1>3, <1>4, <2>1
<1>8. Read(k) = FirstValues(a) /\ Read(K) = FirstValues(b)
  BY DEF Read, a, b
<1>9. key \in DOMAIN FirstValues(a)
  BY <1>8
<1>10. a \in Seq(Headers) /\ b \in Seq(Headers)
  BY <1>3, <1>4
<1>11. key \in DOMAIN FirstValues(b) /\ FirstValues(b)[key] = FirstValues(a)[key]
  BY <1>6, <1>7, <1>9, <1>10, FirstValuesKept
<1> QED BY <1>8, <1>11 DEF K

LEMMA OneCut ==
  ASSUME TextInv, HeadersInv, at = "accepted"
  PROVE  OneHeaderCut
<1> DEFINE sent == Read(HeaderCount)
           Wrong(k) == k \notin DOMAIN sent \/ mHttpHeaders[k] # sent[k]
<1>1. request \in Requests
  BY DEF TextInv
<1>2. PICK k \in 0 .. HeaderCount : ReadAll(k) \/ OneMore(k)
  BY DEF HeadersInv
<1>3. \A x \in DOMAIN Read(k) : x \in DOMAIN sent /\ sent[x] = Read(k)[x]
  BY <1>1, ReadKept
<1>4. \E cut : \A x \in DOMAIN mHttpHeaders : Wrong(x) => x = cut
  <2>1. CASE ReadAll(k)
    BY <1>3, <2>1 DEF ReadAll
  <2>2. CASE OneMore(k)
    <3>1. PICK cut \in DOMAIN mHttpHeaders :
            mHttpHeaders = Insert(Read(k), cut, mHttpHeaders[cut])
      BY <2>2 DEF OneMore
    <3> DEFINE m == mHttpHeaders
               v == mHttpHeaders[cut]
               before == Read(k)
    <3>2. m = Insert(before, cut, v)
      BY <3>1
    <3>3. \A x \in DOMAIN before : x \in DOMAIN sent /\ sent[x] = before[x]
      BY <1>3
    <3> HIDE DEF m, v, before, sent
    <3>4. \A x \in DOMAIN m : x # cut => x \in DOMAIN before /\ m[x] = before[x]
      BY <3>2, InsertProperties
    <3>5. \A x \in DOMAIN m : (x \notin DOMAIN sent \/ m[x] # sent[x]) => x = cut
      BY <3>3, <3>4
    <3> QED BY <3>5 DEF m
  <2> QED BY <1>2, <2>1, <2>2
<1>5. \A x, y \in DOMAIN mHttpHeaders : Wrong(x) /\ Wrong(y) => x = y
  BY <1>4
<1> QED BY <1>5 DEF OneHeaderCut, Read, HeaderCount

(* Where the first n headers end. *)
LEMMA HeadersReach ==
  ASSUME request \in Requests, NEW n \in 1 .. HeaderCount
  PROVE  Len(RequestLine(request) \o HeaderLines(SubSeq(request.headers, 1, n)))
           = HeaderEnd(n)
<1> DEFINE headers == request.headers
           parts == HeaderParts(headers)
           line == RequestLine(request)
           lines == HeaderLines(SubSeq(headers, 1, n))
<1>1. headers \in Seq(Headers) /\ HeaderCount = Len(headers) /\ line \in Seq(Tokens)
  BY RequestProperties, LineLayout DEF HeaderCount
<1> HIDE DEF headers, line
<1>2. n \in 0 .. Len(headers) /\ Len(headers) \in Nat /\ n \in 1 .. Len(headers)
  BY <1>1
<1>3. lines = FlattenSeq(SubSeq(parts, 1, n))
  BY <1>1, <1>2, SomeHeaderParts
<1>4. parts \in Seq(Seq(Tokens)) /\ Len(parts) = Len(headers)
  BY <1>1, HeaderPartsProperties
<1> HIDE DEF parts, lines
<1>5. FlattenSeq(SubSeq(parts, 1, n)) \in Seq(Tokens)
  <2>1. n \in 1 .. Len(parts)
    BY <1>2, <1>4
  <2> QED BY <1>4, <2>1, FlattenAppends
<1>6. Len(line \o lines) = Len(line) + Len(lines)
  BY <1>1, <1>3, <1>5, ConcatElements
<1> QED BY <1>3, <1>6 DEF HeaderEnd, LineEnd, End, line, lines, headers, parts

LEMMA ArrivedIs ==
  ASSUME request \in Requests, Len(text) \in Nat, NEW k \in 0 .. HeaderCount, Whole(k)
  PROVE  Arrived = SubSeq(request.headers, 1, k)
<1> DEFINE n == Len(text)
           K == HeaderCount
           whole == {m \in 1 .. K : HeaderEnd(m) <= n}
<1>1. /\ K \in Nat /\ \A m \in 0 .. K : HeaderEnd(m) \in Nat
      /\ \A j \in 0 .. K : \A m \in j .. K : HeaderEnd(j) <= HeaderEnd(m)
  BY HeaderEnds
<1>2. HeaderEnd(k) <= n /\ (k < K => n < HeaderEnd(k + 1)) /\ n \in Nat
  BY DEF Whole
<1> HIDE DEF n
<1>3. whole = 1 .. k
  <2> HIDE DEF K
  <2>1. ASSUME NEW m \in 1 .. K, m <= k PROVE HeaderEnd(m) <= n
    <3>1. m \in 0 .. K /\ k \in m .. K /\ k \in 0 .. K
      BY <1>1, <2>1 DEF K
    <3>2. HeaderEnd(m) <= HeaderEnd(k) /\ HeaderEnd(m) \in Nat /\ HeaderEnd(k) \in Nat
      BY <1>1, <3>1
    <3> QED BY <1>2, <3>2
  <2>2. ASSUME NEW m \in 1 .. K, ~(m <= k) PROVE ~(HeaderEnd(m) <= n)
    <3>1. k + 1 \in 0 .. K /\ m \in k + 1 .. K /\ m \in 0 .. K /\ k < K
      BY <1>1, <2>2 DEF K
    <3>2. HeaderEnd(k + 1) <= HeaderEnd(m) /\ HeaderEnd(m) \in Nat /\ HeaderEnd(k + 1) \in Nat
      BY <1>1, <3>1
    <3> QED BY <1>2, <3>1, <3>2
  <2>3. \A m \in 1 .. k : m \in 1 .. K /\ m <= k
    BY <1>1 DEF K
  <2>4. \A m \in 1 .. K : m <= k => m \in 1 .. k
    BY <1>1 DEF K
  <2> QED BY <2>1, <2>2, <2>3, <2>4
<1>4. Cardinality(1 .. k) = k
  <2>1. k \in Int /\ 1 \in Int /\ k >= 0
    BY <1>1
  <2>2. Cardinality(1 .. k) = IF 1 > k THEN 0 ELSE k - 1 + 1
    BY <2>1, FS_Interval
  <2> QED BY <2>1, <2>2
<1>5. whole = {m \in 1 .. Len(request.headers) :
                 Len(RequestLine(request) \o HeaderLines(SubSeq(request.headers, 1, m))) <= Len(text)}
  <2>1. \A m \in 1 .. HeaderCount :
          Len(RequestLine(request) \o HeaderLines(SubSeq(request.headers, 1, m))) = HeaderEnd(m)
    BY HeadersReach
  <2> QED BY <2>1 DEF n, HeaderCount
<1> HIDE DEF whole
<1>6. Cardinality(whole) = k
  BY <1>3, <1>4
<1>7. Arrived = SubSeq(request.headers, 1, Cardinality(whole))
  BY <1>5 DEF Arrived
<1> QED BY <1>6, <1>7

LEMMA TailOfSome ==
  ASSUME request \in Requests, NEW k \in 1 .. HeaderCount
  PROVE  /\ SubSeq(request.headers, 1, k) # <<>>
         /\ Tail(SubSeq(request.headers, 1, k)) = SubSeq(request.headers, 2, k)
<1> DEFINE headers == request.headers
           some == SubSeq(headers, 1, k)
<1>1. headers \in Seq(Headers) /\ HeaderCount = Len(headers)
  BY RequestProperties DEF HeaderCount
<1> HIDE DEF headers
<1>2. k \in Nat /\ 1 <= k /\ k <= Len(headers) /\ Len(headers) \in Nat
  BY <1>1
<1>3. \A j \in 1 .. k : headers[j] \in Headers
  BY <1>1, <1>2
<1>4. Tail(some) = SubSeq(headers, 1 + 1, k)
  BY <1>2, <1>3, HeadTailOfSubSeq
<1> HIDE DEF some
<1>5. Len(some) = IF 1 <= k THEN k - 1 + 1 ELSE 0
  BY <1>2, <1>3, SubSeqProperties DEF some
<1>6. some # <<>>
  <2> SUFFICES ASSUME some = <<>> PROVE FALSE
    OBVIOUS
  <2>1. Len(some) = 0
    BY EmptySeq
  <2> QED BY <1>2, <1>5, <2>1
<1>7. 1 + 1 = 2
  OBVIOUS
<1> QED BY <1>4, <1>6, <1>7 DEF some, headers

LEMMA AllSent ==
  ASSUME TextInv, HeadersInv, at = "accepted"
  PROVE  HeadersAsSent
<1> SUFFICES ASSUME Last(text) = "\n"
             PROVE  mHttpHeaders = IF Arrived = <<>> THEN <<>> ELSE FirstValues(Tail(Arrived))
  BY DEF HeadersAsSent
<1>1. request \in Requests /\ Len(text) \in Nat /\ HeaderCount \in Nat
  BY TextPrefix, HeaderEnds DEF TextInv
<1>2. PICK k \in 0 .. HeaderCount : mHttpHeaders = Read(k) /\ Whole(k)
  BY DEF HeadersInv, ReadAll, OneMore
<1>3. Arrived = SubSeq(request.headers, 1, k)
  BY <1>1, <1>2, ArrivedIs
<1>4. CASE k = 0
  <2>1. Arrived = <<>>
    BY <1>3, <1>4, SubSeqEmpty
  <2> QED BY <1>2, <1>4, <2>1, NothingRead
<1>5. CASE k # 0
  <2>1. k \in 1 .. HeaderCount
    BY <1>1, <1>5
  <2>2. Arrived # <<>> /\ Tail(Arrived) = SubSeq(request.headers, 2, k)
    BY <1>1, <1>3, <2>1, TailOfSome
  <2> QED BY <1>2, <2>2 DEF Read
<1> QED BY <1>4, <1>5

(* HeadersAsSent: of a text that ends with a line, every header that came  *)
(* whole has its own value in mHttpHeaders, except the first, which        *)
(* ReadVersion's ignore drops, and nothing else is there.                  *)
THEOREM EveryHeaderAsSent == Spec => []HeadersAsSent
<1>1. LineInv /\ HeadersInv => HeadersAsSent
  BY AllSent DEF LineInv, HeadersAsSent
<1> QED BY <1>1, HeadersAlways, PTL

(* OneHeaderCut: wherever the record ends, even inside a name, at a colon  *)
(* or between \r and \n, PrepareResponse gets at most one header wrong.    *)
THEOREM OnlyOneHeaderCut == Spec => []OneHeaderCut
<1>1. LineInv /\ HeadersInv => OneHeaderCut
  BY OneCut DEF LineInv, OneHeaderCut
<1> QED BY <1>1, HeadersAlways, PTL

-----------------------------------------------------------------------------
(* What is where in a query, and in the buffer the loop over the           *)
(* arguments reads.                                                        *)

(* How far the first k arguments reach in a query, and where the "=" of    *)
(* argument k is in what follows the "?".                                  *)
ArgEnd(A, k) == End(QueryParts(A), k)
Equals(A, k) == ArgEnd(A, k - 1) + Len(A[k][1]) + 1

LEMMA ArgEnds ==
  ASSUME NEW A \in Seq(Arguments)
  PROVE  /\ Len(A) \in Nat /\ ArgEnd(A, 0) = 0
         /\ \A k \in 0 .. Len(A) : ArgEnd(A, k) \in Nat
         /\ \A j \in 0 .. Len(A) : \A k \in j .. Len(A) : ArgEnd(A, j) <= ArgEnd(A, k)
         /\ Len(Query(A)) = ArgEnd(A, Len(A)) /\ Query(A) \in Seq(Tokens)
<1> DEFINE parts == QueryParts(A)
<1>1. Len(A) \in Nat
  OBVIOUS
<1>2. parts \in Seq(Seq(NonBlank)) /\ Len(parts) = Len(A)
      /\ Query(A) = FlattenSeq(parts)
  BY QueryLayout
<1> HIDE DEF parts
<1>3. /\ End(parts, 0) = 0 /\ \A k \in 0 .. Len(A) : End(parts, k) \in Nat
  BY <1>2, EndsGrow
<1>4. ASSUME NEW j \in 0 .. Len(A), NEW k \in j .. Len(A)
      PROVE  End(parts, j) <= End(parts, k)
  BY <1>2, EndsAreOrdered
<1>5. Len(FlattenSeq(parts)) = End(parts, Len(parts)) /\ FlattenSeq(parts) \in Seq(NonBlank)
  BY <1>2, FlattenParts
<1>6. NonBlank \subseteq Tokens
  BY DEF NonBlank
<1>7. Query(A) \in Seq(Tokens)
  BY <1>2, <1>5, <1>6, SeqMonotonic
<1> QED BY <1>1, <1>2, <1>3, <1>4, <1>5, <1>7 DEF ArgEnd, parts

LEMMA ArgumentPlace ==
  ASSUME NEW A \in Seq(Arguments), NEW k \in 1 .. Len(A)
  PROVE  LET Q == Query(A)
             a == A[k][1]
             v == A[k][2]
             start == ArgEnd(A, k - 1)
             eq == Equals(A, k)
         IN /\ start \in Nat /\ Len(a) \in Nat /\ Len(v) \in Nat
            /\ eq = start + Len(a) + 1 /\ ArgEnd(A, k) = eq + Len(v) + 1
            /\ ArgEnd(A, k) <= Len(Q) /\ Len(Q) \in Nat
            /\ a \in Seq(Tokens) /\ v \in Seq(Tokens)
            /\ Q[start + 1] = IF k = 1 THEN "?" ELSE "&"
            /\ \A j \in 1 .. Len(a) : Q[start + 1 + j] = a[j]
            /\ Q[eq + 1] = "="
            /\ \A j \in 1 .. Len(v) : Q[eq + 1 + j] = v[j]
<1> DEFINE Q == Query(A)
           parts == QueryParts(A)
           a == A[k][1]
           v == A[k][2]
           start == ArgEnd(A, k - 1)
           eq == Equals(A, k)
           end == ArgEnd(A, k)
           w == QueryPart(k, A[k])
           la == Len(a)
           lv == Len(v)
           lw == Len(w)
           lq == Len(Q)
<1>1. A[k] \in Arguments /\ k \in Nat /\ Len(A) \in Nat
  OBVIOUS
<1>2. parts \in Seq(Seq(NonBlank)) /\ Len(parts) = Len(A) /\ parts[k] = w
      /\ Q = FlattenSeq(parts)
  BY QueryLayout
<1>3. k - 1 \in 0 .. Len(A) /\ k \in 0 .. Len(A) /\ Len(A) \in k .. Len(A)
      /\ k \in 1 .. Len(A) /\ Len(A) \in 0 .. Len(A)
  BY <1>1
<1>4. start \in Nat /\ end \in Nat /\ end <= lq /\ lq \in Nat
  <2>1. ArgEnd(A, k - 1) \in Nat /\ ArgEnd(A, k) \in Nat
        /\ ArgEnd(A, k) <= ArgEnd(A, Len(A)) /\ Len(Query(A)) = ArgEnd(A, Len(A))
        /\ ArgEnd(A, Len(A)) \in Nat
    BY <1>3, ArgEnds
  <2> QED BY <2>1
<1>5. end = start + lw
  <2>1. End(QueryParts(A), k) = End(QueryParts(A), k - 1) + Len(QueryParts(A)[k])
    BY <1>2, <1>3, EndsGrow
  <2>2. QueryParts(A)[k] = w
    BY <1>2
  <2> QED BY <2>1, <2>2 DEF ArgEnd
<1>6. \A j \in 1 .. lw : Q[start + j] = w[j]
  <2>1. \A j \in 1 .. Len(parts[k]) : FlattenSeq(parts)[End(parts, k - 1) + j] = parts[k][j]
    <3> HIDE DEF parts
    <3> QED BY <1>2, <1>3, FlattenParts
  <2> QED BY <1>2, <2>1 DEF ArgEnd
<1>7. eq = start + la + 1
  BY DEF Equals
<1> DEFINE p == A[k]
<1>8. /\ a \in Seq(NonBlank) /\ v \in Seq(NonBlank) /\ la \in Nat /\ lv \in Nat
      /\ lw = la + lv + 2
      /\ w[1] = (IF k = 1 THEN "?" ELSE "&")
      /\ \A j \in 1 .. la : w[1 + j] = a[j]
      /\ w[la + 2] = "="
      /\ \A j \in 1 .. lv : w[la + 2 + j] = v[j]
  <2>1. p \in Arguments
    BY <1>1
  <2>0. k \in Nat
    BY <1>1
  <2> HIDE DEF p
  <2>2. /\ p[1] \in Seq(NonBlank) /\ p[2] \in Seq(NonBlank)
        /\ Len(p[1]) \in Nat /\ Len(p[2]) \in Nat
        /\ Len(QueryPart(k, p)) = Len(p[1]) + Len(p[2]) + 2
        /\ QueryPart(k, p)[1] = (IF k = 1 THEN "?" ELSE "&")
        /\ \A j \in 1 .. Len(p[1]) : QueryPart(k, p)[1 + j] = p[1][j]
        /\ QueryPart(k, p)[Len(p[1]) + 2] = "="
        /\ \A j \in 1 .. Len(p[2]) : QueryPart(k, p)[Len(p[1]) + 2 + j] = p[2][j]
    <3> DEFINE u == QueryPart(k, p)
               x == p[1]
               y == p[2]
    <3>1. /\ x \in Seq(NonBlank) /\ y \in Seq(NonBlank)
          /\ Len(x) \in Nat /\ Len(y) \in Nat
      BY ONLY <2>0, <2>1, QueryPartLayout
    <3>2. /\ Len(u) = Len(x) + Len(y) + 2
          /\ u[1] = (IF k = 1 THEN "?" ELSE "&")
          /\ u[Len(x) + 2] = "="
      BY ONLY <2>0, <2>1, QueryPartLayout
    <3>3. \A j \in 1 .. Len(x) : u[1 + j] = x[j]
      BY ONLY <2>0, <2>1, QueryPartLayout
    <3>4. \A j \in 1 .. Len(y) : u[Len(x) + 2 + j] = y[j]
      BY ONLY <2>0, <2>1, QueryPartLayout
    <3> QED BY ONLY <3>1, <3>2, <3>3, <3>4
  <2> QED BY <2>2 DEF p
<1> HIDE DEF Q, parts, a, v, start, eq, end, w, la, lv, lw, lq, p
<1>9. la \in Nat /\ lv \in Nat /\ lw = la + lv + 2 /\ start \in Nat /\ end = start + lw
      /\ eq = start + la + 1 /\ end <= lq /\ lq \in Nat
  BY <1>4, <1>5, <1>7, <1>8
<1>10. end = eq + lv + 1
  BY <1>9
<1>11. Q[start + 1] = IF k = 1 THEN "?" ELSE "&"
  <2>1. 1 \in 1 .. lw
    BY <1>9
  <2>2. Q[start + 1] = w[1]
    BY <1>6, <2>1
  <2>3. w[1] = IF k = 1 THEN "?" ELSE "&"
    BY <1>8
  <2> QED BY <2>2, <2>3
<1>12. ASSUME NEW j \in 1 .. la PROVE Q[start + 1 + j] = a[j]
  <2> DEFINE x == 1 + j
  <2>1. x \in 1 .. lw /\ start + x = start + 1 + j
    BY <1>9
  <2>2. w[x] = a[j]
    BY <1>8
  <2> HIDE DEF x
  <2>3. Q[start + x] = w[x]
    BY <1>6, <2>1
  <2> QED BY <2>1, <2>2, <2>3
<1>13. Q[eq + 1] = "="
  <2> DEFINE x == la + 2
  <2>1. x \in 1 .. lw /\ start + x = eq + 1
    BY <1>9
  <2>2. w[x] = "="
    BY <1>8
  <2> HIDE DEF x
  <2>3. Q[start + x] = w[x]
    BY <1>6, <2>1
  <2> QED BY <2>1, <2>2, <2>3
<1>14. ASSUME NEW j \in 1 .. lv PROVE Q[eq + 1 + j] = v[j]
  <2> DEFINE x == la + 2 + j
  <2>1. x \in 1 .. lw /\ start + x = eq + 1 + j
    BY <1>9
  <2>2. w[x] = v[j]
    BY <1>8
  <2> HIDE DEF x
  <2>3. Q[start + x] = w[x]
    BY <1>6, <2>1
  <2> QED BY <2>1, <2>2, <2>3
<1>15. a \in Seq(Tokens) /\ v \in Seq(Tokens)
  <2>1. a \in Seq(NonBlank) /\ v \in Seq(NonBlank) /\ NonBlank \subseteq Tokens
    BY <1>8 DEF NonBlank
  <2> QED BY <2>1, SeqMonotonic
<1>16. LET e == ArgEnd(A, k) IN e = eq + lv + 1 /\ e <= lq
  BY <1>9, <1>10 DEF end
<1> QED BY <1>7, <1>9, <1>11, <1>12, <1>13, <1>14, <1>15, <1>16
        DEF Q, a, v, start, eq, la, lv, lq

(* What follows the "?" of a query. *)
IsQuery(b, A) ==
  /\ b \in Seq(Tokens) /\ Len(b) = Len(Query(A)) - 1
  /\ \A j \in 1 .. Len(b) : b[j] = Query(A)[j + 1]

(* Argument k in it, and nothing in its name and value that the loop over  *)
(* the arguments stops at.                                                 *)
InBuffer(b, A, k) ==
  LET start == ArgEnd(A, k - 1)
      eq == Equals(A, k)
      end == ArgEnd(A, k)
  IN /\ b[eq] = "="
     /\ \A j \in start + 1 .. eq - 1 : b[j] # "="
     /\ \A j \in eq + 1 .. end - 1 : b[j] # "=" /\ b[j] # "&"
     /\ SubSeq(b, start + 1, eq - 1) = A[k][1]
     /\ SubSeq(b, eq + 1, end - 1) = A[k][2]
     /\ k # 1 => b[start] = "&"

LEMMA BufferNumbers ==
  ASSUME NEW A \in Seq(Arguments), NEW k \in 1 .. Len(A), NEW b, IsQuery(b, A)
  PROVE  /\ ArgEnd(A, k - 1) \in Nat /\ Equals(A, k) \in Nat /\ ArgEnd(A, k) \in Nat
         /\ ArgEnd(A, k - 1) < Equals(A, k) /\ Equals(A, k) < ArgEnd(A, k)
         /\ ArgEnd(A, k) <= Len(b) + 1 /\ Len(b) \in Nat
         /\ ArgEnd(A, Len(A)) = Len(b) + 1
<1> DEFINE start == ArgEnd(A, k - 1)
           eq == Equals(A, k)
           end == ArgEnd(A, k)
           la == Len(A[k][1])
           lv == Len(A[k][2])
           lq == Len(Query(A))
           last == ArgEnd(A, Len(A))
<1>1. /\ start \in Nat /\ la \in Nat /\ lv \in Nat /\ eq = start + la + 1
      /\ end = eq + lv + 1 /\ end <= lq /\ lq \in Nat
  BY ArgumentPlace
<1>2. Len(b) = lq - 1 /\ Len(b) \in Nat
  BY DEF IsQuery
<1>3. last = lq
  BY ArgEnds
<1> HIDE DEF start, eq, end, la, lv, lq, last
<1>4. /\ eq \in Nat /\ end \in Nat /\ start < eq /\ eq < end /\ end <= Len(b) + 1
      /\ last = Len(b) + 1
  BY <1>1, <1>2, <1>3
<1> QED BY <1>1, <1>2, <1>4 DEF start, eq, end, last

LEMMA BufferHolds ==
  ASSUME NEW A \in Seq(Arguments), NEW k \in 1 .. Len(A), NEW b, IsQuery(b, A),
         PlainTokens(A[k][1]), PlainTokens(A[k][2])
  PROVE  InBuffer(b, A, k)
<1> DEFINE Q == Query(A)
           a == A[k][1]
           v == A[k][2]
           start == ArgEnd(A, k - 1)
           eq == Equals(A, k)
           end == ArgEnd(A, k)
           la == Len(a)
           lv == Len(v)
           lq == Len(Q)
           lb == Len(b)
<1>1. /\ start \in Nat /\ la \in Nat /\ lv \in Nat /\ eq = start + la + 1
      /\ end = eq + lv + 1 /\ end <= lq /\ lq \in Nat
  BY ArgumentPlace
<1>2. lb = lq - 1
  BY DEF IsQuery
<1>3. \A j \in 1 .. lb : b[j] = Q[j + 1]
  BY DEF IsQuery
<1>4. a \in Seq(Tokens) /\ v \in Seq(Tokens)
  BY ArgumentPlace
<1>5. Q[start + 1] = IF k = 1 THEN "?" ELSE "&"
  BY ArgumentPlace
<1>6. \A j \in 1 .. la : Q[start + 1 + j] = a[j]
  BY ArgumentPlace
<1>7. Q[eq + 1] = "="
  BY ArgumentPlace
<1>8. \A j \in 1 .. lv : Q[eq + 1 + j] = v[j]
  BY ArgumentPlace
<1>9. /\ \A j \in 1 .. la : a[j] \notin {"=", "&", "/", "?"}
      /\ \A j \in 1 .. lv : v[j] \notin {"=", "&", "/", "?"}
  <2>1. DOMAIN a = 1 .. la /\ DOMAIN v = 1 .. lv
    BY <1>4
  <2>2. /\ \A j \in DOMAIN a : a[j] \notin {"=", "&", "/", "?"}
        /\ \A j \in DOMAIN v : v[j] \notin {"=", "&", "/", "?"}
    BY DEF PlainTokens, Range
  <2> QED BY <2>1, <2>2
<1> HIDE DEF Q, a, v, start, eq, end, la, lv, lq, lb
<1>10. eq \in Nat /\ end \in Nat /\ start < eq /\ eq < end /\ end <= lb + 1 /\ lb \in Nat
  BY <1>1, <1>2
<1>11. b[eq] = "="
  <2>1. eq \in 1 .. lb
    BY <1>1, <1>10
  <2> QED BY <1>3, <1>7, <2>1
<1>12. ASSUME NEW j \in 1 .. la PROVE b[start + j] = a[j]
  <2> DEFINE x == start + j
  <2>1. x \in 1 .. lb /\ x + 1 = start + 1 + j
    BY <1>1, <1>10
  <2> HIDE DEF x
  <2>2. b[x] = Q[start + 1 + j]
    BY <1>3, <2>1
  <2>3. b[x] = a[j]
    BY <1>6, <2>2
  <2> QED BY <2>3 DEF x
<1>13. ASSUME NEW j \in 1 .. lv PROVE b[eq + j] = v[j]
  <2> DEFINE x == eq + j
  <2>1. x \in 1 .. lb /\ x + 1 = eq + 1 + j
    BY <1>1, <1>10
  <2> HIDE DEF x
  <2>2. b[x] = Q[eq + 1 + j]
    BY <1>3, <2>1
  <2>3. b[x] = v[j]
    BY <1>8, <2>2
  <2> QED BY <2>3 DEF x
<1>14. ASSUME NEW j \in start + 1 .. eq - 1 PROVE b[j] # "="
  <2> DEFINE x == j - start
  <2>1. x \in 1 .. la /\ start + x = j
    BY <1>1
  <2> HIDE DEF x
  <2>2. b[j] = a[x]
    BY <1>12, <2>1
  <2> QED BY <1>9, <2>1, <2>2
<1>15. ASSUME NEW j \in eq + 1 .. end - 1 PROVE b[j] # "=" /\ b[j] # "&"
  <2> DEFINE x == j - eq
  <2>1. x \in 1 .. lv /\ eq + x = j
    BY <1>1, <1>10
  <2> HIDE DEF x
  <2>2. b[j] = v[x]
    BY <1>13, <2>1
  <2> QED BY <1>9, <2>1, <2>2
<1>16. SubSeq(b, start + 1, eq - 1) = a
  <2> DEFINE m == start + 1
             n == eq - 1
  <2>1. m \in Int /\ n \in Int /\ la = n - m + 1
    BY <1>1, <1>10
  <2>2. ASSUME NEW j \in 1 .. la PROVE b[m + j - 1] = a[j]
    <3>1. m + j - 1 = start + j
      BY <1>1
    <3> QED BY <1>12, <3>1
  <2> HIDE DEF m, n
  <2>3. SubSeq(b, m, n) = a
    BY <1>4, <2>1, <2>2, SameElements DEF la
  <2> QED BY <2>3 DEF m, n
<1>17. SubSeq(b, eq + 1, end - 1) = v
  <2> DEFINE m == eq + 1
             n == end - 1
  <2>1. m \in Int /\ n \in Int /\ lv = n - m + 1
    BY <1>1, <1>10
  <2>2. ASSUME NEW j \in 1 .. lv PROVE b[m + j - 1] = v[j]
    <3>1. m + j - 1 = eq + j
      BY <1>10
    <3> QED BY <1>13, <3>1
  <2> HIDE DEF m, n
  <2>3. SubSeq(b, m, n) = v
    BY <1>4, <2>1, <2>2, SameElements DEF lv
  <2> QED BY <2>3 DEF m, n
<1>18. ASSUME k # 1 PROVE b[start] = "&"
  <2>1. start # 0
    <3>1. k - 1 \in 1 .. Len(A) /\ k - 1 \in 0 .. Len(A)
      BY <1>18
    <3>2. ArgEnd(A, k - 1) \in Nat /\ Equals(A, k - 1) < ArgEnd(A, k - 1)
          /\ Equals(A, k - 1) \in Nat
      <4> DEFINE m == k - 1
      <4>1. m \in 1 .. Len(A)
        BY <3>1
      <4> HIDE DEF m
      <4>2. ArgEnd(A, m) \in Nat /\ Equals(A, m) < ArgEnd(A, m) /\ Equals(A, m) \in Nat
        BY <4>1, BufferNumbers
      <4> QED BY <4>2 DEF m
    <3> QED BY <3>2 DEF start
  <2>2. start \in 1 .. lb
    BY <1>1, <1>10, <2>1
  <2>3. b[start] = Q[start + 1]
    BY <1>3, <2>2
  <2> QED BY <1>5, <1>18, <2>3
<1>19. InBuffer(b, A, k)
  BY <1>11, <1>14, <1>15, <1>16, <1>17, <1>18 DEF InBuffer, start, eq, end, a, v
<1> QED BY <1>19

LEMMA PrefixInsert ==
  ASSUME NEW S, NEW A \in Seq(S), NEW k \in 0 .. Len(A), k < Len(A)
  PROVE  FirstValues(SubSeq(A, 1, k + 1)) =
           Insert(FirstValues(SubSeq(A, 1, k)), A[k + 1][1], A[k + 1][2])
<1> DEFINE a == SubSeq(A, 1, k)
           b == SubSeq(A, 1, k + 1)
<1>1. k \in Nat /\ k < Len(A) /\ Len(A) \in Nat
  OBVIOUS
<1>2. \A j \in 1 .. k + 1 : A[j] \in S
  BY <1>1
<1>3. /\ a \in Seq(S) /\ Len(a) = k /\ \A j \in 1 .. k : a[j] = A[j]
  <2> HIDE DEF a
  <2>1. /\ a \in Seq(S) /\ Len(a) = IF 1 <= k THEN k - 1 + 1 ELSE 0
        /\ \A j \in 1 .. k - 1 + 1 : a[j] = A[1 + j - 1]
    BY <1>1, <1>2, SubSeqProperties DEF a
  <2>2. Len(a) = k
    BY <1>1, <2>1
  <2>3. ASSUME NEW j \in 1 .. k PROVE a[j] = A[j]
    <3>1. j \in 1 .. k - 1 + 1 /\ 1 + j - 1 = j
      BY <1>1
    <3> QED BY <2>1, <3>1
  <2> QED BY <2>1, <2>2, <2>3
<1>4. /\ b \in Seq(S) /\ Len(b) = k + 1 /\ \A j \in 1 .. k + 1 : b[j] = A[j]
  <2> HIDE DEF b
  <2>1. /\ b \in Seq(S) /\ Len(b) = IF 1 <= k + 1 THEN k + 1 - 1 + 1 ELSE 0
        /\ \A j \in 1 .. k + 1 - 1 + 1 : b[j] = A[1 + j - 1]
    BY <1>1, <1>2, SubSeqProperties DEF b
  <2>2. Len(b) = k + 1
    BY <1>1, <2>1
  <2>3. ASSUME NEW j \in 1 .. k + 1 PROVE b[j] = A[j]
    <3>1. j \in 1 .. k + 1 - 1 + 1 /\ 1 + j - 1 = j
      BY <1>1
    <3> QED BY <2>1, <3>1
  <2> QED BY <2>1, <2>2, <2>3
<1> HIDE DEF a, b
<1>5. Len(b) = Len(a) + 1 /\ \A j \in 1 .. Len(a) : b[j] = a[j]
  <2>1. \A j \in 1 .. k : j \in 1 .. k + 1
    BY <1>1
  <2> QED BY <1>3, <1>4, <2>1
<1>6. b[Len(b)] = A[k + 1]
  BY <1>1, <1>4
<1>7. FirstValues(b) = Insert(FirstValues(a), b[Len(b)][1], b[Len(b)][2])
  BY <1>3, <1>4, <1>5, FirstValuesInsert
<1> QED BY <1>6, <1>7 DEF a, b

LEMMA SubSeqOfFrom ==
  ASSUME NEW S, NEW b \in Seq(S), NEW p \in 1 .. Len(b) + 1, NEW n \in 0 .. Len(b) + 1 - p
  PROVE  SubSeq(From(b, p), 1, n) = SubSeq(b, p, p + n - 1)
<1> DEFINE rest == From(b, p)
           u == SubSeq(b, p, p + n - 1)
<1>1. Len(b) \in Nat /\ p \in Nat /\ n \in Nat /\ p + n - 1 <= Len(b) /\ p >= 1
  OBVIOUS
<1>2. \A j \in 1 .. Len(b) + 1 - p : rest[j] = b[p + j - 1]
  <2> HIDE DEF rest
  <2> QED BY FromElements DEF rest
<1>3. \A j \in p .. p + n - 1 : b[j] \in S
  BY <1>1
<1> HIDE DEF rest, u
<1>4. /\ u \in Seq(S) /\ Len(u) = IF p <= p + n - 1 THEN p + n - 1 - p + 1 ELSE 0
      /\ \A j \in 1 .. p + n - 1 - p + 1 : u[j] = b[p + j - 1]
  BY <1>1, <1>3, SubSeqProperties DEF u
<1>5. Len(u) = n
  BY <1>1, <1>4
<1>6. ASSUME NEW j \in 1 .. n PROVE rest[1 + j - 1] = u[j]
  <2>1. 1 + j - 1 = j /\ j \in 1 .. Len(b) + 1 - p /\ j \in 1 .. p + n - 1 - p + 1
    BY <1>1
  <2> QED BY <1>2, <1>4, <2>1
<1>7. Len(u) = n - 1 + 1 /\ 1 \in Int /\ n \in Int
  BY <1>1, <1>5
<1>8. SubSeq(rest, 1, n) = u
  BY <1>4, <1>5, <1>6, <1>7, SameElements
<1> QED BY <1>8 DEF rest, u

PlainArguments(A) ==
  \A k \in 1 .. Len(A) : PlainTokens(A[k][1]) /\ PlainTokens(A[k][2])

(* The loop at j has read the first k arguments of A. *)
Between(A, k, j) ==
  /\ k # 0 => j > Equals(A, k)
  /\ k < Len(A) => j <= Equals(A, k + 1)

LEMMA EqualsFound ==
  ASSUME NEW A \in Seq(Arguments), Len(A) # 0, PlainArguments(A),
         NEW b, IsQuery(b, A), NEW j \in 1 .. Len(b), NEW k \in 0 .. Len(A), Between(A, k, j)
  PROVE  /\ b[j] = "=" => k < Len(A) /\ j = Equals(A, k + 1)
         /\ k < Len(A) /\ j = Equals(A, k + 1) => b[j] = "="
<1>1. Len(A) \in Nat /\ k \in Nat /\ Len(b) \in Nat /\ j \in Nat /\ j >= 1
  BY DEF IsQuery
<1>2. ASSUME NEW m \in 1 .. Len(A) PROVE InBuffer(b, A, m)
  BY BufferHolds DEF PlainArguments
<1>3. ASSUME NEW m \in 1 .. Len(A)
      PROVE  /\ ArgEnd(A, m - 1) \in Nat /\ Equals(A, m) \in Nat /\ ArgEnd(A, m) \in Nat
             /\ ArgEnd(A, m - 1) < Equals(A, m) /\ Equals(A, m) < ArgEnd(A, m)
             /\ ArgEnd(A, Len(A)) = Len(b) + 1
  BY BufferNumbers
<1>4. ASSUME k # 0, j < ArgEnd(A, k) PROVE b[j] # "="
  <2>1. k \in 1 .. Len(A)
    BY <1>1, <1>4
  <2>2. j > Equals(A, k)
    BY <1>4 DEF Between
  <2>3. j \in Equals(A, k) + 1 .. ArgEnd(A, k) - 1
    BY <1>1, <1>3, <1>4, <2>1, <2>2
  <2> QED BY <1>2, <2>1, <2>3 DEF InBuffer
<1>5. CASE k = Len(A)
  <2>1. k \in 1 .. Len(A) /\ k # 0
    BY <1>1, <1>5
  <2>2. j < ArgEnd(A, k)
    BY <1>1, <1>3, <1>5, <2>1
  <2> QED BY <1>1, <1>4, <1>5, <2>1, <2>2
<1>6. CASE k # Len(A)
  <2> DEFINE m == k + 1
  <2>1. m \in 1 .. Len(A) /\ k < Len(A) /\ m - 1 = k
    BY <1>1, <1>6
  <2>2. j <= Equals(A, m)
    BY <2>1 DEF Between
  <2> HIDE DEF m
  <2>3. InBuffer(b, A, m)
    BY <1>2, <2>1
  <2>4. j = Equals(A, m) => b[j] = "="
    BY <2>3 DEF InBuffer
  <2>5. /\ ArgEnd(A, k) \in Nat /\ Equals(A, m) \in Nat /\ ArgEnd(A, k) < Equals(A, m)
    BY <1>3, <2>1
  <2>6. ASSUME j # Equals(A, m) PROVE b[j] # "="
    <3>1. CASE j > ArgEnd(A, k)
      <4>1. j \in ArgEnd(A, m - 1) + 1 .. Equals(A, m) - 1
        BY <1>1, <2>1, <2>2, <2>5, <2>6, <3>1
      <4> QED BY <2>3, <4>1 DEF InBuffer
    <3>2. CASE j = ArgEnd(A, k)
      <4>1. k # 0
        <5>1. ArgEnd(A, 0) = 0
          BY ArgEnds
        <5> QED BY <1>1, <3>2, <5>1
      <4>2. m # 1
        BY <1>1, <2>1, <4>1
      <4>3. b[ArgEnd(A, m - 1)] = "&"
        BY <2>3, <4>2 DEF InBuffer
      <4> QED BY <2>1, <3>2, <4>3
    <3>3. CASE j < ArgEnd(A, k)
      <4>1. k # 0
        <5>1. ArgEnd(A, 0) = 0
          BY ArgEnds
        <5> QED BY <1>1, <3>3, <5>1
      <4> QED BY <1>4, <3>3, <4>1
    <3> QED BY <1>1, <2>5, <3>1, <3>2, <3>3
  <2> QED BY <2>1, <2>4, <2>6 DEF m
<1> QED BY <1>5, <1>6

-----------------------------------------------------------------------------
(* The loop over the arguments, turn by turn.                              *)

(* What stands between an "=" and the next "&", as InsertArgument reads it. *)
LEMMA ValueRead ==
  ASSUME NEW A \in Seq(Arguments), PlainArguments(A),
         NEW b, IsQuery(b, A), NEW m \in 1 .. Len(A), NEW j, j = Equals(A, m)
  PROVE  LET rest == From(b, j + 1)
             n == Position(rest, "&")
             value == IF n = 0 THEN rest ELSE SubSeq(rest, 1, n - 1)
         IN /\ value = A[m][2]
            /\ m < Len(A) => n # 0 /\ j + n = ArgEnd(A, m)
<1> DEFINE rest == From(b, j + 1)
           n == Position(rest, "&")
           v == A[m][2]
           end == ArgEnd(A, m)
           lb == Len(b)
<1>1. b \in Seq(Tokens)
  BY DEF IsQuery
<1>2. InBuffer(b, A, m)
  BY BufferHolds DEF PlainArguments
<1>3. j \in Nat /\ end \in Nat /\ j < end /\ end <= lb + 1 /\ lb \in Nat
      /\ m \in Nat /\ Len(A) \in Nat /\ m <= Len(A) /\ m >= 1
  <2>1. Equals(A, m) \in Nat /\ ArgEnd(A, m) \in Nat /\ Equals(A, m) < ArgEnd(A, m)
        /\ ArgEnd(A, m) <= Len(b) + 1 /\ Len(b) \in Nat
    BY BufferNumbers
  <2> QED BY <2>1
<1>4. ArgEnd(A, Len(A)) = lb + 1
  BY BufferNumbers
<1>5. \A x \in j + 1 .. end - 1 : b[x] # "&"
  BY <1>2 DEF InBuffer
<1>6. SubSeq(b, j + 1, end - 1) = v
  BY <1>2 DEF InBuffer
<1>7. j + 1 \in 1 .. Len(b) + 1
  BY <1>3
<1>8. /\ rest \in Seq(Tokens) /\ Len(rest) = lb - j
      /\ \A x \in 1 .. lb - j : rest[x] = b[j + x]
  <2> DEFINE p == j + 1
  <2>1. p \in 1 .. Len(b) + 1
    BY <1>7
  <2> HIDE DEF p
  <2>2. /\ From(b, p) \in Seq(Tokens) /\ Len(From(b, p)) = Len(b) + 1 - p
        /\ \A x \in 1 .. Len(b) + 1 - p : From(b, p)[x] = b[p + x - 1]
    BY <1>1, <2>1, FromElements
  <2>3. ASSUME NEW x \in 1 .. lb - j PROVE From(b, p)[x] = b[j + x]
    <3>1. x \in 1 .. Len(b) + 1 - p /\ p + x - 1 = j + x
      BY <1>3 DEF p
    <3> QED BY <2>2, <3>1
  <2>4. Len(b) + 1 - p = lb - j
    BY <1>3 DEF p
  <2> QED BY <2>2, <2>3, <2>4 DEF p
<1>9. \A q \in 0 .. lb - j : SubSeq(rest, 1, q) = SubSeq(b, j + 1, j + q)
  <2> SUFFICES ASSUME NEW q \in 0 .. lb - j
               PROVE  SubSeq(rest, 1, q) = SubSeq(b, j + 1, j + q)
    OBVIOUS
  <2> DEFINE p == j + 1
  <2>1. p \in 1 .. Len(b) + 1 /\ q \in 0 .. Len(b) + 1 - p /\ p + q - 1 = j + q
    <3>1. j \in Nat /\ j <= lb /\ lb \in Nat /\ q \in 0 .. lb - j
      BY <1>3
    <3> HIDE DEF lb
    <3>2. p \in 1 .. lb + 1 /\ q \in 0 .. lb + 1 - p /\ p + q - 1 = j + q
      BY ONLY <3>1 DEF p
    <3> QED BY <3>2 DEF lb
  <2> HIDE DEF p
  <2>2. SubSeq(From(b, p), 1, q) = SubSeq(b, p, p + q - 1)
    BY ONLY <1>1, <2>1, SubSeqOfFrom
  <2> QED BY <2>1, <2>2 DEF p
<1> HIDE DEF rest, n, v, end, lb
<1>10. CASE m < Len(A)
  <2> DEFINE d == end - j
  <2>1. d \in 1 .. lb - j /\ d \in 1 .. Len(rest) /\ d - 1 \in 0 .. lb - j
        /\ j + d = end /\ j + (d - 1) = end - 1 /\ d # 0
    <3>1. end <= lb
      <4> DEFINE k == m + 1
      <4>1. k \in 1 .. Len(A) /\ k - 1 = m
        BY <1>3, <1>10
      <4> HIDE DEF k
      <4>2. /\ ArgEnd(A, k - 1) \in Nat /\ Equals(A, k) \in Nat /\ ArgEnd(A, k) \in Nat
            /\ ArgEnd(A, k - 1) < Equals(A, k) /\ Equals(A, k) < ArgEnd(A, k)
            /\ ArgEnd(A, k) <= Len(b) + 1 /\ Len(b) \in Nat
        BY <4>1, BufferNumbers
      <4>3. ArgEnd(A, k - 1) <= Len(b)
        BY <4>2
      <4> QED BY <4>1, <4>3 DEF end, lb
    <3>2. Len(rest) = lb - j
      BY <1>8
    <3> QED BY <1>3, <3>1, <3>2
  <2> HIDE DEF d
  <2>2. b[end] = "&"
    <3> DEFINE k == m + 1
    <3>1. k \in 1 .. Len(A) /\ k - 1 = m /\ k # 1
      BY <1>3, <1>10
    <3> HIDE DEF k
    <3>2. InBuffer(b, A, k)
      BY <3>1, BufferHolds DEF PlainArguments
    <3>3. b[ArgEnd(A, k - 1)] = "&"
      BY <3>1, <3>2 DEF InBuffer
    <3> QED BY <3>1, <3>3 DEF end
  <2>3. rest[d] = "&"
    BY <1>8, <2>1, <2>2
  <2>4. ASSUME NEW x \in 1 .. d - 1 PROVE rest[x] # "&"
    <3> DEFINE y == j + x
    <3>1. x \in 1 .. lb - j /\ y \in j + 1 .. end - 1
      <4>1. /\ j \in Nat /\ lb \in Nat /\ d \in 1 .. lb - j /\ j + d = end
            /\ x \in 1 .. d - 1
        BY <1>3, <2>1
      <4> QED BY ONLY <4>1 DEF y
    <3>2. rest[x] = b[y]
      BY <1>8, <3>1
    <3> HIDE DEF y
    <3> QED BY <1>5, <3>1, <3>2
  <2>5. rest \in Seq(Tokens)
    BY <1>8
  <2>6. n = d
    BY <2>1, <2>3, <2>4, <2>5, PositionFound DEF n
  <2>7. SubSeq(rest, 1, d - 1) = v
    <3> DEFINE q == d - 1
    <3>1. q \in 0 .. lb - j /\ j + q = end - 1
      BY <2>1
    <3> HIDE DEF q
    <3>2. SubSeq(rest, 1, q) = SubSeq(b, j + 1, j + q)
      BY <1>9, <3>1
    <3> QED BY <1>6, <3>1, <3>2 DEF q
  <2>8. n # 0 /\ j + n = end /\ SubSeq(rest, 1, n - 1) = v
    BY <2>1, <2>6, <2>7
  <2> QED BY <2>8 DEF rest, n, v, end
<1>11. CASE m = Len(A)
  <2>1. end = lb + 1
    BY <1>4, <1>11 DEF end
  <2>2. Len(rest) = lb - j /\ rest \in Seq(Tokens)
    BY <1>8
  <2>3. ASSUME NEW x \in 1 .. Len(rest) PROVE rest[x] # "&"
    <3> DEFINE y == j + x
    <3>1. x \in 1 .. lb - j /\ y \in j + 1 .. end - 1
      BY <1>3, <2>1, <2>2
    <3>2. rest[x] = b[y]
      BY <1>8, <3>1
    <3> HIDE DEF y
    <3> QED BY <1>5, <3>1, <3>2
  <2>4. n = 0
    BY <2>2, <2>3, PositionNone DEF n
  <2>5. rest = SubSeq(b, j + 1, Len(b))
    BY DEF rest, From
  <2>6. end - 1 = Len(b)
    <3>1. lb + 1 - 1 = lb
      BY <1>3
    <3> QED BY <2>1, <3>1 DEF lb
  <2>7. rest = v
    BY <1>6, <2>5, <2>6
  <2>8. n = 0 /\ rest = v /\ ~(m < Len(A))
    BY <1>3, <1>11, <2>4, <2>7
  <2> QED BY <2>8 DEF rest, n, v, end
<1>12. m < Len(A) \/ m = Len(A)
  BY <1>3
<1> QED BY <1>10, <1>11, <1>12

(* The loop over the arguments has read the first k. *)
ArgumentsRead(k) ==
  /\ mHttpURLArguments = FirstValues(SubSeq(request.arguments, 1, k))
  /\ Between(request.arguments, k, i)
  /\ k < Len(request.arguments) =>
       argumentStartOffset = ArgEnd(request.arguments, k) + 1

LEMMA BetweenNext ==
  ASSUME NEW A \in Seq(Arguments), NEW b, IsQuery(b, A), NEW k \in 0 .. Len(A),
         NEW j \in Nat, Between(A, k, j)
  PROVE  /\ ~(k < Len(A) /\ j = Equals(A, k + 1)) => Between(A, k, j + 1)
         /\ k < Len(A) /\ j = Equals(A, k + 1) => Between(A, k + 1, j + 1)
<1>1. Len(A) \in Nat /\ k \in Nat
  OBVIOUS
<1>2. \A m \in 1 .. Len(A) : Equals(A, m) \in Nat
  BY BufferNumbers
<1>3. ASSUME ~(k < Len(A) /\ j = Equals(A, k + 1)) PROVE Between(A, k, j + 1)
  <2>1. ASSUME k # 0 PROVE j + 1 > Equals(A, k)
    <3>1. k \in 1 .. Len(A)
      BY <1>1, <2>1
    <3>2. j > Equals(A, k) /\ Equals(A, k) \in Nat
      BY <1>2, <2>1, <3>1 DEF Between
    <3> QED BY <3>2
  <2>2. ASSUME k < Len(A) PROVE j + 1 <= Equals(A, k + 1)
    <3> DEFINE e == Equals(A, k + 1)
    <3>1. k + 1 \in 1 .. Len(A)
      BY <1>1, <2>2
    <3>2. e \in Nat /\ j <= e /\ j # e
      BY <1>2, <1>3, <2>2, <3>1 DEF Between
    <3> HIDE DEF e
    <3>3. j + 1 <= e
      BY <3>2
    <3> QED BY <3>3 DEF e
  <2> QED BY <2>1, <2>2 DEF Between
<1>4. ASSUME k < Len(A), j = Equals(A, k + 1) PROVE Between(A, k + 1, j + 1)
  <2>1. j + 1 > Equals(A, k + 1)
    BY <1>4
  <2>2. ASSUME k + 1 < Len(A) PROVE j + 1 <= Equals(A, k + 1 + 1)
    <3> DEFINE m == k + 1
               x == m + 1
    <3>1. m \in 1 .. Len(A) /\ x \in 1 .. Len(A) /\ x - 1 = m
      BY <1>1, <2>2
    <3> HIDE DEF m, x
    <3>2. Equals(A, m) < ArgEnd(A, m) /\ Equals(A, m) \in Nat /\ ArgEnd(A, m) \in Nat
      BY <3>1, BufferNumbers
    <3>3. ArgEnd(A, x - 1) < Equals(A, x) /\ Equals(A, x) \in Nat
      BY <3>1, BufferNumbers
    <3>4. Equals(A, m) + 1 <= Equals(A, x)
      BY <3>1, <3>2, <3>3
    <3> QED BY <1>4, <3>4 DEF m, x
  <2> QED BY <2>1, <2>2 DEF Between
<1> QED BY <1>3, <1>4

(* An "=" ends the name of argument k + 1. *)
LEMMA ArgumentInserted ==
  ASSUME request \in Requests, InsertArgument,
         PlainArguments(request.arguments), IsQuery(secondBuffer, request.arguments),
         NEW k \in 0 .. Len(request.arguments), k < Len(request.arguments),
         ArgumentsRead(k), i = Equals(request.arguments, k + 1)
  PROVE  /\ mHttpURLArguments' = FirstValues(SubSeq(request.arguments, 1, k + 1))
         /\ k + 1 < Len(request.arguments) =>
              argumentStartOffset' = ArgEnd(request.arguments, k + 1) + 1
<1> DEFINE A == request.arguments
           b == secondBuffer
           m == k + 1
           rest == From(b, i + 1)
           n == Position(rest, "&")
           name == SubSeq(b, argumentStartOffset,
                     IF argumentStartOffset <= i THEN i - 1 ELSE Len(b))
           value == IF n = 0 THEN rest ELSE SubSeq(rest, 1, n - 1)
<1>1. A \in Seq(Arguments)
  BY RequestProperties
<1>2. /\ mHttpURLArguments' = Insert(mHttpURLArguments, name, value)
      /\ argumentStartOffset' =
           IF n = 0 THEN argumentStartOffset ELSE ArgumentAfter(i + n)
  BY DEF InsertArgument
<1>3. /\ mHttpURLArguments = FirstValues(SubSeq(A, 1, k))
      /\ argumentStartOffset = ArgEnd(A, k) + 1
  BY DEF ArgumentsRead
<1>4. PlainArguments(A) /\ IsQuery(b, A) /\ i = Equals(A, m)
  OBVIOUS
<1>5. k \in 0 .. Len(A) /\ k < Len(A)
  OBVIOUS
<1> HIDE DEF A, b
<1>6. m \in 1 .. Len(A) /\ m - 1 = k /\ Len(A) \in Nat /\ k \in Nat
  BY <1>1, <1>5
<1>7. value = A[m][2] /\ (m < Len(A) => n # 0 /\ i + n = ArgEnd(A, m))
  <2> HIDE DEF m
  <2>1. LET rest1 == From(b, i + 1)
            n1 == Position(rest1, "&")
            value1 == IF n1 = 0 THEN rest1 ELSE SubSeq(rest1, 1, n1 - 1)
        IN /\ value1 = A[m][2]
           /\ m < Len(A) => n1 # 0 /\ i + n1 = ArgEnd(A, m)
    BY <1>1, <1>4, <1>6, ValueRead
  <2> QED BY <2>1
<1>8. name = A[m][1]
  <2> HIDE DEF m
  <2>1. InBuffer(b, A, m)
    BY <1>1, <1>4, <1>6, BufferHolds DEF PlainArguments
  <2>2. SubSeq(b, ArgEnd(A, m - 1) + 1, Equals(A, m) - 1) = A[m][1]
    BY <2>1 DEF InBuffer
  <2>3. argumentStartOffset = ArgEnd(A, m - 1) + 1
    BY <1>3, <1>6
  <2>4. ArgEnd(A, m - 1) \in Nat /\ Equals(A, m) \in Nat /\ ArgEnd(A, m - 1) < Equals(A, m)
    BY <1>1, <1>4, <1>6, BufferNumbers
  <2>5. argumentStartOffset <= i
    BY <1>4, <2>3, <2>4
  <2>6. name = SubSeq(b, argumentStartOffset, i - 1)
    BY <2>5
  <2> HIDE DEF name
  <2> QED BY <1>4, <2>2, <2>3, <2>6
<1> HIDE DEF name, value, n, rest
<1>9. FirstValues(SubSeq(A, 1, m)) = Insert(FirstValues(SubSeq(A, 1, k)), A[m][1], A[m][2])
  BY <1>1, <1>5, PrefixInsert
<1>10. mHttpURLArguments' = FirstValues(SubSeq(A, 1, m))
  <2> HIDE DEF m
  <2> QED BY <1>2, <1>3, <1>7, <1>8, <1>9
<1>11. m < Len(A) => argumentStartOffset' = ArgEnd(A, m) + 1
  <2> HIDE DEF m
  <2> QED BY <1>2, <1>7 DEF ArgumentAfter
<1> QED BY <1>10, <1>11 DEF A

LEMMA ArgumentTurn ==
  ASSUME request \in Requests, PInv, ReadArguments, i <= Len(secondBuffer),
         Len(request.arguments) # 0,
         PlainArguments(request.arguments), IsQuery(secondBuffer, request.arguments),
         NEW k \in 0 .. Len(request.arguments), ArgumentsRead(k)
  PROVE  \E m \in 0 .. Len(request.arguments) : ArgumentsRead(m)'
<1> DEFINE A == request.arguments
           b == secondBuffer
<1>1. A \in Seq(Arguments)
  BY RequestProperties
<1>2. request' = request
  BY DEF ReadArguments
<1>3. i \in 1 .. Len(b) /\ i \in Nat
  <2>1. i \in 1 .. Len(secondBuffer) + 1 /\ Len(secondBuffer) \in Nat
    BY DEF PInv, ReadArguments
  <2> QED BY <2>1
<1>4. i' = i + 1
  BY <1>3 DEF ReadArguments
<1>5. \/ b[i] = "=" /\ InsertArgument
      \/ b[i] # "=" /\ UNCHANGED <<argumentStartOffset, mHttpURLArguments>>
  BY <1>3 DEF ReadArguments
<1>6. Len(A) # 0 /\ PlainArguments(A) /\ IsQuery(b, A) /\ k \in 0 .. Len(A)
      /\ Between(A, k, i)
  BY DEF ArgumentsRead
<1> HIDE DEF A, b
<1>7. /\ b[i] = "=" => k < Len(A) /\ i = Equals(A, k + 1)
      /\ k < Len(A) /\ i = Equals(A, k + 1) => b[i] = "="
  BY <1>1, <1>3, <1>6, EqualsFound
<1>8. /\ ~(k < Len(A) /\ i = Equals(A, k + 1)) => Between(A, k, i + 1)
      /\ k < Len(A) /\ i = Equals(A, k + 1) => Between(A, k + 1, i + 1)
  BY <1>1, <1>3, <1>6, BetweenNext
<1>9. CASE b[i] = "="
  <2>1. k < Len(A) /\ i = Equals(A, k + 1) /\ InsertArgument
    BY <1>5, <1>7, <1>9
  <2>2. /\ mHttpURLArguments' = FirstValues(SubSeq(A, 1, k + 1))
        /\ k + 1 < Len(A) => argumentStartOffset' = ArgEnd(A, k + 1) + 1
    BY <2>1, ArgumentInserted DEF A, b
  <2>3. Between(A, k + 1, i')
    BY <1>4, <1>8, <2>1
  <2>4. k + 1 \in 0 .. Len(A)
    BY <1>1, <1>6, <2>1
  <2>5. ArgumentsRead(k + 1)'
    BY <1>2, <2>2, <2>3 DEF ArgumentsRead, A
  <2> QED BY <2>4, <2>5 DEF A
<1>10. CASE b[i] # "="
  <2>1. Between(A, k, i')
    BY <1>4, <1>7, <1>8, <1>10
  <2>2. UNCHANGED <<argumentStartOffset, mHttpURLArguments>>
    BY <1>5, <1>10
  <2>3. ArgumentsRead(k)'
    BY <1>2, <2>1, <2>2 DEF ArgumentsRead, A
  <2> QED BY <2>3
<1> QED BY <1>9, <1>10

(* The loop ends with all the arguments read. *)
LEMMA ArgumentsEnd ==
  ASSUME request \in Requests, PInv, at = "arguments", i > Len(secondBuffer),
         IsQuery(secondBuffer, request.arguments),
         NEW k \in 0 .. Len(request.arguments), ArgumentsRead(k)
  PROVE  mHttpURLArguments = FirstValues(request.arguments)
<1> DEFINE A == request.arguments
           b == secondBuffer
<1>1. A \in Seq(Arguments)
  BY RequestProperties
<1>2. i \in Nat /\ i > Len(b)
  <2>1. i \in 1 .. Len(secondBuffer) + 1 /\ Len(secondBuffer) \in Nat
    BY DEF PInv
  <2> QED BY <2>1
<1>3. IsQuery(b, A) /\ k \in 0 .. Len(A) /\ Between(A, k, i)
      /\ mHttpURLArguments = FirstValues(SubSeq(A, 1, k))
  BY DEF ArgumentsRead
<1> HIDE DEF A, b
<1>4. k = Len(A)
  <2> SUFFICES ASSUME k < Len(A) PROVE FALSE
    BY <1>1, <1>3
  <2> DEFINE m == k + 1
  <2>1. m \in 1 .. Len(A)
    BY <1>1, <1>3
  <2>2. i <= Equals(A, m)
    BY <1>3 DEF Between
  <2> HIDE DEF m
  <2>3. /\ Equals(A, m) \in Nat /\ ArgEnd(A, m) \in Nat
        /\ Equals(A, m) < ArgEnd(A, m) /\ ArgEnd(A, m) <= Len(b) + 1 /\ Len(b) \in Nat
    BY <1>1, <1>3, <2>1, BufferNumbers
  <2> QED BY <1>2, <2>2, <2>3
<1>5. SubSeq(A, 1, Len(A)) = A
  BY <1>1, SubSeqFull
<1> QED BY <1>3, <1>4, <1>5 DEF A

-----------------------------------------------------------------------------
(* Where the path, its last segment and the query of a target are.         *)

LEMMA ArgumentEndsLater ==
  ASSUME NEW A \in Seq(Arguments), NEW m \in 1 .. Len(A)
  PROVE  ArgEnd(A, m) # 0
<1> DEFINE start == ArgEnd(A, m - 1)
           ln == Len(A[m][1])
           lv == Len(A[m][2])
           eq == Equals(A, m)
           end == ArgEnd(A, m)
<1>1. /\ start \in Nat /\ ln \in Nat /\ lv \in Nat /\ eq = start + ln + 1
      /\ end = eq + lv + 1
  BY ArgumentPlace
<1> HIDE DEF start, ln, lv, eq, end
<1>2. end # 0
  BY <1>1
<1> QED BY <1>2 DEF end

(* A query of plain names and values has one "?", its first token, and no  *)
(* "/".                                                                    *)
LEMMA QueryTokens ==
  ASSUME NEW A \in Seq(Arguments), PlainArguments(A), NEW j \in 1 .. Len(Query(A))
  PROVE  Query(A)[j] # "/" /\ (Query(A)[j] = "?" <=> j = 1)
<1> DEFINE Q == Query(A)
           lq == Len(Q)
           la == Len(A)
           I == {k \in 0 .. la : ArgEnd(A, k) >= j}
<1>1. /\ la \in Nat /\ ArgEnd(A, 0) = 0 /\ ArgEnd(A, la) = lq
      /\ \A k \in 0 .. la : ArgEnd(A, k) \in Nat
  BY ArgEnds
<1>2. j \in Nat /\ j >= 1 /\ lq >= j /\ lq \in Nat
  <2>1. lq \in Nat
    BY <1>1
  <2> QED BY <2>1
<1>3. I \subseteq Nat /\ I # {}
  <2>1. la \in I
    <3> HIDE DEF lq, la
    <3> QED BY <1>1, <1>2
  <2> HIDE DEF la
  <2> QED BY <1>1, <2>1
<1>4. PICK k \in I : \A x \in I : k <= x
  <2> HIDE DEF I
  <2> QED BY <1>3, LeastIndex
<1>5. k \in 1 .. la /\ ArgEnd(A, k - 1) < j /\ j <= ArgEnd(A, k)
  <2> HIDE DEF la, lq
  <2>1. k \in 0 .. la /\ ArgEnd(A, k) >= j
    BY <1>4
  <2>2. k # 0
    BY <1>1, <1>2, <2>1
  <2> DEFINE m == k - 1
  <2>3. m \in 0 .. la /\ m < k
    BY <1>1, <2>1, <2>2
  <2> HIDE DEF m
  <2>4. ArgEnd(A, m) \in Nat
    BY <1>1, <2>3
  <2>5. ~(k <= m)
    BY <1>1, <2>1, <2>3
  <2>6. ~(ArgEnd(A, m) >= j)
    BY <1>4, <2>3, <2>5
  <2>7. ArgEnd(A, m) < j
    BY <1>2, <2>4, <2>6
  <2>8. ArgEnd(A, k) \in Nat
    BY <1>1, <2>1
  <2> QED BY <1>1, <1>2, <2>1, <2>2, <2>7, <2>8 DEF m
<1> DEFINE a == A[k][1]
           v == A[k][2]
           start == ArgEnd(A, k - 1)
           eq == Equals(A, k)
           ln == Len(a)
           lv == Len(v)
<1> HIDE DEF I
<1>6. k \in 1 .. Len(A)
  BY <1>5
<1>7. /\ start \in Nat /\ ln \in Nat /\ lv \in Nat /\ eq = start + ln + 1
      /\ ArgEnd(A, k) = eq + lv + 1
  BY <1>6, ArgumentPlace
<1>8. a \in Seq(Tokens) /\ v \in Seq(Tokens)
  BY <1>6, ArgumentPlace
<1>9. Q[start + 1] = IF k = 1 THEN "?" ELSE "&"
  BY <1>6, ArgumentPlace
<1>10. \A x \in 1 .. ln : Q[start + 1 + x] = a[x]
  BY <1>6, ArgumentPlace
<1>11. Q[eq + 1] = "="
  BY <1>6, ArgumentPlace
<1>12. \A x \in 1 .. lv : Q[eq + 1 + x] = v[x]
  BY <1>6, ArgumentPlace
<1>13. /\ \A x \in 1 .. ln : a[x] \notin {"=", "&", "/", "?"}
       /\ \A x \in 1 .. lv : v[x] \notin {"=", "&", "/", "?"}
  <2>1. DOMAIN a = 1 .. ln /\ DOMAIN v = 1 .. lv
    BY <1>8
  <2>2. PlainTokens(a) /\ PlainTokens(v)
    BY <1>6 DEF PlainArguments
  <2> HIDE DEF a, v
  <2>3. /\ \A x \in DOMAIN a : a[x] \notin {"=", "&", "/", "?"}
        /\ \A x \in DOMAIN v : v[x] \notin {"=", "&", "/", "?"}
    BY <2>2 DEF PlainTokens, Range
  <2> QED BY <2>1, <2>3
<1>14. k = 1 => start = 0
  <2>1. k = 1 => k - 1 = 0
    OBVIOUS
  <2> QED BY <1>1, <2>1
<1>15. start = 0 => k = 1
  <2> SUFFICES ASSUME k # 1 PROVE start # 0
    OBVIOUS
  <2> DEFINE m == k - 1
  <2>1. m \in 1 .. Len(A)
    BY <1>6
  <2> HIDE DEF m
  <2>2. ArgEnd(A, m) # 0
    BY <2>1, ArgumentEndsLater
  <2> QED BY <2>2 DEF m
<1> HIDE DEF Q, lq, la, a, v, start, eq, ln, lv
<1>16. start < j /\ j <= eq + lv + 1
  BY <1>5, <1>7 DEF start
<1>17. CASE j = start + 1
  <2>1. k = 1 <=> j = 1
    BY <1>7, <1>14, <1>15, <1>17
  <2> QED BY <1>9, <1>17, <2>1 DEF Q
<1>18. CASE j > start + 1 /\ j < eq + 1
  <2> DEFINE x == j - start - 1
  <2>1. x \in 1 .. ln /\ start + 1 + x = j /\ j # 1
    BY <1>2, <1>7, <1>18
  <2> HIDE DEF x
  <2>2. Q[j] = a[x]
    BY <1>10, <2>1
  <2> QED BY <1>13, <2>1, <2>2 DEF Q
<1>19. CASE j = eq + 1
  <2>1. j # 1
    BY <1>7, <1>19
  <2> QED BY <1>11, <1>19, <2>1 DEF Q
<1>20. CASE j > eq + 1
  <2> DEFINE x == j - eq - 1
  <2>1. x \in 1 .. lv /\ eq + 1 + x = j /\ j # 1
    BY <1>2, <1>7, <1>16, <1>20
  <2> HIDE DEF x
  <2>2. Q[j] = v[x]
    BY <1>12, <2>1
  <2> QED BY <1>13, <2>1, <2>2 DEF Q
<1> QED BY <1>2, <1>7, <1>16, <1>17, <1>18, <1>19, <1>20

LEMMA QueryEmpty ==
  ASSUME NEW A \in Seq(Arguments)
  PROVE  Len(Query(A)) \in Nat /\ (Len(Query(A)) = 0 <=> Len(A) = 0)
<1> DEFINE la == Len(A)
           lq == Len(Query(A))
<1>1. la \in Nat /\ ArgEnd(A, 0) = 0 /\ lq = ArgEnd(A, la) /\ ArgEnd(A, la) \in Nat
  BY ArgEnds
<1>2. ASSUME la # 0 PROVE lq # 0
  <2>1. la \in 1 .. Len(A)
    BY <1>1, <1>2
  <2> HIDE DEF la
  <2>2. ArgEnd(A, la) # 0
    BY <2>1, ArgumentEndsLater
  <2> QED BY <1>1, <2>2
<1> HIDE DEF la, lq
<1>3. la = 0 => lq = 0
  BY <1>1
<1> QED BY <1>1, <1>2, <1>3 DEF la, lq

LEMMA TargetLayout ==
  ASSUME request \in Requests
  PROVE  LET name == request.name
             query == Query(request.arguments)
         IN /\ Target \in Seq(Tokens) /\ Len(Target) = Len(name) + Len(query) + 1
            /\ Len(name) \in Nat /\ Len(query) \in Nat
            /\ name \in Seq(Tokens) /\ query \in Seq(Tokens)
            /\ Target[1] = "/"
            /\ \A j \in 1 .. Len(name) : Target[j + 1] = name[j]
            /\ \A j \in 1 .. Len(query) : Target[Len(name) + 1 + j] = query[j]
<1> DEFINE slash == <<"/">>
           name == request.name
           query == Query(request.arguments)
           path == slash \o name
           lm == Len(name)
           lq == Len(query)
<1>1. slash \in Seq(Tokens) /\ Len(slash) = 1 /\ slash[1] = "/"
  BY DEF Tokens
<1>2. name \in Seq(Tokens) /\ query \in Seq(Tokens)
  <2>1. name \in Seq(NonBlank) /\ query \in Seq(NonBlank)
    BY RequestProperties, QueryLayout
  <2>2. NonBlank \subseteq Tokens
    BY DEF NonBlank
  <2> HIDE DEF name, query
  <2> QED BY <2>1, <2>2, SeqMonotonic
<1>3. Target = path \o query
  BY DEF Target
<1> HIDE DEF slash, name, query
<1>4. /\ path \in Seq(Tokens) /\ Len(path) = Len(slash) + lm /\ lm \in Nat
      /\ \A j \in 1 .. Len(slash) : path[j] = slash[j]
      /\ \A j \in 1 .. lm : path[Len(slash) + j] = name[j]
  BY <1>1, <1>2, ConcatElements
<1> HIDE DEF path
<1>5. /\ Target \in Seq(Tokens) /\ Len(Target) = Len(path) + lq /\ lq \in Nat
      /\ \A j \in 1 .. Len(path) : Target[j] = path[j]
      /\ \A j \in 1 .. lq : Target[Len(path) + j] = query[j]
  <2> DEFINE whole == path \o query
  <2>1. path \in Seq(Tokens) /\ query \in Seq(Tokens)
    BY <1>2, <1>4
  <2>2. /\ whole \in Seq(Tokens) /\ Len(whole) = Len(path) + Len(query)
        /\ Len(query) \in Nat
        /\ \A j \in 1 .. Len(path) : whole[j] = path[j]
        /\ \A j \in 1 .. Len(query) : whole[Len(path) + j] = query[j]
    BY ONLY <2>1, ConcatElements
  <2> QED BY <1>3, <2>2
<1> HIDE DEF lm, lq
<1>6. Len(path) = lm + 1
  BY <1>1, <1>4
<1>7. Len(Target) = lm + lq + 1
  <2>1. Len(Target) = Len(path) + lq /\ lm \in Nat /\ lq \in Nat
    BY <1>4, <1>5
  <2> QED BY <1>6, <2>1
<1>8. Target[1] = "/"
  <2>1. 1 \in 1 .. Len(slash) /\ 1 \in 1 .. Len(path)
    BY <1>1, <1>4, <1>6
  <2> QED BY <1>1, <1>4, <1>5, <2>1
<1>9. ASSUME NEW j \in 1 .. lm PROVE Target[j + 1] = name[j]
  <2> DEFINE x == j + 1
  <2>1. x \in 1 .. Len(path) /\ Len(slash) + j = x
    BY <1>1, <1>4, <1>6
  <2> HIDE DEF x
  <2>2. Target[x] = path[x] /\ path[x] = name[j]
    BY <1>4, <1>5, <2>1
  <2> QED BY <2>2 DEF x
<1>10. \A j \in 1 .. lq : Target[lm + 1 + j] = query[j]
  BY <1>5, <1>6
<1> QED BY <1>2, <1>4, <1>5, <1>7, <1>8, <1>9, <1>10 DEF name, query, lm, lq

(* What is left of a name when its last segment is cut off. *)
LastSegment(name, d) ==
  \E dir \in {SubSeq(name, 1, n) : n \in 0 .. Len(name)} :
    /\ name = dir \o d
    /\ dir = <<>> \/ Last(dir) = "/"
    /\ "/" \notin Range(d)

LEMMA SegmentFound ==
  ASSUME NEW name \in Seq(Tokens), NEW p \in 1 .. Len(name) + 1,
         p # 1 => name[p - 1] = "/",
         NEW d \in Seq(Tokens), Len(d) = Len(name) + 1 - p,
         \A j \in 1 .. Len(d) : d[j] = name[p + j - 1] /\ d[j] # "/"
  PROVE  LastSegment(name, d)
<1> DEFINE n == p - 1
           dir == SubSeq(name, 1, n)
           w == dir \o d
           lm == Len(name)
           ld == Len(d)
<1>1. lm \in Nat /\ ld \in Nat /\ n \in Nat /\ n <= lm /\ ld = lm - n /\ p = n + 1
  BY LenProperties
<1>2. n \in 0 .. lm
  BY <1>1
<1>3. \A j \in 1 .. ld : d[j] = name[n + j]
  <2> SUFFICES ASSUME NEW j \in 1 .. ld PROVE d[j] = name[n + j]
    OBVIOUS
  <2>1. p + j - 1 = n + j
    OBVIOUS
  <2>2. d[j] = name[p + j - 1]
    OBVIOUS
  <2> HIDE DEF n
  <2> QED BY <2>1, <2>2
<1>4. n # 0 => name[n] = "/"
  OBVIOUS
<1> HIDE DEF n, ld, lm
<1>5. dir \in Seq(Tokens) /\ Len(dir) = n /\ \A j \in 1 .. n : dir[j] = name[j]
  <2>1. \A j \in 1 .. n : name[j] \in Tokens
    BY <1>1 DEF lm
  <2> HIDE DEF dir
  <2>2. /\ dir \in Seq(Tokens) /\ Len(dir) = IF 1 <= n THEN n - 1 + 1 ELSE 0
        /\ \A j \in 1 .. n - 1 + 1 : dir[j] = name[1 + j - 1]
    BY <1>1, <2>1, SubSeqProperties DEF dir
  <2>3. Len(dir) = n
    BY <1>1, <2>2
  <2>4. ASSUME NEW j \in 1 .. n PROVE dir[j] = name[j]
    <3>1. j \in 1 .. n - 1 + 1 /\ 1 + j - 1 = j
      BY <1>1
    <3> QED BY <2>2, <3>1
  <2> QED BY <2>2, <2>3, <2>4
<1>6. dir \in {SubSeq(name, 1, x) : x \in 0 .. Len(name)}
  BY <1>2 DEF lm
<1> HIDE DEF dir
<1>7. /\ w \in Seq(Tokens) /\ Len(w) = n + ld
      /\ \A j \in 1 .. n : w[j] = dir[j]
      /\ \A j \in 1 .. ld : w[n + j] = d[j]
  <2>1. dir \in Seq(Tokens) /\ Len(dir) = n
    BY <1>5
  <2> HIDE DEF w
  <2>2. /\ w \in Seq(Tokens) /\ Len(w) = Len(dir) + Len(d)
        /\ \A j \in 1 .. Len(dir) : w[j] = dir[j]
        /\ \A j \in 1 .. Len(d) : w[Len(dir) + j] = d[j]
    <3>1. d \in Seq(Tokens) /\ dir \in Seq(Tokens)
      BY <2>1
    <3>2. w = dir \o d
      BY DEF w
    <3>3. /\ dir \o d \in Seq(Tokens) /\ Len(dir \o d) = Len(dir) + Len(d)
          /\ \A j \in 1 .. Len(dir) : (dir \o d)[j] = dir[j]
          /\ \A j \in 1 .. Len(d) : (dir \o d)[Len(dir) + j] = d[j]
      BY ONLY <3>1, ConcatElements
    <3> QED BY <3>2, <3>3
  <2> QED BY <2>1, <2>2 DEF ld
<1> HIDE DEF w
<1>8. Len(w) = Len(name)
  BY <1>1, <1>7 DEF lm
<1>9. ASSUME NEW j \in 1 .. Len(name) PROVE w[j] = name[j]
  <2>1. CASE j <= n
    <3>1. j \in 1 .. n
      BY <1>1, <2>1
    <3> QED BY <1>5, <1>7, <3>1
  <2>2. CASE j > n
    <3> DEFINE x == j - n
    <3>1. x \in 1 .. ld /\ n + x = j
      BY <1>1, <2>2 DEF lm
    <3> HIDE DEF x
    <3> QED BY <1>3, <1>7, <3>1
  <2> QED BY <1>1, <2>1, <2>2
<1>10. name = w
  BY <1>7, <1>8, <1>9, SeqEqual
<1>11. dir = <<>> \/ Last(dir) = "/"
  <2>1. CASE n = 0
    <3>1. dir = <<>>
      BY <1>5, <2>1, EmptySeq
    <3> QED BY <3>1
  <2>2. CASE n # 0
    <3>1. n \in 1 .. n
      BY <1>1, <2>2
    <3>2. Last(dir) = dir[n]
      BY <1>5 DEF Last
    <3> QED BY <1>4, <1>5, <2>2, <3>1, <3>2
  <2> QED BY <2>1, <2>2
<1>12. "/" \notin Range(d)
  <2>1. DOMAIN d = 1 .. Len(d)
    BY LenProperties
  <2> QED BY <2>1 DEF Range
<1> QED BY <1>6, <1>10, <1>11, <1>12 DEF LastSegment, w

(* What the loop over the arguments is given: without a query, the last    *)
(* segment of the path, in which it finds nothing.                         *)
BufferFor(b, A) ==
  IF Len(A) = 0 THEN \A j \in 1 .. Len(b) : b[j] # "=" ELSE IsQuery(b, A)

(* A target as ReadTarget takes it apart. *)
TargetParts ==
  LET name == From(Target, PathEnd(Target) + 1)
      mark == LastPosition(name, "?")
  IN /\ PathEnd(Target) # 0
     /\ LastSegment(request.name, IF mark = 0 THEN name ELSE SubSeq(name, 1, mark - 1))
     /\ BufferFor(From(name, mark + 1), request.arguments)

LEMMA PlainRequest ==
  ASSUME request \in Requests, Plain(request)
  PROVE  /\ PlainArguments(request.arguments)
         /\ \A j \in 1 .. Len(request.name) : request.name[j] \notin {"=", "?"}
<1> DEFINE A == request.arguments
           name == request.name
<1>1. A \in Seq(Arguments) /\ name \in Seq(NonBlank)
  BY RequestProperties
<1>2. /\ \A a \in Range(A) : PlainTokens(a[1]) /\ PlainTokens(a[2])
      /\ Range(name) \cap {"=", "?"} = {}
  BY DEF Plain
<1> HIDE DEF A, name
<1>3. DOMAIN A = 1 .. Len(A) /\ DOMAIN name = 1 .. Len(name)
  BY <1>1
<1>4. PlainArguments(A)
  <2> SUFFICES ASSUME NEW k \in 1 .. Len(A)
               PROVE  PlainTokens(A[k][1]) /\ PlainTokens(A[k][2])
    BY DEF PlainArguments
  <2>1. A[k] \in Range(A)
    BY <1>3 DEF Range
  <2> QED BY <1>2, <2>1
<1>5. \A j \in 1 .. Len(name) : name[j] \notin {"=", "?"}
  BY <1>2, <1>3 DEF Range
<1> QED BY <1>4, <1>5 DEF A, name

(* The last "/" of a target is in its path. *)
LEMMA PathEndFound ==
  ASSUME request \in Requests, Plain(request)
  PROVE  /\ PathEnd(Target) \in 1 .. Len(request.name) + 1
         /\ Target[PathEnd(Target)] = "/"
         /\ \A j \in PathEnd(Target) + 1 .. Len(Target) : Target[j] # "/"
<1> DEFINE T == Target
           Q == Query(request.arguments)
           lm == Len(request.name)
           lq == Len(Q)
           I == {j \in 1 .. lm + 1 : T[j] = "/"}
<1>1. T \in Seq(Tokens) /\ Len(T) = lm + lq + 1 /\ lm \in Nat /\ lq \in Nat
  BY TargetLayout
<1>2. T[1] = "/"
  BY TargetLayout
<1>3. \A j \in 1 .. lq : T[lm + 1 + j] = Q[j]
  BY TargetLayout
<1>4. request.arguments \in Seq(Arguments) /\ PlainArguments(request.arguments)
  BY RequestProperties, PlainRequest
<1>5. \A j \in 1 .. lq : Q[j] # "/"
  BY <1>4, QueryTokens
<1> HIDE DEF T, Q, lm, lq
<1>6. lm + 1 \in Nat /\ I \subseteq 1 .. lm + 1 /\ I # {}
  <2>1. 1 \in 1 .. lm + 1
    BY <1>1
  <2> QED BY <1>1, <1>2, <2>1
<1>7. PICK p \in I : \A y \in I : p >= y
  <2> DEFINE n == lm + 1
  <2>1. n \in Nat /\ I \subseteq 1 .. n /\ I # {}
    BY <1>6
  <2> HIDE DEF I, n
  <2> QED BY <2>1, GreatestIndex
<1>8. p \in 1 .. lm + 1 /\ T[p] = "/"
  BY <1>7
<1>9. p \in 1 .. Len(T)
  <2>1. Len(T) = lm + lq + 1 /\ lm \in Nat /\ lq \in Nat /\ p \in 1 .. lm + 1
    BY <1>1, <1>8
  <2> QED BY <2>1
<1>10. ASSUME NEW j \in p + 1 .. Len(T) PROVE T[j] # "/"
  <2>0. Len(T) = lm + lq + 1 /\ lm \in Nat /\ lq \in Nat /\ p \in 1 .. lm + 1
    BY <1>1, <1>8
  <2>1. CASE j <= lm + 1
    <3>1. j \in 1 .. lm + 1 /\ ~(p >= j)
      BY <2>0, <2>1
    <3> QED BY <1>7, <3>1
  <2>2. CASE j > lm + 1
    <3> DEFINE x == j - lm - 1
    <3>1. x \in 1 .. lq /\ lm + 1 + x = j
      BY <2>0, <2>2
    <3> HIDE DEF x
    <3> QED BY <1>3, <1>5, <3>1
  <2> QED BY <2>0, <2>1, <2>2
<1> HIDE DEF I
<1>11. LastPosition(T, "/") = p
  BY <1>1, <1>8, <1>9, <1>10, LastPositionFound
<1> QED BY <1>8, <1>10, <1>11 DEF PathEnd, T, lm

LEMMA TargetTaken ==
  ASSUME request \in Requests, Plain(request)
  PROVE  TargetParts
<1> DEFINE T == Target
           A == request.arguments
           Q == Query(A)
           path == request.name
           lt == Len(T)
           lm == Len(path)
           lq == Len(Q)
           p == PathEnd(T)
           start == p + 1
           name == From(T, start)
           mark == LastPosition(name, "?")
           dest == IF mark = 0 THEN name ELSE SubSeq(name, 1, mark - 1)
           buffer == From(name, mark + 1)
           ld == lm + 1 - p
<1>1. T \in Seq(Tokens) /\ lt = lm + lq + 1 /\ lm \in Nat /\ lq \in Nat
      /\ path \in Seq(Tokens)
  BY TargetLayout
<1>2. Q \in Seq(Tokens)
  BY TargetLayout
<1>3. \A j \in 1 .. lm : T[j + 1] = path[j]
  BY TargetLayout
<1>4. \A j \in 1 .. lq : T[lm + 1 + j] = Q[j]
  BY TargetLayout
<1>5. A \in Seq(Arguments) /\ PlainArguments(A)
  BY RequestProperties, PlainRequest
<1>6. \A j \in 1 .. lm : path[j] \notin {"=", "?"}
  BY PlainRequest
<1>7. \A j \in 1 .. lq : Q[j] # "/" /\ (Q[j] = "?" <=> j = 1)
  BY <1>5, QueryTokens
<1>8. lq = 0 <=> Len(A) = 0
  BY <1>5, QueryEmpty
<1>9. p \in 1 .. lm + 1 /\ T[p] = "/" /\ \A j \in p + 1 .. lt : T[j] # "/"
  BY PathEndFound
<1> HIDE DEF T, Q, A, path, lm, lq, p, lt
<1>10. /\ p \in Nat /\ p # 0 /\ ld \in Nat /\ start \in 1 .. lt + 1
       /\ lt + 1 - start = ld + lq
  BY <1>1, <1>9
<1>11. name \in Seq(Tokens) /\ Len(name) = ld + lq
       /\ \A j \in 1 .. ld + lq : name[j] = T[p + j]
  <2>1. start \in 1 .. Len(T) + 1
    BY <1>10 DEF lt
  <2> HIDE DEF start
  <2>2. /\ From(T, start) \in Seq(Tokens) /\ Len(From(T, start)) = Len(T) + 1 - start
        /\ \A j \in 1 .. Len(T) + 1 - start : From(T, start)[j] = T[start + j - 1]
    BY <1>1, <2>1, FromElements
  <2>3. Len(T) + 1 - start = ld + lq
    BY <1>10 DEF lt
  <2>4. ASSUME NEW j \in 1 .. ld + lq PROVE name[j] = T[p + j]
    <3>1. start + j - 1 = p + j
      BY <1>10 DEF start
    <3> QED BY <2>2, <2>3, <3>1
  <2> QED BY <2>2, <2>3, <2>4
<1>12. ASSUME NEW j \in 1 .. ld
       PROVE  /\ name[j] = path[p + j - 1] /\ name[j] # "/" /\ name[j] # "=" /\ name[j] # "?"
  <2> DEFINE x == p + j - 1
  <2>1. /\ j \in 1 .. ld + lq /\ x \in 1 .. lm /\ x + 1 = p + j
        /\ p + j \in p + 1 .. lt
    BY <1>1, <1>9
  <2> HIDE DEF x, name
  <2>2. name[j] = T[x + 1]
    BY <1>11, <2>1
  <2>3. name[j] = path[x]
    BY <1>3, <2>1, <2>2
  <2>4. name[j] # "/"
    BY <1>9, <2>1, <2>2
  <2> QED BY <1>6, <2>1, <2>3, <2>4 DEF x
<1>13. ASSUME NEW j \in 1 .. lq PROVE name[ld + j] = Q[j]
  <2>1. ld + j \in 1 .. ld + lq /\ p + (ld + j) = lm + 1 + j
    BY <1>1, <1>9
  <2> HIDE DEF name, ld
  <2> QED BY <1>4, <1>11, <2>1
<1> HIDE DEF name, ld, start
<1>14. ld = lm + 1 - p
  BY DEF ld
<1>15. /\ mark = (IF lq = 0 THEN 0 ELSE ld + 1)
       /\ dest \in Seq(Tokens) /\ Len(dest) = ld /\ \A j \in 1 .. ld : dest[j] = name[j]
       /\ BufferFor(buffer, A)
  <2>1. CASE lq = 0
    <3>1. Len(name) = ld
      BY <1>10, <1>11, <2>1
    <3>2. mark = 0
      <4>1. \A j \in 1 .. Len(name) : name[j] # "?"
        BY <1>12, <3>1
      <4> QED BY <1>11, <4>1, LastPositionNone
    <3> HIDE DEF mark
    <3>3. dest = name
      BY <3>2
    <3>4. buffer = name
      <4>1. buffer = SubSeq(name, 1, Len(name))
        BY <3>2 DEF From
      <4>2. SubSeq(name, 1, Len(name)) = name
        BY <1>11, SubSeqFull
      <4> QED BY <4>1, <4>2
    <3> HIDE DEF dest, buffer
    <3>5. BufferFor(buffer, A)
      <4>1. \A j \in 1 .. Len(buffer) : buffer[j] # "="
        BY <1>12, <3>1, <3>4
      <4>2. Len(A) = 0
        BY <1>8, <2>1
      <4> QED BY <4>1, <4>2 DEF BufferFor
    <3> QED BY <1>11, <2>1, <3>1, <3>2, <3>3, <3>5
  <2>2. CASE lq # 0
    <3> DEFINE q == ld + 1
    <3>1. q \in 1 .. Len(name) /\ q \in Nat /\ q - 1 = ld /\ q # 0
          /\ q + 1 \in 1 .. Len(name) + 1 /\ Len(name) + 1 - (q + 1) = lq - 1
          /\ 1 \in 1 .. lq /\ lq \in Nat
      <4>1. Len(name) = ld + lq /\ ld \in Nat /\ lq \in Nat
        BY <1>1, <1>10, <1>11
      <4> QED BY <2>2, <4>1
    <3>2. name[q] = "?"
      <4>1. name[ld + 1] = Q[1] /\ Q[1] = "?"
        BY <1>7, <1>13, <3>1
      <4> QED BY <4>1
    <3>3. ASSUME NEW j \in q + 1 .. Len(name) PROVE name[j] # "?"
      <4> DEFINE x == j - ld
      <4>1. x \in 1 .. lq /\ ld + x = j /\ x # 1
        <5>1. Len(name) = ld + lq /\ ld \in Nat /\ lq \in Nat
          BY <1>1, <1>10, <1>11
        <5> QED BY <5>1
      <4> HIDE DEF x
      <4>2. name[j] = Q[x]
        BY <1>13, <4>1
      <4> QED BY <1>7, <4>1, <4>2
    <3> HIDE DEF q
    <3>4. mark = q
      <4>1. name \in Seq(Tokens) /\ q \in 1 .. Len(name) /\ name[q] = "?"
            /\ \A j \in q + 1 .. Len(name) : name[j] # "?"
        BY <1>11, <3>1, <3>2, <3>3
      <4> QED BY <4>1, LastPositionFound
    <3> HIDE DEF mark
    <3>5. dest = SubSeq(name, 1, ld)
      BY <3>1, <3>4
    <3>6. dest \in Seq(Tokens) /\ Len(dest) = ld /\ \A j \in 1 .. ld : dest[j] = name[j]
      <4> HIDE DEF dest
      <4>1. \A j \in 1 .. ld : name[j] \in Tokens
        <5>1. ASSUME NEW j \in 1 .. ld PROVE j \in 1 .. Len(name)
          <6>1. Len(name) = ld + lq /\ ld \in Nat /\ lq \in Nat
            BY <1>1, <1>10, <1>11
          <6> QED BY <6>1
        <5> QED BY <1>11, <5>1
      <4>2. /\ dest \in Seq(Tokens) /\ Len(dest) = IF 1 <= ld THEN ld - 1 + 1 ELSE 0
            /\ \A j \in 1 .. ld - 1 + 1 : dest[j] = name[1 + j - 1]
        BY <1>10, <3>5, <4>1, SubSeqProperties
      <4>3. Len(dest) = ld
        BY <1>10, <4>2
      <4>4. ASSUME NEW j \in 1 .. ld PROVE dest[j] = name[j]
        <5>1. j \in 1 .. ld - 1 + 1 /\ 1 + j - 1 = j
          BY <1>10
        <5> QED BY <4>2, <5>1
      <4> QED BY <4>2, <4>3, <4>4
    <3>7. buffer = From(name, q + 1)
      BY <3>4
    <3> HIDE DEF dest, buffer
    <3>8. IsQuery(buffer, A)
      <4> DEFINE m == q + 1
      <4>1. m \in 1 .. Len(name) + 1 /\ Len(name) + 1 - m = lq - 1
        BY <3>1
      <4>2. buffer = From(name, m)
        BY <3>7
      <4>3. m = ld + 2
        BY <1>10 DEF q
      <4> HIDE DEF m
      <4>4. /\ From(name, m) \in Seq(Tokens) /\ Len(From(name, m)) = Len(name) + 1 - m
            /\ \A j \in 1 .. Len(name) + 1 - m : From(name, m)[j] = name[m + j - 1]
        BY <1>11, <4>1, FromElements
      <4>5. buffer \in Seq(Tokens) /\ Len(buffer) = lq - 1
        BY <4>1, <4>2, <4>4
      <4>6. ASSUME NEW j \in 1 .. Len(buffer) PROVE buffer[j] = Q[j + 1]
        <5> DEFINE x == j + 1
        <5>1. x \in 1 .. lq /\ ld + x = m + j - 1 /\ j \in 1 .. Len(name) + 1 - m
          BY <1>10, <3>1, <4>1, <4>3, <4>5
        <5> HIDE DEF x
        <5>2. buffer[j] = name[ld + x]
          BY <4>2, <4>4, <5>1
        <5> QED BY <1>13, <5>1, <5>2 DEF x
      <4> QED BY <4>5, <4>6 DEF IsQuery, Q, lq
    <3>9. BufferFor(buffer, A)
      <4>1. Len(A) # 0
        BY <1>8, <2>2
      <4> QED BY <3>8, <4>1 DEF BufferFor
    <3> QED BY <2>2, <3>4, <3>6, <3>9 DEF q
  <2> QED BY <2>1, <2>2
<1> HIDE DEF mark, dest, buffer
<1>16. LastSegment(path, dest)
  <2>1. p \in 1 .. Len(path) + 1 /\ Len(dest) = Len(path) + 1 - p
    BY <1>9, <1>14, <1>15 DEF lm
  <2>2. p # 1 => path[p - 1] = "/"
    <3> SUFFICES ASSUME p # 1 PROVE path[p - 1] = "/"
      OBVIOUS
    <3> DEFINE x == p - 1
    <3>1. x \in 1 .. lm /\ x + 1 = p
      BY <1>1, <1>9
    <3> HIDE DEF x
    <3>2. T[x + 1] = path[x]
      BY <1>3, <3>1
    <3> QED BY <1>9, <3>1, <3>2 DEF x
  <2>3. ASSUME NEW j \in 1 .. Len(dest) PROVE dest[j] = path[p + j - 1] /\ dest[j] # "/"
    <3>1. j \in 1 .. ld
      BY <1>15
    <3> QED BY <1>12, <1>15, <3>1
  <2> QED BY <1>1, <1>15, <2>1, <2>2, <2>3, SegmentFound
<1>17. name = From(T, p + 1)
  BY DEF name, start
<1> QED BY <1>10, <1>15, <1>16, <1>17 DEF TargetParts, T, A, path, p, name, mark, dest, buffer

-----------------------------------------------------------------------------
(* TargetInv holds throughout, and the theorem about the target.           *)

(* The target was there up to its blank; if it was not, ReadVersion fails. *)
WholeTarget ==
  \/ at \in {"arguments", "version"} /\ Good(is)
  \/ at \in {"headers", "accepted"}

ArgumentsSoFar ==
  IF Len(request.arguments) = 0 THEN mHttpURLArguments = <<>>
  ELSE \E k \in 0 .. Len(request.arguments) : ArgumentsRead(k)

(* What is read of the target. *)
TargetInv ==
  /\ at \in {"method", "target"} => mHttpURLArguments = <<>>
  /\ Plain(request) /\ WholeTarget =>
       /\ LastSegment(request.name, mDest)
       /\ at = "arguments" => BufferFor(secondBuffer, request.arguments) /\ ArgumentsSoFar
       /\ at # "arguments" => mHttpURLArguments = FirstValues(request.arguments)

LEMMA TargetInvInitially == Init => TargetInv
<1> SUFFICES ASSUME Init PROVE TargetInv
  OBVIOUS
<1>1. at = "method" /\ mHttpURLArguments = <<>>
  BY DEF Init
<1> QED BY <1>1 DEF TargetInv, WholeTarget

LEMMA ArgumentsStart ==
  ASSUME PInv, LineInv, TargetInv, ReadTarget, at' = "arguments", Plain(request), Good(is')
  PROVE  /\ LastSegment(request.name, mDest)'
         /\ BufferFor(secondBuffer, request.arguments)' /\ ArgumentsSoFar'
<1> DEFINE line == GetLine(is, <<>>, " ")
           name == From(line.str, PathEnd(line.str) + 1)
           mark == LastPosition(name, "?")
           A == request.arguments
<1>1. request \in Requests /\ request' = request
  BY DEF LineInv, TextInv, ReadTarget
<1>2. A \in Seq(Arguments) /\ A' = A
  BY <1>1, RequestProperties
<1>3. line.str = Target
  BY TargetRead
<1>4. /\ secondBuffer' = From(name, mark + 1)
      /\ mDest' = IF mark = 0 THEN name ELSE SubSeq(name, 1, mark - 1)
      /\ UNCHANGED <<offsets, mHttpURLArguments>>
  BY DEF ReadTarget, Reject
<1>5. i = 1 /\ argumentStartOffset = 1 /\ mHttpURLArguments = <<>>
  BY DEF ReadTarget, PInv, TargetInv
<1>6. i' = 1 /\ argumentStartOffset' = 1 /\ mHttpURLArguments' = <<>>
  BY <1>4, <1>5 DEF offsets
<1>7. TargetParts
  BY <1>1, TargetTaken
<1> HIDE DEF line, A
<1>8. LastSegment(request.name, mDest') /\ BufferFor(secondBuffer', request.arguments)
  BY <1>3, <1>4, <1>7 DEF TargetParts
<1>9. ASSUME Len(A) # 0 PROVE ArgumentsRead(0)' /\ 0 \in 0 .. Len(A)
  <2>1. Len(A) \in Nat /\ 1 \in 1 .. Len(A) /\ 0 \in 0 .. Len(A)
    BY <1>2, <1>9
  <2>2. FirstValues(SubSeq(A, 1, 0)) = <<>>
    <3>1. SubSeq(A, 1, 0) = <<>>
      BY ONLY SubSeqEmpty
    <3> QED BY <3>1, FirstValuesEmpty
  <2>3. ArgEnd(A, 0) = 0
    BY <1>2, ArgEnds
  <2>4. 1 <= Equals(A, 1)
    <3> DEFINE b == secondBuffer'
               m == 1
    <3>1. IsQuery(b, A)
      BY <1>8, <1>9 DEF BufferFor, A
    <3>2. m \in 1 .. Len(A)
      BY <2>1
    <3> HIDE DEF b, m
    <3>3. ArgEnd(A, m - 1) \in Nat /\ Equals(A, m) \in Nat /\ ArgEnd(A, m - 1) < Equals(A, m)
      BY <1>2, <3>1, <3>2, BufferNumbers
    <3>4. 1 <= Equals(A, m)
      BY <3>3
    <3> QED BY <3>4 DEF m
  <2>5. Between(A, 0, 1)
    BY <2>4 DEF Between
  <2>6. 1 = ArgEnd(A, 0) + 1
    BY <2>3
  <2>7. /\ mHttpURLArguments' = FirstValues(SubSeq(A, 1, 0))
        /\ Between(A, 0, i')
        /\ argumentStartOffset' = ArgEnd(A, 0) + 1
    BY <1>6, <2>2, <2>5, <2>6
  <2>8. ArgumentsRead(0)'
    BY <1>1, <2>7 DEF ArgumentsRead, A
  <2> QED BY <2>1, <2>8
<1>10. ArgumentsSoFar'
  <2>1. CASE Len(A) = 0
    BY <1>1, <1>6, <2>1 DEF ArgumentsSoFar, A
  <2>2. CASE Len(A) # 0
    <3>1. \E k \in 0 .. Len(A) : ArgumentsRead(k)'
      BY <1>9, <2>2
    <3> QED BY <1>1, <2>2, <3>1 DEF ArgumentsSoFar, A
  <2> QED BY <2>1, <2>2
<1> QED BY <1>1, <1>8, <1>10

LEMMA ArgumentsGoOn ==
  ASSUME PInv, LineInv, TargetInv, ReadArguments, Plain(request), Good(is)
  PROVE  /\ LastSegment(request.name, mDest)'
         /\ at' = "arguments" =>
              BufferFor(secondBuffer, request.arguments)' /\ ArgumentsSoFar'
         /\ at' # "arguments" => mHttpURLArguments' = FirstValues(request.arguments)
<1> DEFINE A == request.arguments
           b == secondBuffer
<1>1. request \in Requests /\ UNCHANGED <<request, secondBuffer, mDest>> /\ at = "arguments"
  BY DEF LineInv, TextInv, ReadArguments
<1>2. A \in Seq(Arguments) /\ PlainArguments(A)
  BY <1>1, RequestProperties, PlainRequest
<1>3. /\ LastSegment(request.name, mDest) /\ BufferFor(b, A) /\ ArgumentsSoFar
  BY <1>1 DEF TargetInv, WholeTarget
<1>4. i \in 1 .. Len(b) + 1 /\ Len(b) \in Nat
  BY <1>1, LenProperties DEF PInv
<1>5. LastSegment(request.name, mDest)'
  BY <1>1, <1>3 DEF LastSegment
<1>6. BufferFor(secondBuffer, request.arguments)'
  BY <1>1, <1>3 DEF BufferFor, IsQuery
<1>7. CASE i <= Len(b)
  <2>1. at' = "arguments"
    BY <1>1, <1>4, <1>7 DEF ReadArguments
  <2>2. ArgumentsSoFar'
    <3>1. CASE Len(A) = 0
      <4>1. i \in 1 .. Len(b)
        BY <1>4, <1>7
      <4>2. b[i] # "="
        BY <1>3, <3>1, <4>1 DEF BufferFor
      <4>3. mHttpURLArguments = <<>>
        BY <1>3, <3>1 DEF ArgumentsSoFar
      <4>4. mHttpURLArguments' = mHttpURLArguments
        BY <1>4, <1>7, <4>2 DEF ReadArguments
      <4> QED BY <1>1, <3>1, <4>3, <4>4 DEF ArgumentsSoFar
    <3>2. CASE Len(A) # 0
      <4>1. PICK k \in 0 .. Len(A) : ArgumentsRead(k)
        BY <1>3, <3>2 DEF ArgumentsSoFar
      <4>2. IsQuery(b, A)
        BY <1>3, <3>2 DEF BufferFor
      <4>3. \E m \in 0 .. Len(A) : ArgumentsRead(m)'
        BY <1>1, <1>2, <1>7, <3>2, <4>1, <4>2, ArgumentTurn
      <4> QED BY <1>1, <3>2, <4>3 DEF ArgumentsSoFar
    <3> QED BY <3>1, <3>2
  <2> QED BY <1>5, <1>6, <2>1, <2>2
<1>8. CASE i > Len(b)
  <2>1. at' = "version" /\ mHttpURLArguments' = mHttpURLArguments
    BY <1>8 DEF ReadArguments
  <2>2. mHttpURLArguments = FirstValues(A)
    <3>1. CASE Len(A) = 0
      <4>1. mHttpURLArguments = <<>>
        BY <1>3, <3>1 DEF ArgumentsSoFar
      <4>2. A = <<>>
        <5> HIDE DEF A
        <5> QED BY <1>2, <3>1, EmptySeq
      <4> QED BY <4>1, <4>2, FirstValuesEmpty
    <3>2. CASE Len(A) # 0
      <4>1. PICK k \in 0 .. Len(A) : ArgumentsRead(k)
        BY <1>3, <3>2 DEF ArgumentsSoFar
      <4>2. IsQuery(b, A)
        BY <1>3, <3>2 DEF BufferFor
      <4> QED BY <1>1, <1>8, <4>1, <4>2, ArgumentsEnd
    <3> QED BY <3>1, <3>2
  <2> QED BY <1>5, <2>1, <2>2
<1> QED BY <1>4, <1>7, <1>8

(* A failed stream stays failed: a version is read only if a target was. *)
LEMMA VersionNeedsTarget ==
  ASSUME PInv, ReadVersion, at' = "headers"
  PROVE  Good(is)
<1> DEFINE line == GetLine(is, <<>>, "\n")
<1>1. text \in Seq(Characters) /\ is \in Stream /\ <<>> \in Seq(Characters)
  BY EmptySeq DEF PInv
<1>2. ~line.is.fail
  BY DEF ReadVersion, Reject
<1> HIDE DEF line
<1>3. Reads(is, line)
  BY <1>1, GetLineProperties DEF line
<1> QED BY <1>2, <1>3 DEF Reads

LEMMA TargetInvSteps ==
  ASSUME PInv, LineInv, TargetInv, [Next]_parserVars
  PROVE  TargetInv'
<1>1. request' = request
  BY DEF Next, PrepareResponse, ReadMethod, ReadTarget, ReadArguments, ReadVersion,
         ReadHeader, Accept, parserVars
<1>2. Plain(request)' = Plain(request)
  BY <1>1 DEF Plain
<1>3. Good(is)' = Good(is')
  BY DEF Good
<1>4. ASSUME at \notin {"arguments", "method", "target"}, at' # "arguments",
             Plain(request) => WholeTarget,
             at' \notin {"method", "target"}, mDest' = mDest,
             mHttpURLArguments' = mHttpURLArguments
      PROVE  TargetInv'
  <2> SUFFICES ASSUME Plain(request)
               PROVE  /\ LastSegment(request.name, mDest)'
                      /\ mHttpURLArguments' = FirstValues(request.arguments)'
    BY <1>2, <1>4 DEF TargetInv
  <2>1. LastSegment(request.name, mDest) /\ mHttpURLArguments = FirstValues(request.arguments)
    BY <1>4 DEF TargetInv
  <2>2. LastSegment(request.name, mDest)'
    BY <1>1, <1>4, <2>1 DEF LastSegment
  <2>3. FirstValues(request.arguments)' = FirstValues(request.arguments)
    BY <1>1
  <2> QED BY <1>4, <2>1, <2>2, <2>3
<1>5. CASE ReadMethod
  <2>1. at = "method" /\ at' \in {"target", "rejected"} /\ mHttpURLArguments' = mHttpURLArguments
    BY <1>5 DEF ReadMethod, Reject, fields
  <2> QED BY <2>1 DEF TargetInv, WholeTarget
<1>6. CASE ReadTarget
  <2>1. at' \in {"arguments", "rejected"}
    BY <1>6 DEF ReadTarget, Reject
  <2>2. CASE at' = "rejected"
    BY <2>2 DEF TargetInv, WholeTarget
  <2>3. CASE at' = "arguments"
    <3>1. ASSUME Plain(request), Good(is')
          PROVE  /\ LastSegment(request.name, mDest)'
                 /\ BufferFor(secondBuffer, request.arguments)' /\ ArgumentsSoFar'
      BY <1>6, <2>3, <3>1, ArgumentsStart
    <3> QED BY <1>2, <1>3, <2>3, <3>1 DEF TargetInv, WholeTarget
  <2> QED BY <2>1, <2>2, <2>3
<1>7. CASE ReadArguments
  <2>1. at' \in {"arguments", "version"} /\ is' = is
    BY <1>7 DEF ReadArguments
  <2>2. FirstValues(request.arguments)' = FirstValues(request.arguments)
    BY <1>1
  <2>3. ASSUME Plain(request), Good(is)
        PROVE  /\ LastSegment(request.name, mDest)'
               /\ at' = "arguments" =>
                    BufferFor(secondBuffer, request.arguments)' /\ ArgumentsSoFar'
               /\ at' # "arguments" => mHttpURLArguments' = FirstValues(request.arguments)
    BY <1>7, <2>3, ArgumentsGoOn
  <2>4. Good(is)' = Good(is)
    BY <2>1 DEF Good
  <2> QED BY <1>2, <2>1, <2>2, <2>3, <2>4 DEF TargetInv, WholeTarget
<1>8. CASE ReadVersion
  <2>1. at = "version" /\ at' \in {"headers", "rejected"}
    BY <1>8 DEF ReadVersion, Reject
  <2>2. CASE at' = "rejected"
    BY <2>2 DEF TargetInv, WholeTarget
  <2>3. CASE at' = "headers"
    <3>1. Good(is)
      BY <1>8, <2>3, VersionNeedsTarget
    <3>2. mDest' = mDest /\ mHttpURLArguments' = mHttpURLArguments
      BY <1>8, <2>3 DEF ReadVersion, Reject, fields
    <3>3. WholeTarget
      BY <2>1, <3>1 DEF WholeTarget
    <3> QED BY <1>4, <2>1, <2>3, <3>2, <3>3
  <2> QED BY <2>1, <2>2, <2>3
<1>9. CASE ReadHeader
  <2>1. at = "headers" /\ at' = "headers" /\ mDest' = mDest
        /\ mHttpURLArguments' = mHttpURLArguments
    BY <1>9 DEF ReadHeader
  <2>2. WholeTarget
    BY <2>1 DEF WholeTarget
  <2> QED BY <1>4, <2>1, <2>2
<1>10. CASE Accept
  <2>1. at = "headers" /\ at' = "accepted" /\ mDest' = mDest
        /\ mHttpURLArguments' = mHttpURLArguments
    BY <1>10 DEF Accept, fields
  <2>2. WholeTarget
    BY <2>1 DEF WholeTarget
  <2> QED BY <1>4, <2>1, <2>2
<1>11. CASE UNCHANGED parserVars
  <2>1. /\ request' = request /\ is' = is /\ at' = at /\ secondBuffer' = secondBuffer
        /\ i' = i /\ argumentStartOffset' = argumentStartOffset
        /\ mDest' = mDest /\ mHttpURLArguments' = mHttpURLArguments
    BY <1>11 DEF parserVars, fields, offsets
  <2>2. ASSUME NEW k PROVE ArgumentsRead(k)' = ArgumentsRead(k)
    BY <2>1 DEF ArgumentsRead
  <2>3. ArgumentsSoFar' = ArgumentsSoFar
    BY <2>1, <2>2 DEF ArgumentsSoFar
  <2>4. LastSegment(request.name, mDest)' = LastSegment(request.name, mDest)
    BY <2>1
  <2>5. BufferFor(secondBuffer, request.arguments)' = BufferFor(secondBuffer, request.arguments)
    BY <2>1
  <2>6. FirstValues(request.arguments)' = FirstValues(request.arguments)
    BY <2>1
  <2>7. WholeTarget' = WholeTarget
    BY <2>1 DEF WholeTarget, Good
  <2> QED BY <1>2, <2>1, <2>3, <2>4, <2>5, <2>6, <2>7 DEF TargetInv
<1> QED BY <1>5, <1>6, <1>7, <1>8, <1>9, <1>10, <1>11 DEF Next, PrepareResponse

(* TargetAsSent: the loop over the arguments finds every name and value of a *)
(* plain query, empty ones and repeated names included, and what is looked up *)
(* is the last segment of the path, for any number of either.              *)
THEOREM ArgumentsAndPathAsSent == Spec => []TargetAsSent
<1>1. PInv /\ LineInv /\ TargetInv /\ HeadersInv /\ [Next]_parserVars
        => (PInv /\ LineInv /\ TargetInv /\ HeadersInv)'
  BY Inductive, LineInvSteps, HeadersInvSteps, TargetInvSteps
<1>2. Init => PInv /\ LineInv /\ TargetInv /\ HeadersInv
  BY Initially, InvInitially, TargetInvInitially
<1>3. TargetInv => TargetAsSent
  BY DEF TargetInv, TargetAsSent, WholeTarget, LastSegment
<1> QED BY <1>1, <1>2, <1>3, PTL DEF Spec
================================================================================
