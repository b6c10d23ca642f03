----------------------------- MODULE ChulaText -----------------------------
(***************************************************************************)
(* What buffer.c does with the text of a buffer: numbers, UTF-8, URI and   *)
(* HTML escapes, base64, hexadecimal digits, search and replacement.       *)
(* Octets are their values and Nul is 0.  Each operator reserves what the  *)
(* code reserves, writes what it writes and sets the length it sets: the   *)
(* three may disagree.                                                     *)
(***************************************************************************)
EXTENDS ChulaBuffer, SequencesExt

CONSTANTS
  IntWord, LongWord,  \* 2^32 and 2^64: the widths of int and long
  Space               \* 127: what base64 is decoded into before it is copied back

ASSUME TextAssumption == Nul = 0 /\ Space > 2

Written(b, txt, len) == [b EXCEPT !.mem = Put(@, 1, Append(txt, Nul)), !.len = len]

\* The text as the functions of the C library see it.
CStr(s) == IF Nul \in ToSet(s) THEN SubSeq(s, 1, SelectInSeq(s, LAMBDA c : c = Nul) - 1) ELSE s

Find(s, sub, from) ==
  LET at == {i \in from .. Len(s) - Len(sub) + 1 : SubSeq(s, i, i + Len(sub) - 1) = sub}
  IN  IF at = {} THEN 0 ELSE CHOOSE i \in at : \A j \in at : i <= j

FlatMap(F(_), s) == FoldLeft(LAMBDA t, c : t \o F(c), <<>>, s)

-----------------------------------------------------------------------------
(* Numbers *)

\* TO_HEX, and '0' + a digit
ToHex(d) == IF d > 9 THEN d + 97 - 10 ELSE d + 48

RECURSIVE DigitsOf(_, _)
DigitsOf(n, base) ==
  (IF n < base THEN <<>> ELSE DigitsOf(n \div base, base)) \o <<ToHex(n % base)>>

\* chula_buffer_add_long10 and _llong10: the sign is taken off the unsigned
\* value, where the least number is its own opposite.
Long10(n, word) ==
  LET unsigned == n % word
  IN  IF n < 0 THEN <<45>> \o DigitsOf((word - unsigned) % word, 10) ELSE DigitsOf(unsigned, 10)

\* chula_buffer_add_uint16be and _uint32be
BigEndian(n, octets) == [i \in 1 .. octets |-> (n \div 256 ^ (octets - i)) % 256]

\* chula_buffer_add_fsize: what is printed of a size, whole, tenths and order.
RECURSIVE FSize(_, _)
FSize(size, order) ==
  LET remain == size % 1024
      whole  == size \div 1024
      tenths == (remain * 5 + 256) \div 512
  IN  CASE whole >= 973 -> FSize(whole, order + 1)
        [] whole < 9 \/ (whole = 9 /\ remain < 973) ->
             IF tenths >= 10 THEN [whole |-> whole + 1, tenths |-> 0, order |-> order]
             ELSE [whole |-> whole, tenths |-> tenths, order |-> order]
        [] OTHER -> [whole |-> IF remain >= 512 THEN whole + 1 ELSE whole, tenths |-> -1, order |-> order]

Orders == <<75, 77, 71, 84, 80, 69>>

Padding(n, width) == [i \in 1 .. width - Len(DigitsOf(n, 10)) |-> 32] \o DigitsOf(n, 10)

AddFSize(b, size, ok) ==
  LET room == EnsureSize(b, b.len + 8, ok)
      f    == FSize(size, 1)
      txt  == (IF f.tenths >= 0 THEN DigitsOf(f.whole, 10) \o <<46>> \o DigitsOf(f.tenths, 10)
               ELSE Padding(f.whole, 3)) \o <<Orders[f.order]>>
  IN  CASE room.ret # "ok" -> room
        [] room.ret = "ok" /\ size < 973 -> AddDigits(room.buf, DigitsOf(size, 10), ok)
        [] OTHER -> AddVaFixed(room.buf, txt)

\* One conversion of a format: what it converts, how long its type is, the
\* value or the length of a string, and the width.
Signed(n, word) == ((n + word \div 2) % word) - word \div 2

Base(conv) == CASE conv \in {"d", "u"} -> 10 [] conv = "o" -> 8 [] conv = "x" -> 16

Magnitude(n) == IF n < 0 THEN -n ELSE n

\* chula_estimate_va_length: a signed conversion reads an int, however long
\* its type is, and an unsigned one a long only as "lu".
Estimate(item) ==
  LET value == CASE item.conv = "u" -> (IF item.long THEN item.value
                                        ELSE Signed(item.value, IntWord)) % LongWord
                 [] item.conv \in {"d", "o", "x"} -> Signed(item.value, IntWord)
                 [] OTHER -> item.value
  IN  item.width +
        CASE item.conv = "s" -> item.value
          [] item.conv = "c" -> 1
          [] OTHER -> (IF value < 0 THEN 1 ELSE 0) + Len(DigitsOf(Magnitude(value), Base(item.conv))) + 1

\* vsnprintf (external)
PrintedLen(item) ==
  LET word == IF item.long THEN LongWord ELSE IntWord
      natural == CASE item.conv = "s" -> item.value
                   [] item.conv = "c" -> 1
                   [] item.conv = "d" -> Len(Long10(item.value, word))
                   [] OTHER -> Len(DigitsOf(item.value % word, Base(item.conv)))
  IN  IF natural < item.width THEN item.width ELSE natural

-----------------------------------------------------------------------------
(* UTF-8 and escapes *)

\* What follows the text is the Nul it ends with.
At(s, i) == IF i <= Len(s) THEN s[i] ELSE Nul

\* utf8_get_next_char: the octets of the character at i, fewer when the text
\* ends before it does.
CharLen(s, i) ==
  LET n == CASE At(s, i) \in 192 .. 223 -> 2
             [] At(s, i) \in 224 .. 239 -> 3
             [] At(s, i) \in 240 .. 247 -> 4
             [] OTHER -> 1
      cut == {k \in 1 .. n - 1 : At(s, i + k) = Nul}
  IN  IF cut = {} THEN n ELSE CHOOSE k \in cut : \A j \in cut : k <= j

RECURSIVE CharsFrom(_, _)
CharsFrom(s, i) ==
  IF i > Len(s) THEN <<>> ELSE <<SubSeq(s, i, i + CharLen(s, i) - 1)>> \o CharsFrom(s, i + CharLen(s, i))

\* chula_buffer_get_utf8_len
Utf8Len(b) == Len(CharsFrom(Text(b), 1))

\* What the tables of chula_buffer_escape_uri, _uri_delims and _arg name.
Escaped(table) ==
  0 .. 32 \cup 127 .. 255 \cup {35, 37, 63}
    \cup CASE table = "uri" -> {}
           [] table = "uri_delims" -> {58, 64, 91, 93}
           [] table = "arg" -> {38, 43, 59}

EscapedChar(char, table) ==
  IF Len(char) = 1 /\ char[1] \in Escaped(table)
  THEN <<37, ToHex(char[1] \div 16), ToHex(char[1] % 16)>> ELSE char

\* Slip: a character that is escaped takes only one octet more.
EscapeRoomShort(len, n_escape) == len + n_escape

EscapeRoom(len, n_escape) == len + n_escape * 3

\* escape_with_table
EscapeWithTable(b, src, table, ok) ==
  LET chars    == CharsFrom(Text(src), 1)
      n_escape == Len(SelectSeq(chars, LAMBDA c : Len(c) = 1 /\ c[1] \in Escaped(table)))
      room     == EnsureAddlen(b, EscapeRoom(src.len, n_escape), ok)
      txt      == FlatMap(LAMBDA c : EscapedChar(c, table), chars)
  IN  CASE src.len = 0 -> Returns("ok", b)
        [] src.len > 0 /\ room.ret # "ok" -> room
        [] OTHER -> Returns("ok", [room.buf EXCEPT !.mem = Put(@, b.len + 1, Append(txt, Nul)),
                                                   !.len = @ + src.len + n_escape * 2])

HexDigits == 48 .. 57 \cup 65 .. 70 \cup 97 .. 102

\* Slip: the ten digits are forgotten.
HexValueOfLetter(c) == IF c \in 48 .. 57 THEN c - 48 ELSE c % 32

HexValue(c) == CASE c \in 48 .. 57 -> c - 48 [] c \in 65 .. 70 -> c - 55 [] c \in 97 .. 102 -> c - 87

RECURSIVE UnescapedFrom(_, _)
UnescapedFrom(s, i) ==
  LET escape == At(s, i) = 37 /\ {At(s, i + 1), At(s, i + 2)} \subseteq HexDigits
      value  == HexValue(At(s, i + 1)) * 16 + HexValue(At(s, i + 2))
  IN  CASE i > Len(s) -> <<>>
        [] i <= Len(s) /\ escape -> <<IF value = Nul THEN 32 ELSE value>> \o UnescapedFrom(s, i + 3)
        [] OTHER -> <<s[i]>> \o UnescapedFrom(s, i + 1)

\* chula_buffer_unescape_uri.  What is behind a Nul in the text stays where
\* it was.
UnescapeUri(b) ==
  LET s   == CStr(Text(b))
      txt == UnescapedFrom(s, 1)
  IN  IF 37 \notin ToSet(s) THEN b ELSE Written(b, txt, b.len - (Len(s) - Len(txt)))

HtmlEntity(c) ==
  CASE c = 60 -> <<38, 108, 116, 59>>
    [] c = 62 -> <<38, 103, 116, 59>>
    [] c = 38 -> <<38, 97, 109, 112, 59>>
    [] c = 34 -> <<38, 113, 117, 111, 116, 59>>
    [] c = 35 -> <<38, 35, 51, 53, 59>>
    [] c = 39 -> <<38, 35, 51, 57, 59>>
    [] c = 47 -> <<38, 35, 52, 55, 59>>
    [] OTHER -> <<c>>

\* What is counted as extra for it
HtmlExtra(c) ==
  CASE c \in {60, 62} -> 3 [] c \in {38, 35, 39, 47} -> 4 [] c = 34 -> 5 [] OTHER -> 0

\* chula_buffer_add_escape_html: nothing is escaped before the first of < > & ".
AddEscapeHtml(b, src, ok) ==
  LET s     == CStr(Text(src))
      first == SelectInSeq(s, LAMBDA c : c \in {60, 62, 38, 34})
      rest  == SubSeq(s, first, Len(s))
      extra == FoldLeft(LAMBDA n, c : n + HtmlExtra(c), 0, rest)
      room  == EnsureAddlen(b, src.len + extra + 1, ok)
      txt   == SubSeq(s, 1, first - 1) \o FlatMap(HtmlEntity, rest)
  IN  CASE src.len = 0 -> Returns("ok", b)
        [] src.len > 0 /\ first = 0 -> AddBuffer(b, src, ok)
        [] src.len > 0 /\ first > 0 /\ Len(s) # src.len -> Returns("error", b)
        [] src.len > 0 /\ first > 0 /\ Len(s) = src.len ->
             IF room.ret # "ok" THEN room
             ELSE Returns("ok", Ended(room.buf, Put(room.buf.mem, b.len + 1, txt), b.len + src.len + extra))

EscapeHtml(b, src, ok) == AddEscapeHtml(Clean(b), src, ok)

-----------------------------------------------------------------------------
(* Base64 and hexadecimal digits *)

Base64Char(n) ==
  CASE n \in 0 .. 25 -> n + 65 [] n \in 26 .. 51 -> n + 71 [] n \in 52 .. 61 -> n - 4
    [] n = 62 -> 43 [] n = 63 -> 47

Base64Value(c) ==
  CASE c \in 65 .. 90 -> c - 65 [] c \in 97 .. 122 -> c - 71 [] c \in 48 .. 57 -> c + 4
    [] c = 43 -> 62 [] c = 47 -> 63 [] OTHER -> -1

Base64Room(len) == (((len + 4) * 4) \div 3) + 1

EncodeBase64(b, encoded, ok) ==
  LET in    == Text(b)
      O(i)  == At(in, i)
      Four(i) == <<Base64Char(O(i) \div 4),
                   Base64Char((O(i) % 4) * 16 + (O(i + 1) \div 16)),
                   IF i + 1 > b.len THEN 61 ELSE Base64Char((O(i + 1) % 16) * 4 + (O(i + 2) \div 64)),
                   IF i + 2 > b.len THEN 61 ELSE Base64Char(O(i + 2) % 64)>>
      txt   == FlatMap(Four, [k \in 1 .. (b.len + 2) \div 3 |-> 3 * k - 2])
      room  == EnsureSize(encoded, Base64Room(b.len), ok)
  IN  IF b.len = 0 \/ room.ret # "ok" THEN Returns(IF b.len = 0 THEN "ok" ELSE room.ret, encoded)
      ELSE Returns("ok", Ended(room.buf, Put(room.buf.mem, 1, txt), Len(txt)))

\* chula_buffer_decode_base64 reads the memory it writes to: what is decoded
\* is copied back whenever Space octets of it have come together.
RECURSIVE Base64From(_, _, _)
Base64From(b, i, s) ==
  LET d     == Base64Value(s.mem[i])
      octet == CASE s.phase = 1 -> <<s.prev * 4 + (d \div 16)>>
                 [] s.phase = 2 -> <<(s.prev % 16) * 16 + (d \div 4)>>
                 [] s.phase = 3 -> <<(s.prev % 4) * 64 + d>>
                 [] OTHER -> <<>>
      next  == IF d = -1 THEN s
               ELSE [s EXCEPT !.space = @ \o octet, !.phase = (@ + 1) % 4, !.prev = d]
  IN  CASE i > b.len -> [b EXCEPT !.mem = Put(s.mem, s.pos + 1, Append(s.space, Nul)),
                                  !.len = s.pos + Len(s.space)]
        [] i <= b.len /\ Len(next.space) = Space ->
             Base64From(b, i + 1, [next EXCEPT !.mem = Put(@, s.pos + 1, next.space),
                                               !.pos = @ + Space, !.space = <<>>])
        [] OTHER -> Base64From(b, i + 1, next)

DecodeBase64(b) ==
  IF b.len = 0 THEN b
  ELSE Base64From(b, 1, [mem |-> b.mem, space |-> <<>>, pos |-> 0, phase |-> 0, prev |-> 0])

HexOf(s) == FlatMap(LAMBDA c : <<ToHex(c \div 16), ToHex(c % 16)>>, s)

EncodeHex(b, encoded, ok) ==
  LET room == EnsureSize(encoded, b.len * 2 + 1, ok)
  IN  IF room.ret # "ok" THEN room
      ELSE Returns("ok", Ended(room.buf, Put(room.buf.mem, 1, HexOf(Text(b))), b.len * 2))

\* chula_buffer_decode_hex stops at what is no digit, and halves the length
\* all the same.
DecodeHex(b) ==
  LET Digit(i) == b.mem[i] % 128
      bad   == {i \in 1 .. b.len \div 2 : ~({Digit(2 * i - 1), Digit(2 * i)} \subseteq HexDigits)}
      good  == IF bad = {} THEN b.len \div 2 ELSE (CHOOSE i \in bad : \A j \in bad : i <= j) - 1
      txt   == [i \in 1 .. good |-> HexValue(Digit(2 * i - 1)) * 16 + HexValue(Digit(2 * i))]
  IN  IF b.len = 0 THEN b
      ELSE [b EXCEPT !.mem = Put(Put(@, 1, txt), b.len \div 2 + 1, <<Nul>>), !.len = b.len \div 2]

-----------------------------------------------------------------------------
(* Digests of the octets a hash gives *)

\* chula_buffer_encode_md5, _sha1 and _sha512 into another buffer
EncodeDigest(encoded, digest, ok) ==
  LET room == EnsureSize(encoded, Len(digest) + 1, ok)
  IN  IF room.ret # "ok" THEN room
      ELSE Returns("ok", Ended(room.buf, Put(room.buf.mem, 1, digest), Len(digest)))

\* chula_buffer_encode_md5_digest, _sha1_digest and _sha512_digest, in place
DigestInPlace(b, digest, ok) ==
  LET room == EnsureSize(b, 2 * Len(digest) + 1, ok)
  IN  IF room.ret # "ok" THEN room
      ELSE Returns("ok", Ended(room.buf, Put(room.buf.mem, 1, HexOf(digest)), 2 * Len(digest)))

\* chula_buffer_encode_sha1_base64 and _sha512_base64 go by way of the source;
\* the first looks at no result on the way.  oks says which of the four calls
\* that may need memory get it.
DigestBase64(b, encoded, digest, checks, oks) ==
  LET clean  == EnsureSize(encoded, 2 * Len(digest) + 1, oks[1])
      hashed == EncodeDigest(Clean(clean.buf), digest, oks[2])
      coded  == EncodeBase64(hashed.buf, b, oks[3])
      copied == Add(Clean(hashed.buf), Text(coded.buf), oks[4])
  IN  CASE clean.ret # "ok" -> [ret |-> clean.ret, buf |-> b, encoded |-> encoded]
        [] clean.ret = "ok" /\ checks /\ hashed.ret # "ok" ->
             [ret |-> hashed.ret, buf |-> b, encoded |-> hashed.buf]
        [] clean.ret = "ok" /\ checks /\ hashed.ret = "ok" /\ coded.ret # "ok" ->
             [ret |-> coded.ret, buf |-> b, encoded |-> hashed.buf]
        [] OTHER -> [ret |-> copied.ret, buf |-> coded.buf, encoded |-> copied.buf]
=============================================================================
