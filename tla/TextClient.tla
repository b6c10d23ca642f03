----------------------------- MODULE TextClient -----------------------------
(***************************************************************************)
(* A text of a kind is typed, octet by octet, and hashed as it is, piece   *)
(* by piece; then the operations of buffer.c for its kind are tried on it. *)
(***************************************************************************)
EXTENDS ChulaEdit, ChulaHash

CONSTANTS
  Kinds,        \* the kinds of text
  Octets(_),    \* the octets of a kind
  MaxLen(_),    \* bound: the longest text of a kind
  Sizes, Items  \* sizes, and conversions of a format, to be printed

VARIABLES
  kind, text,
  number,  \* what is printed
  hash     \* the contexts the text was given to

tvars == <<kind, text, number, hash>>

\* The octets of a text that is hashed are told apart by their places.
Piece(from, n) == [i \in 1 .. n |-> from + i]

TextInit ==
  /\ kind \in Kinds /\ text = <<>> /\ number = 0
  /\ hash = [md5 |-> Start, sha1 |-> Start, sha512 |-> Start]

Type(c) ==
  /\ kind \notin {"number", "message"} /\ Len(text) < MaxLen(kind)
  /\ text' = Append(text, c) /\ UNCHANGED <<kind, number, hash>>

Count(n) == kind = "number" /\ number' = n /\ UNCHANGED <<kind, text, hash>>

\* MD5Update, sha_update and SHA512_Update with the next octets of a message
Update(n) ==
  LET piece == Piece(Len(text), n)
  IN  /\ kind = "message" /\ Len(text) + n <= MaxLen(kind)
      /\ text' = text \o piece
      /\ hash' = [md5    |-> MD5Update(hash.md5, piece),
                  sha1   |-> ShaUpdate(hash.sha1, piece),
                  sha512 |-> SHA512Update(hash.sha512, piece)]
      /\ UNCHANGED <<kind, number>>

StartAgain ==
  /\ kind' \in Kinds /\ text' = <<>> /\ number' = 0
  /\ hash' = [md5 |-> Start, sha1 |-> Start, sha512 |-> Start]

TextNext ==
  \/ \E c \in Octets(kind) : Type(c)
  \/ \E n \in Sizes : Count(n)
  \/ \E n \in 0 .. 2 * Block + 1 : Update(n)
  \/ StartAgain

TextSpec == TextInit /\ [][TextNext]_tvars
-----------------------------------------------------------------------------
(* Properties *)

\* The text in a buffer of just its size, and one that has two octets.
Buf == Add(Empty, text, TRUE).buf

Two == Add(Empty, <<65, 66>>, TRUE).buf

Digest == IF text = <<>> THEN <<9>> ELSE text

\* What the operations for a kind of text return, with memory or without.
Results ==
  CASE kind = "uri" ->
         {EscapeWithTable(b, Buf, t, ok) :
            b \in {Empty, Two}, t \in {"uri", "uri_delims", "arg"}, ok \in BOOLEAN}
         \cup {Returns("ok", UnescapeUri(Buf))}
    [] kind = "html" -> {AddEscapeHtml(b, Buf, ok) : b \in {Empty, Two}, ok \in BOOLEAN}
    [] kind = "octets" ->
         {op : op \in UNION {{EncodeBase64(Buf, b, ok), EncodeHex(Buf, b, ok), EncodeDigest(b, Digest, ok),
                              DigestInPlace(Buf, Digest, ok)} : b \in {Empty, Two}, ok \in BOOLEAN}}
         \cup {Returns("ok", DecodeBase64(Buf)), Returns("ok", DecodeHex(Buf))}
         \cup {Returns("ok", DigestBase64(Buf, b, Digest, FALSE, <<TRUE, a, c, d>>)[x]) :
                 b \in {Empty, Two}, a, c, d \in BOOLEAN, x \in {"buf", "encoded"}}
    [] kind = "digits" ->
         {AddCommaMarks(Buf, ok) : ok \in BOOLEAN} \cup {Returns("ok", DecodeBase64(Buf)), Returns("ok", DecodeHex(Buf))}
    [] kind = "words" ->
         {SplitLines(Buf, columns, indent, ok) : columns \in 1 .. 3, indent \in {<<>>, <<9>>}, ok \in BOOLEAN}
         \cup {ReplaceString(Buf, s, r, ok) : s \in {<<97>>, <<97, 97>>}, r \in {<<>>, <<97, 98>>}, ok \in BOOLEAN}
         \cup {SubstituteString(Buf, b, s, r, ok) :
                 b \in {Empty, Two}, s \in {<<97>>, <<97, 97>>}, r \in {<<>>, <<97, 98>>}, ok \in BOOLEAN}
         \cup {Returns("ok", b) : b \in {Trim(Buf), ToLowcase(Buf), SwapChars(Buf, 97, 32),
                 RemoveDups(Buf, 97), RemoveDups(Buf, 32), RemoveString(Buf, <<97, 32>>)}}
    [] kind = "number" -> {AddFSize(b, number, ok) : b \in {Empty, Two}, ok \in BOOLEAN}
    [] kind = "message" -> {}

\* Nothing is written beyond what was reserved for it, every octet within the
\* length an operation sets was written, and the text ends with a Nul: the
\* count of what a text grows by, the memory taken and the octets written
\* agree for every text.
TextsFit ==
  \A r \in Results :
    /\ InBounds(r.buf) /\ Terminated(r.buf)
    /\ \A i \in 1 .. r.buf.len : r.buf.mem[i] # Junk

\* The texts without a character of more than one octet and without a Nul.
Plain == \A i \in DOMAIN text : text[i] \in 1 .. 191

\* What was encoded is decoded to what it was: URI escapes for every table,
\* base64 however much of it is decoded at a time, hexadecimal digits, and
\* numbers of both signs up to the ends of their width.
RoundTrips ==
  /\ kind = "uri" /\ Plain =>
       \A t \in {"uri", "uri_delims", "arg"} :
         Text(UnescapeUri(EscapeWithTable(Empty, Buf, t, TRUE).buf)) = text
  /\ kind = "octets" =>
       /\ Text(DecodeBase64(EncodeBase64(Buf, Empty, TRUE).buf)) = text
       /\ Text(DecodeHex(EncodeHex(Buf, Two, TRUE).buf)) = text
  /\ kind = "number" =>
       \A n \in {number % IntWord, -(number % IntWord), -(IntWord \div 2)} :
         LET txt == Long10(n, 2 * IntWord)
             abs == SelectSeq(txt, LAMBDA c : c # 45)
         IN  /\ (n < 0) = (txt[1] = 45)
             /\ FoldLeft(LAMBDA m, c : 10 * m + HexValue(c), 0, abs) = Magnitude(n)
             /\ FoldLeft(LAMBDA m, c : 256 * m + c, 0, BigEndian(Magnitude(n), 2)) = Magnitude(n)

\* What does not depend on how it is done: a comma every three digits from the
\* end; of octets that are repeated one is left; replacing is the same in place
\* and into another buffer; a text is as long in lines as it was, with a
\* newline for a space; characters are cut where the next one begins.
Defined ==
  /\ kind = "digits" =>
       LET n   == Len(text)
           txt == Text(AddCommaMarks(Buf, TRUE).buf)
       IN  /\ SelectSeq(txt, LAMBDA c : c # 44) = text
           /\ \A i \in DOMAIN txt : (txt[i] = 44) <=> (Len(txt) - i + 1) % 4 = 0
  /\ kind = "words" =>
       /\ Text(RemoveDups(Buf, 97)) =
            LET keep == SetToSortSeq({i \in DOMAIN text : i = 1 \/ text[i] # 97 \/ text[i - 1] # 97}, <)
            IN  [i \in DOMAIN keep |-> text[keep[i]]]
       /\ \A s \in {<<97>>, <<97, 97>>}, r \in {<<>>, <<97, 98>>} :
            Find(text, s, 1) # 0 => Text(SubstituteString(Buf, Two, s, r, TRUE).buf)
                                    = Text(ReplaceString(Buf, s, r, TRUE).buf)
       /\ Find(Text(RemoveString(Buf, <<97, 32>>)), <<97, 32>>, 1) = 0
       /\ \A columns \in 1 .. 3 :
            LET lines == Text(SplitLines(Buf, columns, <<>>, TRUE).buf)
            IN  Len(lines) = Len(text) /\ \A i \in DOMAIN text : lines[i] = text[i] \/ (text[i] = 32 /\ lines[i] = 10)
       /\ LET t == Text(Trim(Buf)) IN t = <<>> \/ {t[1], t[Len(t)]} \cap Blank = {}
       /\ \A b2 \in {Two, ToLowcase(Buf)} : CmpBuf(Buf, b2) = -CmpBuf(b2, Buf)
       /\ CaseCmpBuf(Buf, ToLowcase(Buf)) = 0
       /\ \A n \in 0 .. Len(text) : n + CntSpn(Buf, n, {97}) \in {Len(text)} \cup {i - 1 : i \in DOMAIN text}
  /\ kind = "uri" => FlatMap(LAMBDA c : c, CharsFrom(text, 1)) = text /\ Utf8Len(Buf) <= Len(text)
  /\ kind = "number" =>
       \A item \in Items :
         (item.conv \in {"o", "x"} => item.value >= 0)
         /\ (item.conv \in {"d", "o", "x"} => Signed(item.value, IntWord) = item.value)
         /\ (item.conv = "u" => item.value >= 0 \/ ~item.long)
         => PrintedLen(item) <= Estimate(item)

\* The digest of a message does not depend on the pieces it came in: the
\* blocks each hash has transformed are those of the message with its padding,
\* whatever the place of the last octet in its block and the carries of the
\* length.
DigestOfWhole ==
  LET n == LengthIn(text, CountWord)
      w == LengthIn(text, WideWord)
  IN  kind = "message" =>
        /\ MD5Final(hash.md5) = Padded(text, <<n.lo, n.hi>>)
        /\ ShaFinal(hash.sha1) = Padded(text, <<n.hi, n.lo>>)
        /\ SHA512Final(hash.sha512) = Padded(text, <<w.hi, w.lo>>)
=============================================================================
