----------------------------- MODULE HeaderWire -----------------------------
(***************************************************************************)
(* What travels between two users of libhpack: the encoder                 *)
(* (header_encoder.c) renders the fields of its store as literal           *)
(* representations with Huffman coded strings, and the decoder             *)
(* (parse_string and parse_header_pair of header_parser.c) reads           *)
(* them back, whole, cut short, or as somebody else has written them.      *)
(***************************************************************************)
EXTENDS IntegerCodec, HuffmanCodec

CONSTANTS
  Strings,      \* the names and values the user of the encoder adds
  MaxAdded,     \* bound: how many fields are added
  MaxRendered,  \* bound: how many octets there are when render is called
  Blocks,       \* header blocks of other encoders
  StringPrefix  \* 7: the bits of the length in its first octet

VARIABLES
  headers,      \* enc->store.headers
  output,       \* the buffer given to hpack_header_encoder_render
  sent,         \* history: the fields rendered into output
  buf, offset,  \* the buffer and the offset of hpack_header_parser_all
  emitted,      \* the store of the decoder
  result        \* what hpack_header_parser_all returned, or where it is

encoder == <<headers, output, sent>>
decoder == <<buf, offset, emitted, result>>
wvars   == <<encoder, decoder>>

-----------------------------------------------------------------------------
(* header_encoder.c *)

HuffmanFlag == 128

\* add_string
AddString(in, huffman) ==
  LET tmp == IF huffman THEN HuffmanEncode(in) ELSE in
  IN  EncodeInt(StringPrefix, IF huffman THEN HuffmanFlag ELSE 0, Len(tmp)) \o tmp

\* render_literal, as hpack_header_encoder_render calls it: neither indexed
\* nor never to be.
RenderLiteral(f) == <<0>> \o AddString(f.name, TRUE) \o AddString(f.value, TRUE)

WireInit ==
  /\ headers = <<>> /\ output = <<>> /\ sent = <<>>
  /\ buf = <<>> /\ offset = 0 /\ emitted = <<>> /\ result = "none"

\* hpack_header_encoder_add, with memory for the field.
EncoderAdd(f) ==
  /\ result = "none" /\ Len(headers) < MaxAdded
  /\ headers' = Append(headers, f)
  /\ UNCHANGED <<output, sent, decoder>>

\* hpack_header_encoder_render appends to the output, and leaves its store as
\* it is: the fields of one call are rendered again by the next.
Render ==
  /\ result = "none" /\ headers # <<>> /\ Len(output) < MaxRendered
  /\ output' = output \o FlattenSeq([i \in 1 .. Len(headers) |-> RenderLiteral(headers[i])])
  /\ sent' = sent \o headers
  /\ UNCHANGED <<headers, decoder>>

-----------------------------------------------------------------------------
(* The decoder.  Strings and fields that are not complete leave nothing     *)
(* behind.                                                                  *)

\* A user calls hpack_header_parser_all with b.
ParseBegin(b) ==
  /\ buf' = b /\ offset' = 0 /\ emitted' = <<>> /\ result' = "parsing"

\* The octets that have been rendered, or as many of them as have come.
Receive ==
  /\ result = "none" /\ output # <<>>
  /\ \E k \in 1 .. Len(output) : ParseBegin(SubSeq(output, 1, k))
  /\ UNCHANGED encoder

ReceiveOther ==
  /\ result = "none" /\ headers = <<>>
  /\ \E b \in Blocks : ParseBegin(b)
  /\ UNCHANGED encoder

\* Slip: what there is of a string is dropped, and nobody is told.
RestDropped(r) ==
  [ret |-> IF r = "eagain" THEN "ok" ELSE r, string |-> <<>>, next |-> Len(buf)]

\* A string that can't be read, or not yet.
NotAString(r) == [ret |-> r, string |-> <<>>, next |-> 0]

\* parse_string at offset n: the string, and the offset after it.  Behind the
\* last octet lies the terminator of the buffer.
ParseString(n) ==
  LET rest == Append(SubSeq(buf, n + 1, Len(buf)), 0)
      int  == DecodeInt(StringPrefix, rest, Len(buf) - n)
      end  == n + int.consumed + int.value
      raw  == SubSeq(buf, n + int.consumed + 1, end)
      text == HuffmanDecode(raw)
  IN  IF ~ int.ok THEN NotAString("error")
      ELSE IF Len(buf) < end THEN NotAString("eagain")
      ELSE IF rest[1] < HuffmanFlag THEN [ret |-> "ok", string |-> raw, next |-> end]
      ELSE IF ~ text.ok THEN NotAString("error")
      ELSE [ret |-> "ok", string |-> text.out, next |-> end]

\* The first octet announces a literal with a new name: parse_header_pair
\* looks at its last four bits only.
NewName(c) == c < 128 /\ c \div 32 # 1 /\ c % 16 = 0

\* A field is read: it is emitted unless it is empty.
ParsePair ==
  LET name  == ParseString(offset + 1)
      value == ParseString(name.next)
      f     == [name |-> name.string, value |-> value.string]
  IN  /\ result = "parsing" /\ offset < Len(buf)
      /\ NewName(buf[offset + 1])
      /\ IF name.ret # "ok" \/ value.ret # "ok"
           THEN /\ result' = IF name.ret # "ok" THEN name.ret ELSE value.ret
                /\ UNCHANGED <<offset, emitted>>
           ELSE /\ offset' = value.next
                /\ emitted' = IF f.name = <<>> /\ f.value = <<>>
                                THEN emitted ELSE Append(emitted, f)
                /\ UNCHANGED result
      /\ UNCHANGED <<encoder, buf>>

\* Another representation, which is not the subject here.
ParseOther ==
  /\ result = "parsing" /\ offset < Len(buf)
  /\ ~ NewName(buf[offset + 1])
  /\ result' = "other"
  /\ UNCHANGED <<encoder, buf, offset, emitted>>

\* No more data, and no references to emit.
ParseEnd ==
  /\ result = "parsing" /\ offset = Len(buf)
  /\ result' = "ok"
  /\ UNCHANGED <<encoder, buf, offset, emitted>>

\* Another block is written and read, by a new encoder and a new parser.
Again ==
  /\ result \notin {"none", "parsing"}
  /\ headers' = <<>> /\ output' = <<>> /\ sent' = <<>>
  /\ buf' = <<>> /\ offset' = 0 /\ emitted' = <<>> /\ result' = "none"

WireNext ==
  \/ \E name, value \in Strings : EncoderAdd([name |-> name, value |-> value])
  \/ Render \/ Receive \/ ReceiveOther
  \/ ParsePair \/ ParseOther \/ ParseEnd
  \/ Again

WireSpec == WireInit /\ [][WireNext]_wvars

-----------------------------------------------------------------------------
(* Correctness. *)

NotEmpty(f) == f.name # <<>> \/ f.value # <<>>

ToEmit(s) == SelectSeq(s, NotEmpty)

\* buf is what the encoder has written, or the beginning of it.
FromEncoder == result # "none" /\ output # <<>>

\* What has been rendered and comes whole is read back field by field, in
\* order, and nothing is refused on the way (render_literal against
\* parse_header_pair); only a field that is empty is lost.
SentIsReceived ==
  FromEncoder /\ buf = output =>
    /\ result \in {"parsing", "ok"}
    /\ result = "ok" => emitted = ToEmit(sent)

\* However much of it comes, nothing is emitted but what was sent, in order.
NothingMadeUp == FromEncoder => IsPrefix(emitted, ToEmit(sent))

\* The decoder takes no block for complete that is cut within a field
\* (parse_string, ret_eagain: "Try again when there's more data").
CutIsNoticed ==
  FromEncoder /\ result = "ok" =>
    \E k \in 0 .. Len(sent) :
      buf = FlattenSeq([i \in 1 .. k |-> RenderLiteral(sent[i])])

\* When octets are a string of HPACK.
IsString(octets, s) ==
  \E k \in 1 .. Len(octets) :
    LET raw == SubSeq(octets, k + 1, Len(octets))
    IN  /\ Represents(StringPrefix, SubSeq(octets, 1, k), Len(raw))
        /\ IF octets[1] >= HuffmanFlag THEN IsHuffmanOf(raw, s) ELSE raw = s

IsLiteral(octets, f) ==
  \E k \in 2 .. Len(octets) :
    /\ IsString(SubSeq(octets, 2, k), f.name)
    /\ IsString(SubSeq(octets, k + 1, Len(octets)), f.value)

\* Whoever wrote the octets, a field that is emitted is one that the octets
\* consumed represent by HPACK's definition of integers and strings, the
\* padding apart.
EmitsWhatIsWritten ==
  [][emitted' # emitted /\ result = "parsing" =>
       IsLiteral(SubSeq(buf, offset + 1, offset'), emitted'[Len(emitted')])]_wvars
=============================================================================
