------------------------------- MODULE MCText -------------------------------
(* Kinds of text with the octets that matter to each. *)
EXTENDS TextClient

MCKinds == {"uri", "html", "octets", "digits", "words", "number", "message"}

\* % 4 a space and a character of two octets; an entity of each length and a
\* Nul; a digit; blanks, an upper and two lower case letters.
MCOctets(k) ==
  CASE k = "uri" -> {37, 52, 32, 195, 169}
    [] k = "html" -> {97, 60, 38, 34, 47, 0}
    [] k = "octets" -> {1, 77, 0, 255}
    [] k = "digits" -> {49, 50}
    [] k = "words" -> {32, 65, 97}
    [] OTHER -> {}

MCMaxLen(k) ==
  CASE k \in {"uri", "html", "octets"} -> 5 [] k = "digits" -> 7 [] k = "words" -> 7
    [] k = "message" -> 9 * Block [] OTHER -> 0

MCSizes == {0, 9, 127, 128, 255, 972, 973, 1023, 1024, 9215, 9216, 10188, 10189, 10239, 10240,
            996351, 996352, 1048575, 1048576, 1073741824, 2147483647}

Values == {0, 1, 9, 10, 15, 16, 99, 100, 127, 128, 255, 256, 300}

MCItems ==
  [conv : {"d", "u", "o", "x"}, long : BOOLEAN, width : {0, 1, 6}, value : Values \cup {-1, -10, -128}]
    \cup [conv : {"s", "c"}, long : {FALSE}, width : {0, 1, 6}, value : {0, 1, 7}]
=============================================================================
