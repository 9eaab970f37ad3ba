------------------------------- MODULE Base64 -------------------------------
(***************************************************************************)
(* EncodeBase64 and DecodeBase64, by which the websocket handshake writes  *)
(* its key.  A character is its value in myBase64Map: 0..63, or Pad.       *)
(***************************************************************************)
EXTENDS Integers, Sequences, FiniteSets

Pad == 254

\* The bytes after the end are 0.
Byte(src, i) == IF i <= Len(src) THEN src[i] ELSE 0

\* Mutant: the last two characters are those of a whole group.
LastCharsWhole(src) == 0

\* How many characters are '=': one, both for one and for two bytes left over.
LastChars(src) == IF Len(src) % 3 = 0 THEN 0 ELSE 1

EncodeBase64(src) ==
    LET groups == (Len(src) + 2) \div 3
        c(g, k) == Byte(src, 3 * g + k)
        Char(g, k) ==
            CASE k = 0 -> c(g, 1) \div 4
              [] k = 1 -> (c(g, 1) % 4) * 16 + c(g, 2) \div 16
              [] k = 2 -> (c(g, 2) % 16) * 4 + c(g, 3) \div 64
              [] OTHER -> c(g, 3) % 64
    IN  [i \in 1..(4 * groups) |->
            IF i > 4 * groups - LastChars(src) THEN Pad
            ELSE Char((i - 1) \div 4, (i - 1) % 4)]

\* Where the padding is.
Pads(src) == {i \in DOMAIN src : src[i] = Pad}

\* For whole groups of characters of the alphabet, with '=' at the end only.
DecodeBase64(src) ==
    LET dc == Cardinality(Pads(src))
        v(g, k) == LET ch == src[4 * g + k] IN IF ch = Pad THEN 0 ELSE ch
        ncode(g) == ((v(g, 1) * 64 + v(g, 2)) * 64 + v(g, 3)) * 64 + v(g, 4)
        B(g, k) == CASE k = 0 -> ncode(g) \div 65536
                     [] k = 1 -> (ncode(g) \div 256) % 256
                     [] OTHER -> ncode(g) % 256
        dropped == IF dc > 2 THEN 2 ELSE dc
    IN  [i \in 1..(3 * (Len(src) \div 4) - dropped) |->
            B((i - 1) \div 3, (i - 1) % 3)]

-----------------------------------------------------------------------------
\* The bytes at which the divisions differ.
EdgeBytes == {0, 3, 4, 15, 16, 63, 64, 192, 255}

\* What Base64Exact of MCWebSocket says.  A digest has 20 bytes, which leaves
\* two; what one byte left over becomes is not valid base64, and is decoded
\* with a byte too many.
Base64Followed ==
    \A k \in {2, 3, 5} : \A src \in [1..k -> EdgeBytes] :
        LET code == EncodeBase64(src)
        IN  /\ DecodeBase64(code) = src
            /\ Len(code) = 4 * ((k + 2) \div 3)
            /\ Cardinality(Pads(code)) = (3 - (k % 3)) % 3
=============================================================================
