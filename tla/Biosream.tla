------------------------------ MODULE Biosream ------------------------------
(***************************************************************************)
(* bostream and bistream, by which protocol heads, protocols and strings   *)
(* are laid out in bytes.  A stream is a record; an operation on a stream  *)
(* that has thrown does nothing.                                           *)
(***************************************************************************)
EXTENDS Integers, Sequences

\* What the codec depends on beside its input: the byte order of the host,
\* and the one the stream was made for.
IS_SAME_ENDIAN(bigendian, host) == bigendian = host

Reversed(s) == [i \in DOMAIN s |-> s[Len(s) + 1 - i]]

\* What a byte counts, the least first.  Values are below 2^31 here, so that
\* the others of a long are 0.
Weight == <<1, 256, 256 * 256, 256 * 256 * 256>>

\* The w bytes of v in memory.
Image(v, w, host) ==
    LET little == [i \in 1..w |-> IF i > 4 THEN 0 ELSE (v \div Weight[i]) % 256]
    IN  IF host THEN Reversed(little) ELSE little

Little(s) ==
    LET b(i) == IF i > Len(s) THEN 0 ELSE s[i] * Weight[i]
    IN  b(1) + b(2) + b(3) + b(4)
ValueOf(s, host) == Little(IF host THEN Reversed(s) ELSE s)

sizeof == [char |-> 1, short |-> 2, int |-> 4, long |-> 8]

-----------------------------------------------------------------------------
\* A stream that is attached to size bytes, and one to the bytes of s.
bostream(size, bigendian, host) ==
    [buf |-> <<>>, size |-> size, big |-> bigendian, host |-> host, thrown |-> "none"]
bistream(s, bigendian, host) ==
    [buf |-> s, curr |-> 0, big |-> bigendian, host |-> host, thrown |-> "none",
     got |-> <<>>]

write(bs, p) ==
    IF bs.thrown # "none" THEN bs
    ELSE IF bs.size - Len(bs.buf) < Len(p) THEN [bs EXCEPT !.thrown = "overflow"]
    ELSE [bs EXCEPT !.buf = @ \o p]

write_care_endian(bs, p) ==
    write(bs, IF IS_SAME_ENDIAN(bs.big, bs.host) THEN p ELSE Reversed(p))

avail(bs) == Len(bs.buf) - bs.curr

\* What is read is in got.  Reads that care for the byte order throw overflow
\* at the end of the stream, the others end.
readOr(bs, n, cause) ==
    IF bs.thrown # "none" THEN bs
    ELSE IF avail(bs) < n THEN [bs EXCEPT !.thrown = cause]
    ELSE [bs EXCEPT !.curr = @ + n, !.got = SubSeq(bs.buf, bs.curr + 1, bs.curr + n)]

read(bs, n) == readOr(bs, n, "end")

read_care_endian(bs, n) ==
    LET r == readOr(bs, n, "overflow")
    IN  IF r.thrown # "none" \/ IS_SAME_ENDIAN(bs.big, bs.host) THEN r
        ELSE [r EXCEPT !.got = Reversed(@)]

putInt(bs, v, type) ==
    IF type = "char" THEN write(bs, <<v>>)
    ELSE write_care_endian(bs, Image(v, sizeof[type], bs.host))

getInt(bs, type) ==
    IF type = "char" THEN read(bs, 1) ELSE read_care_endian(bs, sizeof[type])

\* The integer that was read.
Got(bs) == ValueOf(bs.got, bs.host)

-----------------------------------------------------------------------------
\* Mutant: a string of 255 bytes is taken for a short one.
ShortFormTo255(slen) == slen <= 255

\* A string whose length is written in one byte.
ShortForm(slen) == slen < 255

\* One whose length has two bytes of its own, and what stands there otherwise.
MiddleForm(slen) == slen < 65534
LongMark == 65535

\* The length of a string, in one of three forms.
putLength(bs, slen) ==
    IF ShortForm(slen) THEN putInt(bs, slen, "char")
    ELSE LET b == putInt(bs, 255, "char")
         IN  IF MiddleForm(slen) THEN putInt(b, slen, "short")
             ELSE putInt(putInt(b, LongMark, "short"), slen, "long")

putString(bs, s) == write(putLength(bs, Len(s)), s)

\* A string is read into memory of ssize bytes.  On one that is too long the
\* stream moves back over the number that said so, which for the longer forms
\* is not the beginning of the string.
BackBy(bs, n) == [bs EXCEPT !.curr = @ - n, !.thrown = "rangeerror"]

readBody(bs, type, ssize) ==
    IF bs.thrown # "none" THEN bs
    ELSE IF Got(bs) >= ssize THEN BackBy(bs, sizeof[type])
    ELSE read(bs, Got(bs))

readcstring(bs, ssize) ==
    LET b == getInt(bs, "char")
        w == getInt(b, "short")
    IN  IF b.thrown # "none" \/ Got(b) < 255 THEN readBody(b, "char", ssize)
        ELSE IF w.thrown # "none" \/ MiddleForm(Got(w)) THEN readBody(w, "short", ssize)
        ELSE readBody(getInt(w, "long"), "long", ssize)

\* ProtocolHead and Heartbeat, and GET_TEMPLATE_BUF, which writes the protocol
\* behind the room for the head and then the head with the length of both.
headSize == 4

putHead(bs, head) == putInt(putInt(bs, head.len, "short"), head.xyid, "short")
putHeartbeat(bs, timestamp) == putInt(bs, timestamp, "int")

AsShort(v) == v % 65536

heartbeatPackage(timestamp, host) ==
    LET xy == putHeartbeat(bostream(sizeof.int, FALSE, host), timestamp)
        head == putHead(bostream(headSize, FALSE, host),
                        [len |-> AsShort(Len(xy.buf)) + headSize, xyid |-> 1])
    IN  head.buf \o xy.buf

-----------------------------------------------------------------------------
Edges == {0, 1, 127, 128, 255, 256, 65533, 65535, 65536, 16777216, 2147483647}
InType(v, type) == (type = "char" => v < 256) /\ (type = "short" => v < 65536)

\* An integer comes back, and its bytes do not depend on the host, but on the
\* order that the stream was made for.
IntegersFollowed ==
    \A host, big \in BOOLEAN : \A type \in DOMAIN sizeof : \A v \in Edges :
        InType(v, type) =>
            LET b == putInt(bostream(sizeof[type], big, host), v, type)
            IN  /\ Got(getInt(bistream(b.buf, big, host), type)) = v
                /\ b.buf = Image(v, sizeof[type], big)

String(n) == [i \in 1..n |-> i % 7]
Written(n, big) == putString(bostream(n + 11, big, FALSE), String(n))
Lengths == {0, 1, 254, 255, 256}
StringLengths == Lengths \cup {65533, 65534, 65535, 65536}

\* Strings around the bounds of the three forms come back whole, to who has
\* room for them and to nobody else, and nothing is left in the stream.
StringsFollowed ==
    \A n \in StringLengths :
        LET b == bistream(Written(n, TRUE).buf, TRUE, FALSE)
            r == readcstring(b, n + 1)
        IN  /\ r.thrown = "none" /\ r.got = String(n) /\ avail(r) = 0
            /\ readcstring(b, n).thrown = "rangeerror"

\* A stream that ends too early, or a buffer that is too small, never passes
\* for a whole string; and a short string that found too little room can be
\* read again.
ShortStreamsFollowed ==
    \A n \in Lengths, big \in BOOLEAN :
        LET s == Written(n, big).buf
        IN  /\ \A k \in 0..(Len(s) - 1) :
                   /\ readcstring(bistream(SubSeq(s, 1, k), big, FALSE), n + 1).thrown
                         \in {"end", "overflow"}
                   /\ putString(bostream(k, big, FALSE), String(n)).thrown = "overflow"
            /\ ShortForm(n) =>
                   LET r == readcstring(bistream(s, big, FALSE), n)
                   IN  readcstring([r EXCEPT !.thrown = "none"], n + 1).got = String(n)

\* A heartbeat has the length its head says, and comes back.
PackagesFollowed ==
    \A host \in BOOLEAN : \A timestamp \in Edges :
        LET s == heartbeatPackage(timestamp, host)
            len == getInt(bistream(s, FALSE, host), "short")
            xyid == getInt(len, "short")
        IN  /\ Got(len) = Len(s)
            /\ Got(xyid) = 1
            /\ Got(getInt(xyid, "int")) = timestamp
=============================================================================
