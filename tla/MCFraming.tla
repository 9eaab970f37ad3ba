----------------------------- MODULE MCFraming -----------------------------
(* Framing for TLC, with the codec of heads, protocols and strings.        *)
EXTENDS Framing

B == INSTANCE Biosream

\* Whatever is written to a stream is read back from it: integers of every
\* width, in both orders and on hosts of both orders; strings of each of the
\* three forms of a length, up to and beyond the bounds between them; and a
\* stream that is cut off is never taken for a whole one (bostream, bistream,
\* GET_TEMPLATE_BUF).  The connection has no part in this: it is looked at
\* once, before the peer sends anything.
CodecExact ==
    (packs = <<>> /\ class = "ServerIOSocket") =>
        /\ B!IntegersFollowed
        /\ B!StringsFollowed
        /\ B!ShortStreamsFollowed
        /\ B!PackagesFollowed
=============================================================================
