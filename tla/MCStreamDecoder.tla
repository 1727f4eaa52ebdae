-------------------------- MODULE MCStreamDecoder --------------------------
(***************************************************************************)
(* Instances of StreamDecoder.                                             *)
(***************************************************************************)
EXTENDS StreamDecoder

Message(kind, size) == [kind |-> kind, size |-> size]

\* Packets up to the limit and over it, forwards of a header and more, an invalid message;
\* with prefixes of one byte and of two.
SomeMessages ==
    {Message("packet", n) : n \in {1, Limit, Limit + 2}}
        \cup {Message("forward", n) : n \in {HeaderSize, HeaderSize + 4}}
        \cup {Message("invalid", 2)}
=============================================================================
