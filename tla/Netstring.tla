------------------------------ MODULE Netstring ------------------------------
(***************************************************************************)
(* The codec of the control connection: internal/sipcontroller/netstring.go.*)
(* Bytes are the digits, two delimiters and one letter; a chunk is what one *)
(* Read returns.  The signs strconv.Atoi takes are left out.                *)
(***************************************************************************)
EXTENDS Naturals, Sequences, SequencesExt

Digits == 0 .. 9
Colon  == 10
Comma  == 11
Letter == 12

\* The decimal numeral of n, and the number a numeral stands for.
Numeral[n \in Nat] == IF n < 10 THEN <<n>> ELSE Append(Numeral[n \div 10], n % 10)
NumberOf(ds) == FoldLeft(LAMBDA n, d : 10 * n + d, 0, ds)

Encode(payload) == Numeral[Len(payload)] \o <<Colon>> \o payload \o <<Comma>>

\* The first netstring of a buffer and what is left, if there is a complete one.
NoFrame == [ok |-> FALSE]
TryParse(buffer) ==
    IF Len(buffer) < 3 \/ ~Contains(buffer, Colon) THEN NoFrame
    ELSE LET colon  == SelectInSeq(buffer, LAMBDA b : b = Colon)
             header == SubSeq(buffer, 1, colon - 1)
             total  == colon + NumberOf(header) + 1
         IN  IF header = <<>> \/ ~(ToSet(header) \subseteq Digits) THEN NoFrame
             ELSE IF Len(buffer) < total \/ buffer[total] # Comma THEN NoFrame
             ELSE [ok |-> TRUE, payload |-> SubSeq(buffer, colon + 1, total - 1),
                   remaining |-> SubSeq(buffer, total + 1, Len(buffer))]

\* Decode, called until it needs another chunk: at most one netstring per byte is there.
Decode(buffer) ==
    LET step(d, i) == LET p == TryParse(d.buffer) IN
                      IF p.ok THEN [buffer |-> p.remaining, out |-> Append(d.out, p.payload)]
                      ELSE d
    IN  FoldLeft(step, [buffer |-> buffer, out |-> <<>>], buffer)

\* readLoop over a stream that comes in chunks.
DecodeStream(chunks) ==
    LET step(d, chunk) == LET e == Decode(d.buffer \o chunk) IN
                          [buffer |-> e.buffer, out |-> d.out \o e.out]
    IN  FoldLeft(step, [buffer |-> <<>>, out |-> <<>>], chunks)
-----------------------------------------------------------------------------
Payloads == BoundedSeq({1, Colon, Comma, Letter}, 2)

\* However a stream is cut: in two, at any byte, or at every byte.
Cuts(s) == {<<SubSeq(s, 1, i), SubSeq(s, i + 1, Len(s))>> : i \in 0 .. Len(s)}
               \cup {[i \in DOMAIN s |-> <<s[i]>>]}

\* netstring.go:21 to 114: what is decoded is what was encoded, whatever the payloads hold
\* and however Read cuts the stream.
ASSUME RoundTrip ==
    \A p, q \in Payloads \cup {[i \in 1 .. 12 |-> Letter]} :
        \A chunks \in Cuts(Encode(p) \o Encode(q)) :
            DecodeStream(chunks) = [buffer |-> <<>>, out |-> <<p, q>>]

\* netstring.go:88 and 102: bytes that are no netstring are never skipped, whatever follows:
\* the reader that has read them is stuck.
ASSUME NothingAfterGarbage ==
    \A bad \in {<<Letter, Letter, Colon>>, <<1, Colon, Letter, Letter>>} : \A p \in Payloads :
        DecodeStream(<<bad, Encode(p)>>).out = <<>>
=============================================================================
