------------------------------ MODULE Payload ------------------------------
(***************************************************************************)
(* From the bytes of a request body to the payload a handler sees: the     *)
(* body is read up to a limit and checked against x-amz-content-sha256,    *)
(* and an aws-chunked body is decoded on the way, chunk by chunk and       *)
(* trailer by trailer.  The client and the connection are part of the      *)
(* model: a body is what a client frames and signs, less what transport    *)
(* loses, repeats, swaps or cuts off.                                      *)
(*                                                                         *)
(* A body is a sequence of units: a payload byte, a CRLF, the text of a    *)
(* chunk header or of a trailer line.  A chunk signature is the term the   *)
(* HMAC is computed over, the chain of chunks up to and including its own, *)
(* and a checksum is the payload it was computed over: neither collides.   *)
(* Payload bytes are neither hex digits nor ':', ';' or blanks.            *)
(***************************************************************************)
EXTENDS Integers, SequencesExt

CONSTANTS
    Request,    \* what clients send (see RequestType)
    Byte,       \* payload bytes
    BodyLimit,  \* max_body_bytes, in units
    MaxFaults   \* how often transport interferes with one body

Signed    == {"STREAMING-SIGNED", "STREAMING-SIGNED-TRAILER"}
Streaming == Signed \cup {"STREAMING-UNSIGNED-TRAILER"}
Trailing  == {"STREAMING-SIGNED-TRAILER", "STREAMING-UNSIGNED-TRAILER"}
Mode      == Streaming \cup {"UNSIGNED-PAYLOAD", "SHA256", "STREAMING-OTHER", "JUNK"}

\* The codings of Content-Encoding.
Coding == {"aws-chunked", "gzip"}

RequestType ==
    [mode: Mode,
     chunks: Seq(Seq(Byte)),         \* the payload as the client splits it, no chunk empty
     checksum: BOOLEAN,              \* a trailing x-amz-checksum-crc32, in the modes that say so
     sealed: BOOLEAN,                \* and an x-amz-trailer-signature behind it
     length: BOOLEAN,                \* an x-amz-decoded-content-length header
     blank: BOOLEAN,                 \* the last CRLF is sent
     encoding: Seq(Coding)]          \* the Content-Encoding header

ASSUME PayloadAssumption ==
    /\ \A r \in Request : /\ r \in RequestType
                          /\ \A i \in DOMAIN r.chunks : r.chunks[i] # <<>>
                          /\ r.checksum => r.mode \in Trailing
                          /\ r.sealed => r.checksum /\ r.mode = "STREAMING-SIGNED-TRAILER"
    /\ BodyLimit \in Nat
    /\ MaxFaults \in Nat

VARIABLES
    request,   \* what the client meant to send
    faults,    \* what transport has done to the body so far
    body,      \* the units that arrive
    pc,        \* transit, chunk, trailer, payload, accepted, rejected
    pos,       \* units consumed
    prev,      \* the chain the next chunk signature continues
    payload,   \* the payload decoded so far
    trailers,  \* the trailer lines decoded so far
    delivered  \* what the handler gets, or the error code

inbound == <<request, faults, body>>
decoder == <<pos, prev, payload, trailers>>
payloadVars == <<inbound, pc, decoder, delivered>>

-----------------------------------------------------------------------------
(* The client *)

CRLF        == [kind |-> "crlf"]
Datum(b)    == [kind |-> "byte", byte |-> b]
Size(n, s)  == [kind |-> "size", n |-> n, signature |-> s]
Trailer(v)  == [kind |-> "trailer", of |-> v]
Seal        == [kind |-> "seal"]   \* the decoder returns it but does not verify it

Bytes(data) == [i \in DOMAIN data |-> Datum(data[i])]

Whole(r) == FlattenSeq(r.chunks)

\* Chunk i of the body, the empty one that ends it included.
ChunkAt(r, i) == IF i <= Len(r.chunks) THEN r.chunks[i] ELSE <<>>

\* The chain of chunks that the signature of chunk i covers.
Chain(r, i) == [j \in 1 .. i |-> Bytes(ChunkAt(r, j))]

Frame(r, i) ==
    <<Size(Len(ChunkAt(r, i)), IF r.mode \in Signed THEN Chain(r, i) ELSE <<>>), CRLF>>
        \o Bytes(ChunkAt(r, i)) \o (IF i <= Len(r.chunks) THEN <<CRLF>> ELSE <<>>)

Encoded(r) ==
    FlattenSeq([i \in 1 .. Len(r.chunks) + 1 |-> Frame(r, i)])
        \o (IF r.checksum THEN <<Trailer(Bytes(Whole(r))), CRLF>> ELSE <<>>)
        \o (IF r.sealed THEN <<Seal, CRLF>> ELSE <<>>)
        \o (IF r.blank THEN <<CRLF>> ELSE <<>>)

Sent(r) == IF r.mode \in Streaming THEN Encoded(r) ELSE Bytes(Whole(r))

-----------------------------------------------------------------------------
(* Lines *)

\* The units before the next CRLF, and the position after it; no CRLF, no line.
LineEnds(at) == {i \in at + 1 .. Len(body) : body[i] = CRLF}

HasLine(at) == LineEnds(at) # {}

LineEnd(at) == CHOOSE i \in LineEnds(at) : \A j \in LineEnds(at) : i <= j

BodyLine(at) == SubSeq(body, at + 1, LineEnd(at) - 1)

AfterLine(at) == LineEnd(at)

\* The unit of text that is not what it should be; nothing in a body is equal to it.
Garbled == <<[kind |-> "garbled"]>>

\* A chunk header starts with its size; without extensions it is nothing but hex digits.
IsHeader(line) ==
    /\ line # <<>> /\ line[1].kind = "size"
    /\ request.mode \notin Signed => \A i \in DOMAIN line : line[i].kind = "size"

\* Headers run together: digits make one number, a signature is no longer one.  Each header
\* after the first is taken to have one digit; with more the number is larger, and it is zero
\* in the same cases.
HeaderSize(line) ==
    IF request.mode \in Signed THEN line[1].n
    ELSE LET number[i \in 0 .. Len(line)] ==
                 IF i = 0 THEN 0 ELSE 16 * number[i - 1] + line[i].n
         IN  number[Len(line)]

HeaderSignature(line) == IF Len(line) = 1 THEN line[1].signature ELSE <<Garbled>>

\* A line has a ':' when a trailer is part of it; what runs into it spoils its name or value.
IsTrailer(line) == \E i \in DOMAIN line : line[i].kind \in {"trailer", "seal"}

TrailerOf(line) ==
    [checksum |-> line[1].kind = "trailer",
     of |-> IF Len(line) = 1 /\ line[1].kind = "trailer" THEN line[1].of ELSE Garbled]

-----------------------------------------------------------------------------
(* Deciding the request *)

Reject(code) ==
    /\ pc' = "rejected"
    /\ delivered' = [code |-> code, payload |-> <<>>, encoding |-> <<>>]

\* Mutant of Stripped: the header goes, with whatever else it names.
StrippedWhole(encoding) == <<>>

\* strip_aws_chunked_encoding.
Stripped(encoding) ==
    FlattenSeq([i \in DOMAIN encoding |->
                   IF encoding[i] = "aws-chunked" THEN <<>> ELSE <<encoding[i]>>])

Accept(data, encoding) ==
    /\ pc' = "accepted"
    /\ delivered' = [code |-> "Ok", payload |-> data, encoding |-> encoding]

\* read_body, then verify_payload's choice by x-amz-content-sha256.
ReadBody ==
    /\ pc = "transit"
    /\ IF Len(body) > BodyLimit THEN Reject("EntityTooLarge")
       ELSE CASE request.mode = "UNSIGNED-PAYLOAD" -> Accept(body, request.encoding)
              [] request.mode \in Streaming -> pc' = "chunk" /\ UNCHANGED delivered
              [] request.mode = "SHA256" ->
                    IF body = Bytes(Whole(request)) THEN Accept(body, request.encoding)
                    ELSE Reject("XAmzContentSHA256Mismatch")
              [] request.mode = "STREAMING-OTHER" -> Reject("NotImplemented")
              [] request.mode = "JUNK" -> Reject("InvalidRequest")
    /\ UNCHANGED <<inbound, decoder>>

\* chunk_string_to_sign: a signature covers the previous one and the chunk.
ChunkSignature(data) == Append(prev, data)

\* Mutant of SignatureFits: the chunk's hash is left out of the string to sign.
SignatureFitsChain(provided, data) ==
    request.mode \in Signed => Len(provided) = Len(prev) + 1 /\ SubSeq(provided, 1, Len(prev)) = prev

\* signature_matches, when there is a signer at all.
SignatureFits(provided, data) ==
    request.mode \in Signed => provided = ChunkSignature(data)

Followed(at) == at < Len(body) /\ body[at + 1] = CRLF

\* One round of decode_aws_chunked's loop: a header line, its data, the CRLF after it.
DecodeChunk ==
    /\ pc = "chunk"
    /\ IF ~HasLine(pos) \/ ~IsHeader(BodyLine(pos))
       THEN Reject("InvalidRequest") /\ UNCHANGED decoder
       ELSE LET size      == HeaderSize(BodyLine(pos))
                signature == HeaderSignature(BodyLine(pos))
                end       == AfterLine(pos) + size
                data      == SubSeq(body, AfterLine(pos) + 1, end)
            IN  IF end > Len(body) THEN Reject("InvalidRequest") /\ UNCHANGED decoder
                ELSE IF ~SignatureFits(signature, data)
                THEN Reject("SignatureDoesNotMatch") /\ UNCHANGED decoder
                ELSE IF size = 0
                THEN /\ pc' = "trailer"
                     /\ pos' = end
                     /\ prev' = signature
                     /\ UNCHANGED <<payload, trailers, delivered>>
                ELSE IF ~Followed(end) THEN Reject("InvalidRequest") /\ UNCHANGED decoder
                ELSE /\ payload' = payload \o data
                     /\ pos' = end + 1
                     /\ prev' = signature
                     /\ UNCHANGED <<pc, trailers, delivered>>
    /\ UNCHANGED inbound

\* The rest after the final chunk and its trailers: nothing, or one CRLF.
RestIsBlank(at) == at = Len(body) \/ SubSeq(body, at + 1, Len(body)) = <<CRLF>>

\* One round of the trailer loop; a blank line or the end of the lines leaves it.
DecodeTrailer ==
    /\ pc = "trailer"
    /\ IF HasLine(pos) /\ BodyLine(pos) # <<>>
       THEN IF request.mode \notin Trailing \/ ~IsTrailer(BodyLine(pos))
            THEN Reject("InvalidRequest") /\ UNCHANGED <<pos, trailers>>
            ELSE /\ trailers' = Append(trailers, TrailerOf(BodyLine(pos)))
                 /\ pos' = AfterLine(pos)
                 /\ UNCHANGED <<pc, delivered>>
       ELSE LET after == IF HasLine(pos) THEN AfterLine(pos) ELSE pos
            IN  /\ pos' = after
                /\ IF RestIsBlank(after) THEN pc' = "payload" /\ UNCHANGED delivered
                   ELSE Reject("InvalidRequest")
                /\ UNCHANGED trailers
    /\ UNCHANGED <<inbound, prev, payload>>

\* Where a trailer called x-amz-checksum-crc32 is; one of another name is not looked at.
Checksums == {i \in DOMAIN trailers : trailers[i].checksum}

\* DecodedChunked::trailer finds the first.
Checksum == trailers[Min(Checksums)].of

\* Mutant of verify_trailer_checksum: only the size of the payload counts.
verify_trailer_checksum_size ==
    IF Checksums # {} /\ Len(Checksum) # Len(payload) THEN "BadDigest" ELSE "Ok"

verify_trailer_checksum ==
    IF Checksums = {} THEN "Ok"
    ELSE IF Checksum = Garbled THEN "InvalidDigest"
    ELSE IF Checksum # payload THEN "BadDigest"
    ELSE "Ok"

VerifyPayload ==
    /\ pc = "payload"
    /\ IF verify_trailer_checksum # "Ok" THEN Reject(verify_trailer_checksum)
       ELSE IF request.length /\ Len(payload) # Len(Whole(request)) THEN Reject("InvalidRequest")
       ELSE Accept(payload, Stripped(request.encoding))
    /\ UNCHANGED <<inbound, decoder>>

-----------------------------------------------------------------------------
(* Transport *)

Without(i) == SubSeq(body, 1, i - 1) \o SubSeq(body, i + 1, Len(body))
Twice(i)   == SubSeq(body, 1, i) \o SubSeq(body, i, Len(body))
Swapped(i) == [body EXCEPT ![i] = body[i + 1], ![i + 1] = body[i]]
CutAt(i)   == SubSeq(body, 1, i - 1)
Altered(i, b) == [body EXCEPT ![i] = Datum(b)]

\* The body loses a unit, gets one twice or two in the wrong order, breaks off, or a byte changes.
Disturb ==
    /\ pc = "transit"
    /\ faults < MaxFaults
    /\ faults' = faults + 1
    /\ \E i \in 1 .. Len(body) :
          \/ body' = Without(i)
          \/ body' = Twice(i)
          \/ i < Len(body) /\ body' = Swapped(i)
          \/ body' = CutAt(i)
          \/ body[i].kind = "byte" /\ \E b \in Byte : body' = Altered(i, b)
    /\ UNCHANGED <<request, pc, decoder, delivered>>

\* The connection fails while the body is read.
ConnectionFails ==
    /\ pc = "transit"
    /\ faults < MaxFaults
    /\ faults' = faults + 1
    /\ Reject("InvalidRequest")
    /\ UNCHANGED <<request, body, decoder>>

PayloadInit ==
    /\ request \in Request
    /\ faults = 0
    /\ body = Sent(request)
    /\ pc = "transit"
    /\ pos = 0
    /\ prev = <<>>
    /\ payload = <<>>
    /\ trailers = <<>>
    /\ delivered = [code |-> "None", payload |-> <<>>, encoding |-> <<>>]

Decode == ReadBody \/ DecodeChunk \/ DecodeTrailer \/ VerifyPayload

PayloadNext == Decode \/ Disturb \/ ConnectionFails

-----------------------------------------------------------------------------
Accepted == pc = "accepted"
Decided  == pc \in {"accepted", "rejected"}

(***************************************************************************)
(* A signed body that is accepted carries exactly the payload the client   *)
(* signed, whatever happened to its frames: "every chunk (including the    *)
(* final empty one) must carry a chunk-signature that continues the chain" *)
(* (decode_aws_chunked), and a hashed body is the body that was hashed.    *)
(***************************************************************************)
SignedPayloadIntact ==
    Accepted /\ request.mode \in Signed \cup {"SHA256"}
        => delivered.payload = Bytes(Whole(request))

(***************************************************************************)
(* An unsigned body whose client sent a checksum is never accepted with    *)
(* another payload after a single fault: the framing, the trailer loop and *)
(* the checksum leave no unit of it unaccounted for.                       *)
(***************************************************************************)
ChecksumNoticesOneFault ==
    Accepted /\ request.mode \in Streaming /\ request.checksum /\ faults <= 1
        => delivered.payload = Bytes(Whole(request))

(***************************************************************************)
(* A body that arrives as it was sent is accepted, with or without its     *)
(* last CRLF ("some clients omit the CRLF"), and reaches the handler as    *)
(* the payload the client split up, under the encodings the client put     *)
(* beneath aws-chunked.  A trailer signature behind the checksum changes   *)
(* nothing ("returned as a trailer but not verified").                     *)
(***************************************************************************)
WellFormedDelivered ==
    Decided /\ faults = 0 /\ Len(body) <= BodyLimit
            /\ request.mode \notin {"STREAMING-OTHER", "JUNK"} =>
        /\ delivered.code = "Ok"
        /\ delivered.payload = Bytes(Whole(request))
        /\ "gzip" \in ToSet(request.encoding) => "gzip" \in ToSet(delivered.encoding)
        /\ request.mode \in Streaming => "aws-chunked" \notin ToSet(delivered.encoding)

=============================================================================
