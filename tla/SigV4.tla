------------------------------- MODULE SigV4 -------------------------------
(***************************************************************************)
(* AWS Signature Version 4, from what a client means to what a handler     *)
(* acts on.  A client signs its intent and spells it on the wire; a proxy  *)
(* or a fault changes something on the way; time passes; the middleware    *)
(* recomputes the signature from what arrived (verify), and the handlers   *)
(* decode what arrived once more, with code of their own (Args).  The      *)
(* wire may deliver the request again.                                     *)
(*                                                                         *)
(* A string is a sequence of characters, on the wire of tokens: a          *)
(* character as it is, or percent-escaped.  The HMAC and the hashes are    *)
(* the terms they are computed over.  Times are numbers, Day of them a     *)
(* day.  The body is Payload's.                                            *)
(***************************************************************************)
EXTENDS Integers, SequencesExt

CONSTANTS
    Intent,    \* what clients mean to send (see IntentType)
    Key,       \* the access key id, the components between its slashes
    Day,       \* times in a day
    MaxSkew    \* max_skew

Char    == {"a", "b", "/", " ", "+", "&", "=", "alg"}   \* "alg": X-Amz-Algorithm
String  == Seq(Char)
Header  == {"host", "type"}                             \* in their order
Line    == Seq({"u", "v", "blank"})                     \* words and runs of blanks
Field   == {"Credential", "SignedHeaders", "Signature", "bogus"}

Dates   == <<"day1", "day2", "day3", "day4">>

IntentType ==
    [method: {"GET", "PUT"}, bucket: Seq(Char \ {"/"}), key: String,
     pairs: Seq([name: String \ {<<"alg">>}, value: String]),
     host: Line, type: Seq(Line),
     http2: BOOLEAN,                  \* the host is the :authority
     dated: {"x-amz-date", "date"},   \* the header that carries the time
     signed: {<<"host">>, <<"host", "type">>}, hash: {"h", "i"}, time: Nat,
     travel: Nat]                     \* how long it may be on the wire; 0: it is there at once

\* What a client may mean: a bucket name has no slash, a query that names X-Amz-Algorithm
\* would be a presigned request, the signed headers are in order and there is a host, and
\* no header is signed that is not sent.  Times are in the days there are.
ASSUME SigV4Assumption ==
    /\ Intent \subseteq IntentType
    /\ Key \in Seq(STRING) /\ Key \notin {<<>>, <<"">>}
    /\ {Day, MaxSkew} \subseteq Nat /\ Day > 0
    /\ \A n \in Intent :
          /\ 1 + n.time \div Day \in DOMAIN Dates
          /\ n.signed = <<"host", "type">> => n.type # <<>>

VARIABLES
    intent,     \* what the client meant
    wire,       \* the request as it arrives
    touched,    \* the wire has changed it
    now,        \* the server's clock
    account,    \* the user behind Key: active, suspended, inactive (its key), gone
    step,       \* of verify: sent, lookup, check, accepted, or an error code
    accepted    \* when the server accepted the request

sigVars == <<intent, wire, touched, now, account, step, accepted>>

UnderWay == step \in {"sent", "lookup"}

-----------------------------------------------------------------------------
(* Encodings *)

Raw(c) == [esc |-> FALSE, c |-> c]
Esc(c) == [esc |-> TRUE, c |-> c]
WireToken  == [esc: BOOLEAN, c: Char]

Unreserved == {"a", "b", "alg"}

\* percent_decode_str.
Decoded(tokens) == [i \in DOMAIN tokens |-> tokens[i].c]

uri_encode(chars, encode_slash) ==
    [i \in DOMAIN chars |->
        IF chars[i] \in Unreserved \/ (chars[i] = "/" /\ ~encode_slash)
        THEN Raw(chars[i]) ELSE Esc(chars[i])]

uri_recode(tokens, encode_slash) == uri_encode(Decoded(tokens), encode_slash)

\* query.replace('+', "%20") in sigv4, replace('+', " ") in args: a raw plus is a space.
PlusIsSpace(tokens) == [i \in DOMAIN tokens |-> IF tokens[i] = Raw("+") THEN Esc(" ") ELSE tokens[i]]

\* str::split: a token ends a part or belongs to the last one.
Split(tokens, sep) ==
    LET split[i \in 0 .. Len(tokens)] ==
            IF i = 0 THEN <<<<>>>>
            ELSE LET parts == split[i - 1]
                 IN  IF tokens[i] = sep THEN Append(parts, <<>>)
                     ELSE [parts EXCEPT ![Len(parts)] = Append(@, tokens[i])]
    IN  split[Len(tokens)]

\* split('&'), no empty parts, split_once('=').
SplitPair(part) ==
    LET at == CHOOSE i \in 1 .. Len(part) + 1 :
                 /\ i = Len(part) + 1 \/ part[i] = Raw("=")
                 /\ \A j \in 1 .. i - 1 : part[j] # Raw("=")
    IN  [name |-> SubSeq(part, 1, at - 1), value |-> SubSeq(part, at + 1, Len(part))]

SplitPairs(query) ==
    LET parts == Split(query, Raw("&"))
    IN  FlattenSeq([i \in DOMAIN parts |->
            IF parts[i] = <<>> THEN <<>> ELSE <<SplitPair(parts[i])>>])

\* The order of encoded strings: '%' comes before every unreserved character.
Rank(token) ==
    (IF token.esc THEN 0 ELSE 10)
        + CHOOSE i \in 1 .. 8 : <<" ", "&", "+", "/", "=", "alg", "a", "b">>[i] = token.c

Before(s, t) ==
    \E i \in 1 .. Len(s) + 1 :
        /\ \A j \in 1 .. i - 1 : j <= Len(t) /\ s[j] = t[j]
        /\ i <= Len(t)
        /\ i = Len(s) + 1 \/ Rank(s[i]) < Rank(t[i])

PairBefore(p, q) == Before(p.name, q.name) \/ (p.name = q.name /\ Before(p.value, q.value))

\* A pair put behind those it does not come before.
Placed(pair, sorted) ==
    LET n == Cardinality({i \in DOMAIN sorted : ~PairBefore(pair, sorted[i])})
    IN  [i \in 1 .. Len(sorted) + 1 |->
            IF i <= n THEN sorted[i] ELSE IF i = n + 1 THEN pair ELSE sorted[i - 1]]

\* pairs.sort()
Sorted(pairs) ==
    LET sorted[i \in 0 .. Len(pairs)] ==
            IF i = 0 THEN <<>> ELSE Placed(pairs[i], sorted[i - 1])
    IN  sorted[Len(pairs)]

Join(parts) ==
    FlattenSeq([i \in DOMAIN parts |-> (IF i > 1 THEN <<Raw("&")>> ELSE <<>>) \o parts[i]])

\* The loop that joins the sorted pairs.
Joined(pairs) ==
    LET sorted == Sorted(pairs)
    IN  Join([i \in DOMAIN sorted |-> sorted[i].name \o <<Raw("=")>> \o sorted[i].value])

canonical_query(query) ==
    LET pairs == SplitPairs(PlusIsSpace(query))
    IN  Joined([i \in DOMAIN pairs |-> [name |-> uri_recode(pairs[i].name, TRUE),
                                        value |-> uri_recode(pairs[i].value, TRUE)]])

canonical_uri(path) == uri_recode(path, FALSE)

\* collapse_whitespace and join(","): the lines of a header, blanks apart.
Collapsed(lines) ==
    [i \in DOMAIN lines |-> SelectSeq(lines[i], LAMBDA word : word # "blank")]

\* The lines of a signed header; the authority stands in for a missing host.
HeaderLines(w, h) ==
    IF w.headers[h] = <<>> /\ h = "host" THEN w.authority ELSE w.headers[h]

canonical_headers(w) ==
    FlattenSeq([i \in DOMAIN w.signed |->
        LET lines == HeaderLines(w, w.signed[i])
        IN  IF lines = <<>> THEN <<>> ELSE <<<<w.signed[i], Collapsed(lines)>>>>])

canonical_request(w) ==
    [method |-> w.method, uri |-> canonical_uri(w.path), query |-> canonical_query(w.query),
     headers |-> canonical_headers(w), signed |-> w.signed, hash |-> w.hash]

\* Mutant of Signature: the string to sign leaves the time to the scope.
SignatureUndated(key, scope, time, creq) ==
    [key |-> key, scope |-> scope, time |-> 0, creq |-> creq]

\* signing_key, string_to_sign and signature: one term.  The scope is in both.
Signature(key, scope, time, creq) ==
    [key |-> key, scope |-> scope, time |-> time, creq |-> creq]

-----------------------------------------------------------------------------
(* The client *)

DayOf(time) == Dates[1 + time \div Day]
Scope(time) == <<DayOf(time), "region", "s3", "aws4_request">>

\* A header that is not there, and one that is no date.
NoDate == -1
BadDate == -2

Path(n) == n.bucket \o <<"/">> \o n.key

\* What a client signs is its intent, encoded once.
SignedTerm(n) ==
    Signature(Key, Scope(n.time), n.time,
        [method |-> n.method, uri |-> uri_encode(Path(n), FALSE),
         query |-> Joined([i \in DOMAIN n.pairs |->
                              [name |-> uri_encode(n.pairs[i].name, TRUE),
                               value |-> uri_encode(n.pairs[i].value, TRUE)]]),
         headers |-> [i \in DOMAIN n.signed |->
                        <<n.signed[i],
                          Collapsed(IF n.signed[i] = "host" THEN <<n.host>> ELSE n.type)>>],
         signed |-> n.signed, hash |-> n.hash])

\* The ways to write characters of which those in `special` mean something else unescaped.
Spellings(chars, special) ==
    {tokens \in [DOMAIN chars -> WireToken] :
        \A i \in DOMAIN chars :
            /\ tokens[i].c = chars[i]
            /\ chars[i] \in special \cup {" "} => tokens[i].esc}

\* In a query, a space may be a plus.
QuerySpellings(chars, special) ==
    Spellings(chars, special)
        \cup {[i \in DOMAIN chars |-> IF chars[i] = " " THEN Raw("+") ELSE tokens[i]] :
                tokens \in Spellings(chars, special)}

PairSpellings(pair) ==
    {n \o <<Raw("=")>> \o v : n \in QuerySpellings(pair.name, {"&", "=", "+"}),
                               v \in QuerySpellings(pair.value, {"&", "+"})}
        \cup (IF pair.value = <<>> /\ pair.name # <<>>   \* a bare name
              THEN QuerySpellings(pair.name, {"&", "=", "+"}) ELSE {})

Queries(n) ==
    LET spelled == UNION {PairSpellings(n.pairs[i]) : i \in DOMAIN n.pairs}
    IN  {Join(parts) : parts \in {p \in [DOMAIN n.pairs -> spelled] :
                                     \A i \in DOMAIN p : p[i] \in PairSpellings(n.pairs[i])}}

Paths(n) ==
    {b \o <<Raw("/")>> \o k : b \in Spellings(n.bucket, {}), k \in Spellings(n.key, {})}

Wires(n) ==
    [method: {n.method}, path: Paths(n),
     query: Queries(n),
     headers: {[h \in Header |-> IF h = "type" THEN n.type
                                 ELSE IF n.http2 THEN <<>> ELSE <<n.host>>]},
     authority: {IF n.http2 THEN <<n.host>> ELSE <<>>},
     amz_date: {IF n.dated = "x-amz-date" THEN n.time ELSE NoDate}, date: {n.time},
     hash: {n.hash}, scheme: {"AWS4-HMAC-SHA256"},
     fields: {<<"Credential", "SignedHeaders", "Signature">>},
     credential: {Key \o Scope(n.time)},
     signed: {n.signed}, signature: {SignedTerm(n)}]

-----------------------------------------------------------------------------
(* The server: verify *)

\* parse_authorization: each of the three fields once.
FieldsOK(fields) ==
    /\ ToSet(fields) = Field \ {"bogus"}
    /\ Len(fields) = 3

\* The access key id is everything before the last four components.
KeyOf(w)   == SubSeq(w.credential, 1, Len(w.credential) - 4)
ScopeOf(w) == SubSeq(w.credential, Len(w.credential) - 3, Len(w.credential))

CredentialOK(w) ==
    /\ Len(w.credential) >= 5
    /\ KeyOf(w) # <<"">>
    /\ ScopeOf(w)[1] \in ToSet(Dates)
    /\ ScopeOf(w)[3] = "s3"
    /\ ScopeOf(w)[4] = "aws4_request"

SignedHeadersOK(signed) ==
    /\ signed # <<>>
    /\ \A i \in 1 .. Len(signed) - 1 : signed[i] = "host" /\ signed[i + 1] = "type"
    /\ "host" \in ToSet(signed)

\* has_query_param: a presigned request.
Presigned(query) ==
    LET parts == Split(query, Raw("&"))
    IN  \E i \in DOMAIN parts : Decoded(SplitPair(parts[i]).name) = <<"alg">>

TimeOf(w) == IF w.amz_date # NoDate THEN w.amz_date ELSE w.date

Apart(s, t) == IF s > t THEN s - t ELSE t - s

\* Mutant of request_time: the scope must name the server's day.
request_time_server_day(w) ==
    IF TimeOf(w) < 0 THEN "AccessDenied"
    ELSE IF DayOf(now) # ScopeOf(w)[1] THEN "AuthorizationHeaderMalformed"
    ELSE IF Apart(now, TimeOf(w)) > MaxSkew THEN "RequestTimeTooSkewed"
    ELSE "Ok"

request_time(w) ==
    IF TimeOf(w) < 0 THEN "AccessDenied"
    ELSE IF DayOf(TimeOf(w)) # ScopeOf(w)[1] THEN "AuthorizationHeaderMalformed"
    ELSE IF Apart(now, TimeOf(w)) > MaxSkew THEN "RequestTimeTooSkewed"
    ELSE "Ok"

\* verify, up to the driver call.
Receive ==
    /\ step = "sent"
    /\ step' = IF Presigned(wire.query) \/ wire.scheme = "AWS" THEN "NotImplemented"
               ELSE IF wire.scheme # "AWS4-HMAC-SHA256" \/ ~FieldsOK(wire.fields)
                       \/ ~CredentialOK(wire) \/ ~SignedHeadersOK(wire.signed)
               THEN "AuthorizationHeaderMalformed"
               ELSE IF request_time(wire) # "Ok" THEN request_time(wire)
               ELSE "lookup"
    /\ UNCHANGED <<intent, wire, touched, now, account, accepted>>

\* load_user_by_access_key, and the rest of verify up to the body.
Verify ==
    /\ step = "lookup"
    /\ step' = IF KeyOf(wire) # Key \/ account \in {"gone", "inactive"} THEN "InvalidAccessKeyId"
               ELSE IF account = "suspended" THEN "UserSuspended"
               ELSE IF wire.hash = "none" THEN "InvalidRequest"
               ELSE IF wire.signature # Signature(Key, ScopeOf(wire), TimeOf(wire),
                                                  canonical_request(wire))
               THEN "SignatureDoesNotMatch"
               ELSE "accepted"
    /\ accepted' = IF step' = "accepted" THEN accepted \cup {now} ELSE accepted
    /\ UNCHANGED <<intent, wire, touched, now, account>>

-----------------------------------------------------------------------------
(* The handlers' reading *)

\* Mutant of Args: a plus is a plus.
ArgsPlus(query) ==
    LET pairs == SplitPairs(query)
    IN  [i \in DOMAIN pairs |-> [name |-> Decoded(pairs[i].name), value |-> Decoded(pairs[i].value)]]

\* Args::parse, decode: the pairs in the order of the request.
Args(query) ==
    LET pairs == SplitPairs(PlusIsSpace(query))
    IN  [i \in DOMAIN pairs |-> [name |-> Decoded(pairs[i].name), value |-> Decoded(pairs[i].value)]]

\* The routes /{bucket} and /{bucket}/{*key}: split as written, then decoded.
Route(path) ==
    LET slashes == {i \in DOMAIN path : path[i] = Raw("/")}
        at == IF slashes = {} THEN Len(path) + 1
              ELSE CHOOSE i \in slashes : \A j \in slashes : i <= j
    IN  [bucket |-> Decoded(SubSeq(path, 1, at - 1)),
         key |-> Decoded(SubSeq(path, at + 1, Len(path)))]

-----------------------------------------------------------------------------
(* The wire *)

\* One token of a string lost, added or replaced.
Edits(tokens) ==
    {RemoveAt(tokens, i) : i \in DOMAIN tokens}
        \cup {InsertAt(tokens, i, t) : i \in 1 .. Len(tokens) + 1, t \in WireToken}
        \cup {ReplaceAt(tokens, i, t) : i \in DOMAIN tokens, t \in WireToken}

Lines == {<<>>, <<"u">>, <<"v">>, <<"blank", "u">>, <<"u", "blank", "v">>}

Tamper ==
    /\ step = "sent"
    /\ ~touched
    /\ touched' = TRUE
    /\ \/ \E path \in Edits(wire.path) : wire' = [wire EXCEPT !.path = path]
       \/ \E query \in Edits(wire.query) : wire' = [wire EXCEPT !.query = query]
       \/ \E m \in {"GET", "PUT"} : wire' = [wire EXCEPT !.method = m]
       \/ \E h \in Header, lines \in {<<>>} \cup {<<l>> : l \in Lines} \cup (Lines \X Lines) :
             wire' = [wire EXCEPT !.headers[h] = lines]
       \/ \E t \in {NoDate, BadDate} \cup 0 .. intent.travel :
             \/ wire' = [wire EXCEPT !.amz_date = t]
             \/ wire' = [wire EXCEPT !.date = t]
       \/ \E h \in {"h", "i", "none"} : wire' = [wire EXCEPT !.hash = h]
       \/ \E scheme \in {"AWS", "Basic"} : wire' = [wire EXCEPT !.scheme = scheme]
       \/ \E i \in DOMAIN wire.fields, f \in Field : wire' = [wire EXCEPT !.fields[i] = f]
       \/ \E i \in DOMAIN wire.credential :
             \/ wire' = [wire EXCEPT !.credential = RemoveAt(@, i)]
             \/ \E c \in ToSet(Dates) \cup {""} : wire' = [wire EXCEPT !.credential[i] = c]
       \/ \E signed \in {<<>>, <<"host">>, <<"type">>, <<"host", "type">>, <<"type", "host">>} :
             wire' = [wire EXCEPT !.signed = signed]
    /\ UNCHANGED <<intent, now, account, step, accepted>>

\* The same request arrives once more.
Redeliver ==
    /\ ~UnderWay
    /\ intent.travel > 0
    /\ step' = "sent"
    /\ UNCHANGED <<intent, wire, touched, now, account, accepted>>

\* Time passes; a driver call takes none to speak of.
Tick ==
    /\ step # "lookup"
    /\ now < intent.travel
    /\ now' = now + 1
    /\ UNCHANGED <<intent, wire, touched, account, step, accepted>>

\* Meanwhile an administrator suspends the user, removes it, or makes the key inactive.
Revoke ==
    /\ account = "active"
    /\ intent.travel > 0
    /\ account' \in {"suspended", "inactive", "gone"}
    /\ UNCHANGED <<intent, wire, touched, now, step, accepted>>

SigInit ==
    /\ intent \in Intent
    /\ wire \in Wires(intent)
    /\ touched = FALSE
    /\ now = 0
    /\ account = "active"
    /\ step = "sent"
    /\ accepted = {}

SigNext == Receive \/ Verify \/ Tamper \/ Redeliver \/ Tick \/ Revoke

-----------------------------------------------------------------------------
SameBag(s, t) ==
    \A x \in ToSet(s) \cup ToSet(t) :
        Cardinality({i \in DOMAIN s : s[i] = x}) = Cardinality({i \in DOMAIN t : t[i] = x})

(***************************************************************************)
(* What an accepted request makes the handlers do is what its client       *)
(* signed, whatever a single change on the way did to it: the method, the  *)
(* bucket and key, the query parameters, the signed headers, the payload   *)
(* hash.  Two pieces of code decode the query, canonical_query and Args,   *)
(* and must not disagree about any spelling.  An escaped slash signs like  *)
(* a plain one, but can only lead to a bucket no one can have created.     *)
(***************************************************************************)
HandledAsSigned ==
    step = "accepted" =>
        /\ wire.method = intent.method
        /\ \/ Route(wire.path) = [bucket |-> intent.bucket, key |-> intent.key]
           \/ "/" \in ToSet(Route(wire.path).bucket)
        /\ SameBag(Args(wire.query), intent.pairs)
        /\ wire.hash = intent.hash
        /\ \A h \in ToSet(intent.signed) :
              Collapsed(HeaderLines(wire, h)) = Collapsed(IF h = "host" THEN <<intent.host>>
                                                          ELSE intent.type)

(***************************************************************************)
(* Every spelling of an intent is accepted as it was signed: a plus or     *)
(* %20, a bare name or an empty value, needless escapes, x-amz-date or     *)
(* Date, Host or :authority; a request signed before midnight is good      *)
(* after it.  Only a revoked key or a clock out of bounds turns an         *)
(* unchanged request away.                                                 *)
(***************************************************************************)
SpellingsAccepted ==
    [][~touched /\ UnderWay /\ ~UnderWay' /\ step' # "accepted"
          => account # "active" \/ MaxSkew < Apart(now, intent.time)]_sigVars

(***************************************************************************)
(* A request that is delivered again, even with another date in it, is     *)
(* accepted only while the time it was signed at is within max_skew of the *)
(* server's clock.                                                         *)
(***************************************************************************)
ReplayWindow ==
    \A t \in accepted : Apart(t, intent.time) <= MaxSkew

=============================================================================
