------------------------------ MODULE JwtCodec ------------------------------
(***************************************************************************)
(* From the claims of a token to its payload and back: JwtService's own    *)
(* JSON writer and reader and its own Base64URL.  Texts are sequences of   *)
(* bytes, here those that either of the two treats in a way of its own.    *)
(* The signature covers the payload, so what is read back is what was      *)
(* signed.                                                                 *)
(***************************************************************************)
EXTENDS Integers, Sequences

CONSTANTS
    IntSpan,    \* how many values an int has: 2^32, or less for TLC
    Issuers,    \* jwt_issuer: any text of the configuration
    Subjects,   \* "access", "refresh"
    Uids        \* uuids and numbers

\* A power of two; twelve bits suffice.
ASSUME SpanAssumption == IntSpan \in Nat \ {0} /\ IntSpan % 4096 = 0

Byte == 0 .. 255
Quote == 34
Backslash == 92
Comma == 44
Colon == 58
Minus == 45
Open == 123
Close == 125
Newline == 10
Return == 13
Tab == 9
Backspace == 8
FormFeed == 12
IsDigit(c) == c \in 48 .. 57
IsSpace(c) == c = 32 \/ c \in 9 .. 13

\* The issuer is any text.  Subjects are letters, and neither of the two has
\* the letter that stands for the key of the issuer; uids are hexadecimal or
\* decimal digits and hyphens.
ASSUME TextsAssumption ==
    /\ Issuers \subseteq Seq(Byte)
    /\ Subjects \subseteq Seq((97 .. 122) \ {105})
    /\ Uids \subseteq Seq((48 .. 57) \cup (97 .. 102) \cup {Minus})

VARIABLES
    claims,   \* the claims to be signed, in the order of std::map
    payload,  \* the middle part of the token, digits of the Base64 alphabet
    read      \* what VerifyJwt reads; "none" before

jwtVars == <<claims, payload, read>>

-----------------------------------------------------------------------------
(* BuildJson.                                                              *)

\* The second byte of each escape that EscapeJsonString writes.
EscapeOf == [c \in {Quote, Backslash, Backspace, FormFeed, Newline, Return, Tab} |->
    CASE c \in {Quote, Backslash} -> c
      [] c = Backspace -> 98 [] c = FormFeed -> 102
      [] c = Newline -> 110  [] c = Return -> 114   [] c = Tab -> 116]

EscapeChar(c) == IF c \in DOMAIN EscapeOf THEN <<Backslash, EscapeOf[c]>> ELSE <<c>>

\* What is written after each byte.
JsonEscaped(s) ==
    LET e[n \in 0 .. Len(s)] == IF n = 0 THEN <<>> ELSE e[n - 1] \o EscapeChar(s[n]) IN e

EscapeJsonString(s) == JsonEscaped(s)[Len(s)]

Quoted(s) == <<Quote>> \o EscapeJsonString(s) \o <<Quote>>

\* What begins like a number is written without quotes.
IsNumber(v) == v # <<>> /\ (IsDigit(v[1]) \/ (v[1] = Minus /\ Len(v) > 1))

\* Faulty variant of JsonValue: strings are not escaped.
JsonValueRaw(v) == IF IsNumber(v) THEN v ELSE <<Quote>> \o v \o <<Quote>>

JsonValue(v) == IF IsNumber(v) THEN v ELSE Quoted(v)

\* What is written after each pair.
JsonPairs(pairs) ==
    LET j[n \in 0 .. Len(pairs)] ==
            IF n = 0 THEN <<Open>>
            ELSE j[n - 1] \o (IF n = 1 THEN <<>> ELSE <<Comma>>)
                 \o Quoted(pairs[n].key) \o <<Colon>> \o JsonValue(pairs[n].value)
    IN  j

BuildJson(pairs) == JsonPairs(pairs)[Len(pairs)] \o <<Close>>

-----------------------------------------------------------------------------
(* ParseJson, as the automaton that its cursor runs through.               *)

\* parse_string undoes five of the seven escapes.
Unescaped(c) == CASE c = 110 -> Newline [] c = 114 -> Return [] c = 116 -> Tab [] OTHER -> c

\* result[key] = value, unless the key is empty.
Store(st, mode) ==
    [st EXCEPT !.mode = mode, !.key = <<>>, !.value = <<>>,
               !.result = IF st.key = <<>> THEN @
                          ELSE [k \in DOMAIN @ \cup {st.key} |->
                                   IF k = st.key THEN st.value ELSE @[k]]]

ValueStep(st, c) ==
    CASE IsSpace(c) -> st
      [] c = Quote  -> [st EXCEPT !.mode = "string"]
      [] c = Comma  -> Store(st, "item")
      [] c = Close  -> Store(st, "end")
      [] OTHER      -> [st EXCEPT !.mode = "bare", !.value = <<c>>]

ParseStep(st, c) ==
    CASE st.mode = "begin" ->
            IF IsSpace(c) THEN st
            ELSE [st EXCEPT !.mode = IF c = Open THEN "item" ELSE "end"]
      [] st.mode = "item" ->
            (CASE IsSpace(c) \/ c = Comma -> st
               [] c = Close -> [st EXCEPT !.mode = "end"]
               [] c = Quote -> [st EXCEPT !.mode = "key"]
               [] c = Colon -> [st EXCEPT !.mode = "value"]
               [] OTHER     -> ValueStep(st, c))
      [] st.mode = "key" ->
            (CASE c = Backslash -> [st EXCEPT !.mode = "keyEscape"]
               [] c = Quote     -> [st EXCEPT !.mode = "colon"]
               [] OTHER         -> [st EXCEPT !.key = Append(@, c)])
      [] st.mode = "keyEscape" ->
            [st EXCEPT !.mode = "key", !.key = Append(@, Unescaped(c))]
      [] st.mode = "colon" ->
            IF c = Colon THEN [st EXCEPT !.mode = "value"] ELSE ValueStep(st, c)
      [] st.mode = "value" -> ValueStep(st, c)
      [] st.mode = "string" ->
            (CASE c = Backslash -> [st EXCEPT !.mode = "escape"]
               [] c = Quote     -> Store(st, "item")
               [] OTHER         -> [st EXCEPT !.value = Append(@, c)])
      [] st.mode = "escape" ->
            [st EXCEPT !.mode = "string", !.value = Append(@, Unescaped(c))]
      [] st.mode = "bare" ->
            (CASE IsSpace(c) -> st
               [] c = Comma -> Store(st, "item")
               [] c = Close -> Store(st, "end")
               [] OTHER     -> [st EXCEPT !.value = Append(@, c)])
      [] OTHER -> st

\* Where the cursor is after each byte.
Parsing(text) ==
    LET p[n \in 0 .. Len(text)] ==
            IF n = 0 THEN [mode |-> "begin", key |-> <<>>, value |-> <<>>, result |-> <<>>]
            ELSE ParseStep(p[n - 1], text[n])
    IN  p

\* A text that ends early leaves what there is; an escape without its second
\* byte stands for itself.
ParseJson(text) ==
    LET end == Parsing(text)[Len(text)] IN
    CASE end.mode = "keyEscape" -> Store([end EXCEPT !.key = Append(@, Backslash)], "end").result
      [] end.mode = "escape" -> Store([end EXCEPT !.value = Append(@, Backslash)], "end").result
      [] OTHER -> Store(end, "end").result

-----------------------------------------------------------------------------
(* Base64URL.  val is an int that is shifted on and on: the upper bits are *)
(* lost.  valb counts the bits that wait for output.                       *)

AsInt(x) == x % IntSpan

Bits(val, from, mask) == (val \div 2^from) % mask

\* The inner loop puts out as many groups of six bits as there are.
EncodeByte(st, c) ==
    LET val == AsInt(st.val * 256 + c)
        n == (st.valb + 8) \div 6 + 1 IN
    [val |-> val, valb |-> st.valb + 8 - 6 * n,
     out |-> st.out \o [k \in 1 .. n |-> Bits(val, st.valb + 8 - 6 * (k - 1), 64)]]

\* The loop after each byte.
Encoding(text) ==
    LET e[n \in 0 .. Len(text)] ==
            IF n = 0 THEN [val |-> 0, valb |-> -6, out |-> <<>>] ELSE EncodeByte(e[n - 1], text[n])
    IN  e

Base64UrlEncode(text) ==
    LET end == Encoding(text)[Len(text)] IN
    IF end.valb > -6
    THEN Append(end.out, Bits(AsInt(end.val * 256), end.valb + 8, 64))
    ELSE end.out

\* Faulty variant of DecodeDigit: nothing is put out before a byte is past.
DecodeDigitLate(st, d) ==
    LET val == AsInt(st.val * 64 + d)
        valb == st.valb + 6 IN
    IF valb > 0 THEN [val |-> val, valb |-> valb - 8, out |-> Append(st.out, Bits(val, valb, 256))]
    ELSE [val |-> val, valb |-> valb, out |-> st.out]

DecodeDigit(st, d) ==
    LET val == AsInt(st.val * 64 + d)
        valb == st.valb + 6 IN
    IF valb >= 0 THEN [val |-> val, valb |-> valb - 8, out |-> Append(st.out, Bits(val, valb, 256))]
    ELSE [val |-> val, valb |-> valb, out |-> st.out]

Decoding(digits) ==
    LET d[n \in 0 .. Len(digits)] ==
            IF n = 0 THEN [val |-> 0, valb |-> -8, out |-> <<>>] ELSE DecodeDigit(d[n - 1], digits[n])
    IN  d

Base64UrlDecode(digits) == Decoding(digits)[Len(digits)].out

-----------------------------------------------------------------------------
(* CreateJwt and VerifyJwt.                                                *)

\* GenerateAccessToken and GenerateRefreshToken, with a claim for each kind
\* of value; keys are letters here.
Claims(iss, sub, uid) ==
    <<[key |-> <<101>>, value |-> <<49, 55>>],  \* exp
      [key |-> <<105>>, value |-> iss],
      [key |-> <<115>>, value |-> sub],
      [key |-> <<117>>, value |-> uid]>>

JwtRest == claims = <<>> /\ payload = <<>> /\ read = <<>>

JwtInit ==
    /\ \E iss \in Issuers, sub \in Subjects, uid \in Uids : claims = Claims(iss, sub, uid)
    /\ payload = <<>>
    /\ read = <<>>

CreateJwt ==
    /\ claims # <<>> /\ payload = <<>>
    /\ payload' = Base64UrlEncode(BuildJson(claims))
    /\ UNCHANGED <<claims, read>>

VerifyJwt ==
    /\ payload # <<>> /\ read = <<>>
    /\ read' = ParseJson(Base64UrlDecode(payload))
    /\ UNCHANGED <<claims, payload>>

\* The checks of VerifyAccessToken and ParseRefreshToken: issuer and type
\* may be missing, the user may not.
Accepted(iss, sub) ==
    /\ <<105>> \in DOMAIN read => read[<<105>>] = iss
    /\ <<115>> \in DOMAIN read => read[<<115>>] = sub
    /\ <<117>> \in DOMAIN read /\ read[<<117>>] # <<>>

-----------------------------------------------------------------------------
(* Properties.                                                             *)

\* The bit at place k of a text, zero behind its end.
BitAt(text, k) ==
    IF k \div 8 < Len(text) THEN (text[k \div 8 + 1] \div 2^(7 - (k % 8))) % 2 ELSE 0

\* Reference: the text's bits, cut into groups of six.
Sextet(text, j) ==
    LET b(i) == BitAt(text, 6 * (j - 1) + i) IN
    32 * b(0) + 16 * b(1) + 8 * b(2) + 4 * b(3) + 2 * b(4) + b(5)

Sextets(text) == [j \in 1 .. (8 * Len(text) + 5) \div 6 |-> Sextet(text, j)]

\* Base64UrlEncode writes the bits of the payload in groups of six, however
\* often val has overflowed on the way, and Base64UrlDecode gets every byte
\* back.
PayloadIsBase64 ==
    payload # <<>> => /\ payload = Sextets(BuildJson(claims))
                      /\ Base64UrlDecode(payload) = BuildJson(claims)

\* Values that JSON as it is written and read here carries: no backspace or
\* form feed, and what begins like a number has nothing that ends one.
Plain(v) ==
    /\ IF IsNumber(v) THEN \A i \in DOMAIN v : v[i] \notin {Comma, Close} /\ ~IsSpace(v[i])
                      ELSE \A i \in DOMAIN v : v[i] \notin {Backspace, FormFeed}

Signed == [k \in {claims[i].key : i \in DOMAIN claims} |->
              claims[CHOOSE i \in DOMAIN claims : claims[i].key = k].value]

\* The service reads back the claims it signed, whatever quotes, escapes and
\* delimiters stand in them, if they are plain.  And a token whose issuer is
\* not plain is refused, never accepted with other claims than were signed.
ClaimsSurvive ==
    read # <<>> =>
        /\ (\A i \in DOMAIN claims : Plain(claims[i].value)) => read = Signed
        /\ (\E sub \in Subjects : Accepted(Signed[<<105>>], sub)) => read = Signed
=============================================================================
