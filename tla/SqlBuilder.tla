----------------------------- MODULE SqlBuilder -----------------------------
(***************************************************************************)
(* MySQLConnection::BuildSQL: parameters are written into the text of the  *)
(* statement on the client's side.  Texts are sequences of bytes.  What    *)
(* the server reads in the finished text is modelled as MySQL's lexer      *)
(* does, as far as string literals go.                                     *)
(***************************************************************************)
EXTENDS Integers, Sequences, FiniteSets

CONSTANTS
    Templates,  \* texts with placeholders
    Params,     \* [kind, value]: values of Param, numbers as their digits
    MaxParams   \* bound: parameters of a call

Bytes == 0 .. 255
Placeholder == 63
Apostrophe == 39
Escaper == 92
NullText == <<78, 85, 76, 76>>

\* No repository writes a literal into its statements, and no number has an
\* apostrophe.
ASSUME TemplatesAssumption == Templates \subseteq Seq(Bytes \ {Apostrophe}) /\ MaxParams \in Nat
ASSUME ParamsAssumption ==
    \A p \in Params : \/ p.kind = "null"
                      \/ p.kind = "string" /\ p.value \in Seq(Bytes)
                      \/ p.kind = "bool" /\ p.value \in BOOLEAN
                      \/ p.kind = "number" /\ p.value \in Seq(Bytes \ {Apostrophe})

VARIABLES
    template,   \* the statement as a repository writes it
    params,     \* its parameters
    statement   \* [ok, text]: what BuildSQL returns; not ok is an exception

sqlVars == <<template, params, statement>>

NotBuilt == [ok |-> FALSE, text |-> <<>>]
SqlRest == template = <<>> /\ params = <<>> /\ statement = NotBuilt

SqlInit ==
    /\ template \in Templates
    /\ params \in UNION {[1 .. n -> Params] : n \in 0 .. MaxParams}
    /\ statement = NotBuilt

-----------------------------------------------------------------------------

\* mysql_real_escape_string: a backslash before what the lexer would take for
\* something else; some bytes get a letter.
EscapeByte(c) ==
    CASE c \in {Apostrophe, Escaper, 34} -> <<Escaper, c>>
      [] c = 0 -> <<Escaper, 48>>
      [] c = 10 -> <<Escaper, 110>>
      [] c = 13 -> <<Escaper, 114>>
      [] c = 26 -> <<Escaper, 90>>
      [] OTHER -> <<c>>

\* What it has written after each byte.
Escaped(s) == LET e[n \in 0 .. Len(s)] == IF n = 0 THEN <<>> ELSE e[n - 1] \o EscapeByte(s[n]) IN e

Escape(s) == Escaped(s)[Len(s)]

\* Faulty variant of Literal: strings are only put in quotes.
LiteralRaw(p) ==
    CASE p.kind = "null" -> NullText
      [] p.kind = "string" -> <<Apostrophe>> \o p.value \o <<Apostrophe>>
      [] p.kind = "bool" -> <<IF p.value THEN 49 ELSE 48>>
      [] OTHER -> p.value

Literal(p) ==
    CASE p.kind = "null" -> NullText
      [] p.kind = "string" -> <<Apostrophe>> \o Escape(p.value) \o <<Apostrophe>>
      [] p.kind = "bool" -> <<IF p.value THEN 49 ELSE 48>>
      [] OTHER -> p.value

\* One byte of the template: the next parameter for a placeholder.
BuildStep(st, c) ==
    CASE ~st.ok -> st
      [] st.ok /\ c # Placeholder -> [st EXCEPT !.text = Append(@, c)]
      [] st.ok /\ c = Placeholder /\ st.next > Len(params) -> [st EXCEPT !.ok = FALSE]
      [] OTHER -> [st EXCEPT !.text = @ \o Literal(params[st.next]), !.next = @ + 1]

\* Where the loop is after each byte.
Built ==
    LET b[n \in 0 .. Len(template)] ==
            IF n = 0 THEN [ok |-> TRUE, text |-> <<>>, next |-> 1]
            ELSE BuildStep(b[n - 1], template[n])
    IN  b

\* Too few or too many parameters are an exception.
BuildSQL ==
    /\ template # <<>> /\ statement = NotBuilt
    /\ LET end == Built[Len(template)] IN
       statement' = IF end.ok /\ end.next = Len(params) + 1
                    THEN [ok |-> TRUE, text |-> end.text]
                    ELSE [ok |-> FALSE, text |-> template]
    /\ UNCHANGED <<template, params>>

-----------------------------------------------------------------------------
(* What the server reads: bytes outside of literals as they are, a literal *)
(* as one record with its value.                                           *)

\* The byte that a backslash and c stand for.
EscapedBy(c) == CASE c = 48 -> 0 [] c = 110 -> 10 [] c = 114 -> 13 [] c = 90 -> 26 [] OTHER -> c

\* One byte.  Adjacent literals are two here and one to MySQL; no template puts
\* two side by side.
LexStep(st, c) ==
    CASE st.mode = "plain" /\ c = Apostrophe -> [st EXCEPT !.mode = "literal", !.value = <<>>]
      [] st.mode = "plain" /\ c # Apostrophe ->
            [st EXCEPT !.read = Append(@, [kind |-> "plain", value |-> <<c>>])]
      [] st.mode = "literal" /\ c = Escaper -> [st EXCEPT !.mode = "escape"]
      [] st.mode = "literal" /\ c = Apostrophe ->
            [st EXCEPT !.mode = "plain", !.read = Append(@, [kind |-> "string", value |-> st.value])]
      [] st.mode = "literal" /\ c \notin {Escaper, Apostrophe} -> [st EXCEPT !.value = Append(@, c)]
      [] st.mode = "escape" -> [st EXCEPT !.mode = "literal", !.value = Append(@, EscapedBy(c))]

\* Where the lexer is after each byte, and at the end.
Lexing(text) ==
    LET l[n \in 0 .. Len(text)] ==
            IF n = 0 THEN [mode |-> "plain", value |-> <<>>, read |-> <<>>]
            ELSE LexStep(l[n - 1], text[n])
    IN  l

Lexed(text) == Lexing(text)[Len(text)]

Plains(text) == [i \in 1 .. Len(text) |-> [kind |-> "plain", value |-> <<text[i]>>]]

\* How many placeholders there are in the template up to byte i.
PlaceholdersUpTo(i) == Cardinality({j \in 1 .. i : template[j] = Placeholder})

\* Reference: what byte i of the template stands for.
MeantBy(i) ==
    IF template[i] # Placeholder THEN Plains(<<template[i]>>)
    ELSE LET p == params[PlaceholdersUpTo(i)] IN
         IF p.kind = "string" THEN <<[kind |-> "string", value |-> p.value]>>
         ELSE Plains(Literal(p))

\* Byte by byte, the template with the parameters' values.
Meant == LET m[n \in 0 .. Len(template)] == IF n = 0 THEN <<>> ELSE m[n - 1] \o MeantBy(n) IN m

\* The server reads the template with each parameter in the place of its own
\* placeholder, whatever quotes, escapes and question marks stand in the
\* parameters; and a wrong number of parameters gives no statement.
StatementMeansTemplate ==
    statement # NotBuilt =>
        /\ statement.ok <=> Len(params) = PlaceholdersUpTo(Len(template))
        /\ statement.ok => /\ Lexed(statement.text).mode = "plain"
                           /\ Lexed(statement.text).read = Meant[Len(template)]
=============================================================================
