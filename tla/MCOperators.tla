----------------------------- MODULE MCOperators -----------------------------
(* Instances for TLC of the parts of the program that compute an answer     *)
(* without a partner: each initial state is the input of one of them.  One  *)
(* more initial state is the empty table of ListUsers, whose answers depend *)
(* on the writers of the table.                                             *)
EXTENDS JwtCodec, Selection, SqlBuilder, MySQLConnect, Settings, Listing

\* 1 a - " \ , } : space newline backspace n, and a byte of a longer
\* character.
Alphabet == {49, 97, 45, 34, 92, 44, 125, 58, 32, 10, 8, 110, 255}

IssuerTexts == UNION {[1 .. n -> Alphabet] : n \in 0 .. 2}
         \cup {<<49, c, 97>> : c \in Alphabet} \cup {<<97, 92, c>> : c \in Alphabet}
SubjectTexts == {<<97>>, <<114, 101>>}
UidTexts == {<<49, 45, 97>>, <<98, 50>>}

SomeWeights == -1 .. 3

\* ' " \ ? a newline return zero ^Z 0 n
SqlBytes == {39, 34, 92, 63, 97, 10, 13, 0, 26, 48, 110}
SqlTexts == UNION {[1 .. n -> SqlBytes] : n \in 0 .. 2}
SqlParams == [kind : {"string"}, value : SqlTexts]
             \cup {[kind |-> "null", value |-> <<>>], [kind |-> "bool", value |-> TRUE],
                   [kind |-> "number", value |-> <<45, 49>>]}
SqlTemplates == {<<63>>, <<97, 63>>, <<63, 44, 63>>, <<97>>}

SettingValues == 0 .. 3

\* Everybody, and the enabled accounts with a certain number.
Filters == {[mobile |-> FALSE, disabled |-> "any"], [mobile |-> TRUE, disabled |-> "no"]}

vars == <<jwtVars, selectionVars, sqlVars, connectVars, settingsVars, listingVars>>

OperatorsRest == JwtRest /\ SelectionRest /\ SqlRest /\ ConnectRest /\ SettingsRest

OperatorsInit ==
    \/ JwtInit /\ SelectionRest /\ SqlRest /\ ConnectRest /\ SettingsRest
    \/ JwtRest /\ SelectionInit /\ SqlRest /\ ConnectRest /\ SettingsRest
    \/ JwtRest /\ SelectionRest /\ SqlInit /\ ConnectRest /\ SettingsRest
    \/ JwtRest /\ SelectionRest /\ SqlRest /\ ConnectInit /\ SettingsRest
    \/ JwtRest /\ SelectionRest /\ SqlRest /\ ConnectRest /\ SettingsInit

OperatorsNext ==
    \/ (CreateJwt \/ VerifyJwt) /\ UNCHANGED <<selectionVars, sqlVars, connectVars, settingsVars>>
    \/ SelectionNext /\ UNCHANGED <<jwtVars, sqlVars, connectVars, settingsVars>>
    \/ BuildSQL /\ UNCHANGED <<jwtVars, selectionVars, connectVars, settingsVars>>
    \/ Connect /\ UNCHANGED <<jwtVars, selectionVars, sqlVars, settingsVars>>
    \/ Configure /\ UNCHANGED <<jwtVars, selectionVars, sqlVars, connectVars>>

Init == (OperatorsInit \/ OperatorsRest) /\ ListingInit

Next ==
    \/ OperatorsNext /\ UNCHANGED listingVars
    \/ OperatorsRest /\ ListingNext
       /\ UNCHANGED <<jwtVars, selectionVars, sqlVars, connectVars, settingsVars>>

Spec == Init /\ [][Next]_vars
=============================================================================
