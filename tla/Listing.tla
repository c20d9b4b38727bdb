------------------------------ MODULE Listing -------------------------------
(***************************************************************************)
(* UserService::ListUsers: a page of table users, counted by one statement *)
(* and cut out by another (ORDER BY created_at DESC, id DESC LIMIT ?, ?),  *)
(* while accounts are created, disabled and enabled.                       *)
(*                                                                         *)
(* A client asks for one page, or walks: it asks for page after page until *)
(* one is not full.  Mobile numbers never change (UserSessions), so        *)
(* whether a row's number contains the text of the filter is a fact of the *)
(* row.                                                                    *)
(***************************************************************************)
EXTENDS Integers, FiniteSets, SequencesExt

CONSTANTS
    MaxUsers,     \* bound: rows of the table
    Recent,       \* INSERTs at once; one that started earlier may end later
    MaxInt,       \* the largest int
    DefaultSize,  \* 20
    MaxSize,      \* 100
    AskedPages,   \* page numbers and
    AskedSizes,   \* page sizes and
    AskedFilters  \* filters that clients send

\* UserQueryParams: mobile_like is given or not, and so is disabled.
Filter == [mobile : BOOLEAN, disabled : {"any", "yes", "no"}]

ASSUME SizesAssumption ==
    /\ DefaultSize \in Nat \ {0} /\ MaxSize \in Nat /\ MaxInt \in Nat
    /\ DefaultSize <= MaxSize /\ MaxSize <= MaxInt
ASSUME AskedAssumption == AskedPages \cup AskedSizes \subseteq -MaxInt .. MaxInt
ASSUME FiltersAssumption == AskedFilters \subseteq Filter
ASSUME TableAssumption == MaxUsers \in Nat /\ MaxUsers < MaxInt /\ Recent \in Nat \ {0}

VARIABLES
    rows,     \* table users in the order of the query, newest first
    call,     \* the request, and the count once it is there
    answer,   \* what the client got
    \* History of the walk: ids of the rows that ...
    seen,     \* ... came in an answer
    twice,    \* ... came in two of them
    steady,   \* ... matched the filter all the time
    left,     \* a row that matched the filter ceased to
    entered,  \* a row began to match the filter
    moved     \* either, between the two statements of the request

walkVars == <<seen, twice, steady>>
listingVars == <<rows, call, answer, seen, twice, steady, left, entered, moved>>

Ids == 1 .. MaxUsers
UserRow == [id : Ids, hit : BOOLEAN, disabled : BOOLEAN]

Call == [step : {"idle", "count", "find", "answered"}, walk : BOOLEAN,
         page : 1 .. MaxInt, size : 1 .. MaxSize, filter : Filter, total : 0 .. MaxUsers]

Answer == [ok : BOOLEAN, list : Seq(Ids), totalPages : 0 .. MaxUsers]
NoAnswer == [ok |-> FALSE, list |-> <<>>, totalPages |-> 0]

\* id is the primary key.
ListingTypeOK ==
    /\ rows \in Seq(UserRow) /\ Len(rows) <= MaxUsers
    /\ \A i \in DOMAIN rows : rows[i].id <= Len(rows)
    /\ \A i, j \in DOMAIN rows : rows[i].id = rows[j].id => i = j
    /\ call \in Call
    /\ answer \in Answer
    /\ seen \subseteq Ids /\ twice \subseteq seen /\ steady \subseteq Ids
    /\ left \in BOOLEAN /\ entered \in BOOLEAN /\ moved \in BOOLEAN

ListingInit ==
    /\ rows = <<>>
    /\ call = [step |-> "idle", walk |-> FALSE, page |-> 1, size |-> 1, total |-> 0,
               filter |-> [mobile |-> FALSE, disabled |-> "any"]]
    /\ answer = NoAnswer
    /\ seen = {} /\ twice = {} /\ steady = {}
    /\ left = FALSE /\ entered = FALSE /\ moved = FALSE

\* The WHERE clause, which FindAll and Count build alike.
Matches(f, row) ==
    /\ f.mobile => row.hit
    /\ f.disabled # "any" => row.disabled = (f.disabled = "yes")

\* The places of the rows that match, and their ids.
Matching(f, table) == {i \in DOMAIN table : Matches(f, table[i])}
MatchingIds(f, table) == {table[i].id : i \in Matching(f, table)}

\* The how-manieth of the matching rows the one at place i is.
Rank(f, table, i) == Cardinality({table[j].id : j \in {k \in Matching(f, table) : k <= i}})

-----------------------------------------------------------------------------
(* Other requests change the table.                                        *)

Change(table) ==
    LET old == MatchingIds(call.filter, rows)
        new == MatchingIds(call.filter, table) IN
    /\ rows' = table
    /\ steady' = steady \cap new
    /\ left' = (left \/ ~(old \subseteq new))
    /\ entered' = (entered \/ ~(new \subseteq old))
    /\ moved' = (moved \/ (call.step = "find" /\ old # new))
    /\ UNCHANGED <<call, answer, seen, twice>>

\* UserDB::Create.  created_at is when the statement began: an INSERT that
\* takes long puts its row below newer ones.
Create(hit, i) ==
    /\ Len(rows) < MaxUsers
    /\ i <= Len(rows) + 1
    /\ Change(InsertAt(rows, i, [id |-> Len(rows) + 1, hit |-> hit, disabled |-> FALSE]))

\* UserDB::Update on behalf of SetUserDisabled and DeleteUser.
SetDisabled(i) == Change([rows EXCEPT ![i].disabled = ~@])

-----------------------------------------------------------------------------
(* ListUsers.                                                              *)

ClampPage(page) == IF page > 0 THEN page ELSE 1

ClampSize(size) == IF size <= 0 THEN DefaultSize ELSE IF size > MaxSize THEN MaxSize ELSE size

\* A request for one page, or the first of a walk.
ListUsers(walk, page, size, f) ==
    /\ call.step \in {"idle", "answered"}
    /\ walk => ClampPage(page) = 1
    /\ call' = [step |-> "count", walk |-> walk, page |-> ClampPage(page),
                size |-> ClampSize(size), filter |-> f, total |-> 0]
    /\ answer' = NoAnswer
    /\ seen' = {} /\ twice' = {} /\ steady' = MatchingIds(f, rows)
    /\ left' = FALSE /\ entered' = FALSE /\ moved' = FALSE
    /\ UNCHANGED rows

Full == answer.ok /\ Len(answer.list) = call.size

\* The walk goes on behind a full page.
NextPage ==
    /\ call.step = "answered" /\ call.walk /\ Full
    /\ call.page < MaxInt
    /\ call' = [call EXCEPT !.step = "count", !.page = @ + 1]
    /\ answer' = NoAnswer
    /\ moved' = FALSE
    /\ UNCHANGED <<rows, walkVars, left, entered>>

\* A statement throws, in Count or in FindAll.
Fail ==
    /\ call.step \in {"count", "find"}
    /\ call' = [call EXCEPT !.step = "answered"]
    /\ UNCHANGED <<rows, answer, walkVars, left, entered, moved>>

Count ==
    /\ call.step = "count"
    /\ call' = [call EXCEPT !.step = "find", !.total = Cardinality(MatchingIds(call.filter, rows))]
    /\ UNCHANGED <<rows, answer, walkVars, left, entered, moved>>

Wrap(x) == ((x + MaxInt + 1) % (2 * MaxInt + 2)) - (MaxInt + 1)

\* Faulty variant of Offset: page counts from zero.
OffsetFromZero(page, size) == {page * size}

\* PageParams::Offset multiplies two ints.  An overflow is undefined: the
\* product wraps, or is formed in the 64 bits it is then cast to.
Offset(page, size) == LET x == (page - 1) * size IN {Wrap(x), x}

\* How many rows LIMIT offset, size leaves of total.
PageLen(total, offset, size) ==
    IF offset >= total THEN 0 ELSE IF offset + size <= total THEN size ELSE total - offset

\* The ids of the matching rows behind the first offset ones.
Limit(f, table, offset, size) ==
    [k \in 1 .. PageLen(Cardinality(MatchingIds(f, table)), offset, size) |->
        table[CHOOSE i \in Matching(f, table) : Rank(f, table, i) = offset + k].id]

\* Faulty variant of TotalPages: an unfilled last page is not counted.
TotalPagesFloor(total, size) == total \div size

TotalPages(total, size) == (total + size - 1) \div size

\* Faulty variant of FindAll: rows of one second come in any order.
FindAllUnordered(offset) ==
    /\ call.step = "find" /\ offset >= 0
    /\ \E table \in {rows, Reverse(rows)} :
       LET list == Limit(call.filter, table, offset, call.size) IN
       /\ answer' = [ok |-> TRUE, list |-> list,
                     totalPages |-> TotalPages(call.total, call.size)]
       /\ twice' = twice \cup (seen \cap ToSet(list))
       /\ seen' = seen \cup ToSet(list)
    /\ call' = [call EXCEPT !.step = "answered"]
    /\ UNCHANGED <<rows, steady, left, entered, moved>>

\* A negative offset is a syntax error to MySQL: the query throws (Fail).
FindAll(offset) ==
    /\ call.step = "find" /\ offset >= 0
    /\ LET list == Limit(call.filter, rows, offset, call.size) IN
       /\ answer' = [ok |-> TRUE, list |-> list,
                     totalPages |-> TotalPages(call.total, call.size)]
       /\ twice' = twice \cup (seen \cap ToSet(list))
       /\ seen' = seen \cup ToSet(list)
    /\ call' = [call EXCEPT !.step = "answered"]
    /\ UNCHANGED <<rows, steady, left, entered, moved>>

ListingNext ==
    \/ \E hit \in BOOLEAN, i \in 1 .. Recent : Create(hit, i)
    \/ \E i \in DOMAIN rows : SetDisabled(i)
    \/ \E walk \in BOOLEAN, page \in AskedPages, size \in AskedSizes, f \in AskedFilters :
          ListUsers(walk, page, size, f)
    \/ NextPage \/ Count \/ Fail
    \/ \E offset \in Offset(call.page, call.size) : FindAll(offset)

ListingSpec == ListingInit /\ [][ListingNext]_listingVars

-----------------------------------------------------------------------------
(* Properties.                                                             *)

Answered == call.step = "answered" /\ answer.ok

\* A walk that came to a page that is not full has shown every account that
\* matched the filter from its beginning to its end, although each page is
\* cut out of another state of the table; unless an account left the filter
\* meanwhile and pulled the ones behind it onto a page already read.
WalkMissesNothing ==
    (Answered /\ call.walk /\ ~Full) /\ ~left => steady \subseteq seen

\* And it shows no account twice, unless one entered the filter and pushed
\* others onto the next page.
WalkRepeatsNothing == call.walk /\ ~entered => twice = {}

\* When nothing moved between the two statements, the list and the number of
\* pages belong together: pages before the last are full, the last is not
\* empty, and behind it there is nothing.  Unless the offset overflows int.
PagesAgree ==
    Answered /\ ~moved /\ (call.page - 1) * call.size <= MaxInt =>
        /\ call.page < answer.totalPages => Full
        /\ (call.page <= answer.totalPages) <=> (answer.list # <<>>)
=============================================================================
