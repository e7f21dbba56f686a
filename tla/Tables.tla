------------------------------- MODULE Tables -------------------------------
(***************************************************************************)
(* MySQL tables as TypeORM uses them for users, products and coupons: a    *)
(* generated id and, for users, a unique email.  A row is known by its     *)
(* natural name (an email, a product name, a user with a coupon type).     *)
(***************************************************************************)
EXTENDS Integers

CONSTANTS Table,     \* names of the tables
          Name,      \* natural names of rows
          Writer,    \* who writes rows
          Unique,    \* the tables whose names are unique
          MaxId      \* bound: the last id that can be drawn

ASSUME TableAssumption == Unique \subseteq Table /\ MaxId \in Nat

VARIABLES rows,      \* the tables
          nextId,    \* AUTO_INCREMENT of each
          drawn      \* history: the name a generated id was drawn for

Id == 1 .. MaxId
NoName == "none"
NoOne == "nobody"
ASSUME NobodyAssumption == NoName \notin Name /\ NoOne \notin Writer

\* Whose row it is says what its other columns hold; used, that somebody has
\* changed them since: points spent, a coupon used.
Row == [name : Name \cup {NoName}, by : Writer \cup {NoOne}, used : BOOLEAN]
NoRow == [name |-> NoName, by |-> NoOne, used |-> FALSE]
NewRow(n, w) == [name |-> n, by |-> w, used |-> FALSE]

Present(t, i) == rows[t][i] # NoRow
Named(t, n) == \E i \in Id : rows[t][i].name = n

\* Mutant: the column is not unique.
NeverTaken(t, n) == FALSE

\* The unique index takes a name only once.
NameTaken(t, n) == t \in Unique /\ Named(t, n)

TablesInit ==
    /\ rows = [t \in Table |-> [i \in Id |-> NoRow]]
    /\ nextId = [t \in Table |-> 1]
    /\ drawn = [t \in Table |-> [i \in Id |-> NoName]]

\* INSERT without id.  One that the unique index refuses has drawn an id too.
Insert(t, n, w) ==
    /\ nextId[t] \in Id
    /\ nextId' = [nextId EXCEPT ![t] = @ + 1]
    /\ IF NameTaken(t, n)
       THEN UNCHANGED <<rows, drawn>>
       ELSE /\ rows' = [rows EXCEPT ![t][nextId[t]] = NewRow(n, w)]
            /\ drawn' = [drawn EXCEPT ![t][nextId[t]] = n]

\* INSERT with a given id, which AUTO_INCREMENT is moved behind.
InsertWithId(t, i, n, w) ==
    /\ ~Present(t, i)
    /\ ~NameTaken(t, n)
    /\ rows' = [rows EXCEPT ![t][i] = NewRow(n, w)]
    /\ nextId' = [nextId EXCEPT ![t] = IF i < @ THEN @ ELSE i + 1]
    /\ UNCHANGED drawn

\* UPDATE of all columns of the row with an id.
UpdateById(t, i, n, w) ==
    /\ ~(NameTaken(t, n) /\ rows[t][i].name # n)
    /\ rows' = [rows EXCEPT ![t][i] = NewRow(n, w)]
    /\ UNCHANGED <<nextId, drawn>>

\* UPDATE of points, stock or isUsed by a use case.
Use(t, i) ==
    /\ Present(t, i)
    /\ rows' = [rows EXCEPT ![t][i].used = TRUE]
    /\ UNCHANGED <<nextId, drawn>>
=============================================================================
