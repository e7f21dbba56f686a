--------------------------- MODULE SeedingProofs ---------------------------
(***************************************************************************)
(* Theorems about Seeding, for every set of processes, clients and seeds:  *)
(* an address has one account, and rows and tokens keep their meaning,     *)
(* however bootstraps, registrations and crashes interleave.               *)
(***************************************************************************)
EXTENDS IssueSeeding, CouponIssueProofs, FiniteSetTheorems, TLAPS

----------------------------------------------------------------------------
(* Tables *)

\* A row that is there has a name and somebody who wrote it, and AUTO_INCREMENT
\* is behind it.
TablesOK ==
    /\ rows \in [Table -> [Id -> Row]]
    /\ drawn \in [Table -> [Id -> Name \cup {NoName}]]
    /\ nextId \in [Table -> 1 .. MaxId + 1]
    /\ \A t \in Table, i \in Id : Present(t, i) =>
          i < nextId[t] /\ rows[t][i].name \in Name /\ rows[t][i].by \in Writer

\* The first part of InsertedRowStays, with what a login relies on: a row that
\* is not the seeder's is what its id was drawn for.
DrawnOK ==
    \A t \in Table, i \in Id :
        /\ drawn[t][i] # NoName =>
              \/ rows[t][i].name = drawn[t][i] /\ rows[t][i].by # Seeder
              \/ \E s \in SeedRow(t, i) :
                    rows[t][i].name = s.name /\ rows[t][i].by = Seeder
        /\ Present(t, i) /\ rows[t][i].by # Seeder => drawn[t][i] = rows[t][i].name

TInv == TablesOK /\ DrawnOK /\ OneAccountPerEmail

\* No row is ever removed.  An id that was drawn stays with its name, its row
\* with its writer or a seed.
Kept ==
    \A t \in Table, i \in Id :
        /\ Present(t, i) => Present(t, i)'
        /\ drawn[t][i] # NoName => /\ drawn'[t][i] = drawn[t][i]
                                   /\ rows'[t][i].by \in {rows[t][i].by, Seeder}

LEMMA Put ==
    ASSUME NEW S, NEW f \in [Table -> [Id -> S]], NEW t \in Table, NEW i \in Id, NEW e \in S
    PROVE  /\ [f EXCEPT ![t][i] = e] \in [Table -> [Id -> S]]
           /\ \A u \in Table, j \in Id :
                 [f EXCEPT ![t][i] = e][u][j] = IF u = t /\ j = i THEN e ELSE f[u][j]
  OBVIOUS

LEMMA Rows ==
    /\ \A n \in Name, w \in Writer : /\ NewRow(n, w) \in Row /\ NewRow(n, w) # NoRow
                                     /\ NewRow(n, w).name = n /\ NewRow(n, w).by = w
    /\ NoRow.name = NoName
  BY NobodyAssumption DEF NewRow, Row, NoRow

LEMMA SeedTypes ==
    \A k \in SeedNumber : Seeds[k].t \in Table /\ Seeds[k].id \in Id /\ Seeds[k].name \in Name
<1> TAKE k \in SeedNumber
<1> DEFINE Seed == [t : Table, id : Id, name : Name]
<1>1. Seeds \in Seq(Seed)
  BY SeedAssumption
<1>2. Seeds[k] \in Seed
  <2> HIDE DEF Seed
  <2> QED
    BY <1>1 DEF SeedNumber
<1> QED
  BY <1>2

\* An id that was drawn, and none that is still to be drawn, has a row.
LEMMA DrawnPresent ==
    ASSUME TInv, NEW t \in Table, NEW i \in Id, drawn[t][i] # NoName
    PROVE  Present(t, i) /\ i < nextId[t]
<1>1. Present(t, i)
  <2>1. drawn[t][i] \in Name
    BY DEF TInv, TablesOK
  <2>2. rows[t][i].name # NoName
    <3>1. ASSUME NEW s \in SeedRow(t, i) PROVE s.name \in Name
      BY <3>1, SeedTypes DEF SeedRow
    <3> QED
      BY <2>1, <3>1, NobodyAssumption DEF TInv, DrawnOK
  <2> QED
    BY <2>2, Rows DEF Present
<1> QED
  BY <1>1 DEF TInv, TablesOK

LEMMA InsertStep ==
    ASSUME TInv, NEW t \in Table, NEW n \in Name, NEW w \in Writer \ {Seeder},
           Insert(t, n, w)
    PROVE  TInv' /\ Kept
<1> DEFINE i == nextId[t]
<1>1. /\ rows \in [Table -> [Id -> Row]] /\ drawn \in [Table -> [Id -> Name \cup {NoName}]]
      /\ nextId \in [Table -> 1 .. MaxId + 1] /\ MaxId \in Nat /\ i \in Id
  BY TableAssumption DEF TInv, TablesOK, Insert
<1>2. nextId' = [nextId EXCEPT ![t] = @ + 1] /\ nextId' \in [Table -> 1 .. MaxId + 1]
  BY <1>1 DEF Insert, Id
<1>3. \A u \in Table : nextId[u] <= nextId'[u]
  BY <1>1, <1>2
<1>4. CASE NameTaken(t, n)
  <2>1. UNCHANGED <<rows, drawn>>
    BY <1>4 DEF Insert
  <2>2. TablesOK'
    BY <1>1, <1>2, <1>3, <2>1 DEF TInv, TablesOK, Present, Id
  <2>3. DrawnOK' /\ OneAccountPerEmail' /\ Kept
    BY <2>1 DEF TInv, DrawnOK, OneAccountPerEmail, Present, Kept
  <2> QED
    BY <2>2, <2>3 DEF TInv
<1>5. CASE ~NameTaken(t, n)
  <2> DEFINE row == NewRow(n, w)
  <2>1. rows' = [rows EXCEPT ![t][i] = row] /\ drawn' = [drawn EXCEPT ![t][i] = n]
    BY <1>5 DEF Insert
  <2>2. row \in Row /\ row # NoRow /\ row.name = n /\ row.by = w
    BY Rows
  <2> HIDE DEF row, i
  <2>3. /\ rows' \in [Table -> [Id -> Row]]
        /\ \A u \in Table, j \in Id :
              rows'[u][j] = IF u = t /\ j = i THEN row ELSE rows[u][j]
    BY <1>1, <2>1, <2>2, Put
  <2>4. /\ drawn' \in [Table -> [Id -> Name \cup {NoName}]]
        /\ \A u \in Table, j \in Id :
              drawn'[u][j] = IF u = t /\ j = i THEN n ELSE drawn[u][j]
    BY <1>1, <2>1, Put
  <2>5. i < nextId'[t]
    BY <1>1, <1>2 DEF i, Id
  <2>6. TablesOK'
    <3> SUFFICES ASSUME NEW u \in Table, NEW j \in Id, Present(u, j)'
                 PROVE  j < nextId'[u] /\ rows'[u][j].name \in Name
                                       /\ rows'[u][j].by \in Writer
      BY <1>2, <2>3, <2>4 DEF TablesOK
    <3>1. CASE u = t /\ j = i
      BY <2>2, <2>3, <2>5, <3>1
    <3>2. CASE ~(u = t /\ j = i)
      <4>1. Present(u, j) /\ rows'[u][j] = rows[u][j]
        BY <2>3, <3>2 DEF Present
      <4> QED
        BY <1>1, <1>2, <1>3, <4>1 DEF TInv, TablesOK, Id
    <3> QED
      BY <3>1, <3>2
  <2>7. DrawnOK'
    <3> SUFFICES ASSUME NEW u \in Table, NEW j \in Id
                 PROVE  /\ drawn'[u][j] # NoName =>
                             \/ rows'[u][j].name = drawn'[u][j] /\ rows'[u][j].by # Seeder
                             \/ \E s \in SeedRow(u, j) :
                                   rows'[u][j].name = s.name /\ rows'[u][j].by = Seeder
                        /\ Present(u, j)' /\ rows'[u][j].by # Seeder
                              => drawn'[u][j] = rows'[u][j].name
      BY DEF DrawnOK
    <3>1. CASE u = t /\ j = i
      BY <2>2, <2>3, <2>4, <3>1
    <3>2. CASE ~(u = t /\ j = i)
      BY <2>3, <2>4, <3>2 DEF TInv, DrawnOK, Present
    <3> QED
      BY <3>1, <3>2
  <2>8. OneAccountPerEmail'
    <3>1. CASE t # "users"
      BY <2>3, <3>1, ClientAssumption, TableAssumption
         DEF TInv, OneAccountPerEmail, Present
    <3>2. CASE t = "users"
      <4>1. \A j \in Id : rows["users"][j].name # n
        BY <1>5, <3>2, ClientAssumption DEF NameTaken, Named
      <4> QED
        BY <2>2, <2>3, <3>2, <4>1 DEF TInv, OneAccountPerEmail, Present
    <3> QED
      BY <3>1, <3>2
  <2>9. Kept
    <3> SUFFICES ASSUME NEW u \in Table, NEW j \in Id, drawn[u][j] # NoName
                 PROVE  ~(u = t /\ j = i)
      BY <2>2, <2>3, <2>4 DEF Kept, Present
    <3>1. j < nextId[u]
      BY DrawnPresent
    <3> QED
      BY <1>1, <3>1 DEF i, Id
  <2> QED
    BY <2>6, <2>7, <2>8, <2>9 DEF TInv
<1> QED
  BY <1>4, <1>5

\* The seeder puts a row where its seed says, over one that is there or not.
LEMMA SeedStepTables ==
    ASSUME TInv, NEW k \in SeedNumber,
           LET s == Seeds[k]
           IN  \/ Present(s.t, s.id) /\ UpdateById(s.t, s.id, s.name, Seeder)
               \/ InsertWithId(s.t, s.id, s.name, Seeder)
    PROVE  TInv' /\ Kept
<1> DEFINE t == Seeds[k].t
           i == Seeds[k].id
           n == Seeds[k].name
           row == NewRow(n, Seeder)
<1>1. t \in Table /\ i \in Id /\ n \in Name
  BY SeedTypes
<1>2. row \in Row /\ row # NoRow /\ row.name = n /\ row.by = Seeder
  BY <1>1, Rows, SeedAssumption
<1>3. /\ rows \in [Table -> [Id -> Row]] /\ drawn \in [Table -> [Id -> Name \cup {NoName}]]
      /\ nextId \in [Table -> 1 .. MaxId + 1] /\ MaxId \in Nat
  BY TableAssumption DEF TInv, TablesOK
<1>4. rows' = [rows EXCEPT ![t][i] = row] /\ drawn' = drawn
  BY DEF UpdateById, InsertWithId
<1>5. Seeds[k] \in SeedRow(t, i)
  BY DEF SeedRow
<1>6. /\ nextId' \in [Table -> 1 .. MaxId + 1] /\ i < nextId'[t]
      /\ \A u \in Table : nextId[u] <= nextId'[u]
  <2>1. CASE InsertWithId(t, i, n, Seeder)
    BY <1>1, <1>3, <2>1 DEF InsertWithId, Id
  <2>2. CASE UpdateById(t, i, n, Seeder) /\ Present(t, i)
    BY <1>1, <1>3, <2>2 DEF UpdateById, Id, TInv, TablesOK
  <2> QED
    BY <2>1, <2>2
<1>7. t = "users" => \A j \in Id \ {i} : rows[t][j].name # n
  <2> SUFFICES ASSUME t = "users", NEW j \in Id \ {i}, rows[t][j].name = n PROVE FALSE
    OBVIOUS
  <2>1. NameTaken(t, n)
    BY ClientAssumption DEF NameTaken, Named
  <2>2. Present(t, i) /\ rows[t][i].name = n
    BY <2>1 DEF InsertWithId, UpdateById
  <2>3. Present(t, j)
    BY <1>1, NobodyAssumption, Rows DEF Present
  <2> QED
    BY <1>1, <2>2, <2>3 DEF TInv, OneAccountPerEmail
<1> HIDE DEF row, t, i, n
<1>8. /\ rows' \in [Table -> [Id -> Row]]
      /\ \A u \in Table, j \in Id :
            rows'[u][j] = IF u = t /\ j = i THEN row ELSE rows[u][j]
  BY <1>1, <1>2, <1>3, <1>4, Put
<1>9. TablesOK'
  <2> SUFFICES ASSUME NEW u \in Table, NEW j \in Id, Present(u, j)'
               PROVE  j < nextId'[u] /\ rows'[u][j].name \in Name
                                     /\ rows'[u][j].by \in Writer
    BY <1>3, <1>4, <1>6, <1>8 DEF TablesOK
  <2>1. CASE u = t /\ j = i
    BY <1>1, <1>2, <1>6, <1>8, <2>1, SeedAssumption
  <2>2. CASE ~(u = t /\ j = i)
    <3>1. Present(u, j) /\ rows'[u][j] = rows[u][j]
      BY <1>8, <2>2 DEF Present
    <3> QED
      BY <1>3, <1>6, <3>1 DEF TInv, TablesOK, Id
  <2> QED
    BY <2>1, <2>2
<1>10. DrawnOK'
  <2> SUFFICES ASSUME NEW u \in Table, NEW j \in Id
               PROVE  /\ drawn'[u][j] # NoName =>
                           \/ rows'[u][j].name = drawn'[u][j] /\ rows'[u][j].by # Seeder
                           \/ \E s \in SeedRow(u, j) :
                                 rows'[u][j].name = s.name /\ rows'[u][j].by = Seeder
                      /\ Present(u, j)' /\ rows'[u][j].by # Seeder
                            => drawn'[u][j] = rows'[u][j].name
    BY DEF DrawnOK
  <2>1. CASE u = t /\ j = i
    BY <1>2, <1>5, <1>8, <2>1 DEF n
  <2>2. CASE ~(u = t /\ j = i)
    BY <1>4, <1>8, <2>2 DEF TInv, DrawnOK, Present
  <2> QED
    BY <2>1, <2>2
<1>11. OneAccountPerEmail'
  <2>1. CASE t # "users"
    BY <1>8, <2>1, ClientAssumption, TableAssumption DEF TInv, OneAccountPerEmail, Present
  <2>2. CASE t = "users"
    BY <1>1, <1>2, <1>7, <1>8, <2>2 DEF TInv, OneAccountPerEmail, Present
  <2> QED
    BY <2>1, <2>2
<1>12. Kept
  BY <1>2, <1>4, <1>8 DEF Kept, Present
<1> QED
  BY <1>9, <1>10, <1>11, <1>12 DEF TInv

LEMMA UseStep ==
    ASSUME TInv, NEW t \in Table, NEW i \in Id, Use(t, i)
    PROVE  TInv' /\ Kept
<1> DEFINE row == [rows[t][i] EXCEPT !.used = TRUE]
<1>1. rows \in [Table -> [Id -> Row]] /\ Present(t, i) /\ nextId' = nextId /\ drawn' = drawn
  BY DEF TInv, TablesOK, Use
<1>2. rows' = [rows EXCEPT ![t][i] = row]
  BY <1>1 DEF Use
<1>3. row \in Row /\ row.name = rows[t][i].name /\ row.by = rows[t][i].by
  <2>1. rows[t][i] \in Row
    BY <1>1
  <2> HIDE DEF Row
  <2>2. ASSUME NEW r \in Row
        PROVE  LET q == [r EXCEPT !.used = TRUE]
               IN  q \in Row /\ q.name = r.name /\ q.by = r.by
    BY DEF Row
  <2> QED
    BY <2>1, <2>2
<1> HIDE DEF row
<1>4. row # NoRow
  <2>1. rows[t][i].name \in Name
    BY <1>1 DEF TInv, TablesOK
  <2> QED
    BY <1>3, <2>1, Rows, NobodyAssumption
<1>5. /\ rows' \in [Table -> [Id -> Row]]
      /\ \A u \in Table, j \in Id :
            rows'[u][j] = IF u = t /\ j = i THEN row ELSE rows[u][j]
  BY <1>1, <1>2, <1>3, Put
<1>6. \A u \in Table, j \in Id :
         /\ Present(u, j)' <=> Present(u, j)
         /\ rows'[u][j].name = rows[u][j].name
         /\ rows'[u][j].by = rows[u][j].by
  BY <1>1, <1>3, <1>4, <1>5 DEF Present
<1>7. TablesOK'
  <2> SUFFICES ASSUME NEW u \in Table, NEW j \in Id, Present(u, j)'
               PROVE  j < nextId'[u] /\ rows'[u][j].name \in Name
                                     /\ rows'[u][j].by \in Writer
    BY <1>1, <1>5 DEF TInv, TablesOK
  <2> QED
    BY <1>1, <1>6 DEF TInv, TablesOK
<1>8. DrawnOK'
  <2> SUFFICES ASSUME NEW u \in Table, NEW j \in Id
               PROVE  /\ drawn'[u][j] # NoName =>
                           \/ rows'[u][j].name = drawn'[u][j] /\ rows'[u][j].by # Seeder
                           \/ \E s \in SeedRow(u, j) :
                                 rows'[u][j].name = s.name /\ rows'[u][j].by = Seeder
                      /\ Present(u, j)' /\ rows'[u][j].by # Seeder
                            => drawn'[u][j] = rows'[u][j].name
    BY DEF DrawnOK
  <2> QED
    BY <1>1, <1>6 DEF TInv, DrawnOK
<1>9. Kept
  BY <1>1, <1>6 DEF Kept
<1>10. OneAccountPerEmail'
  BY <1>6, ClientAssumption, TableAssumption DEF TInv, OneAccountPerEmail
<1> QED
  BY <1>7, <1>8, <1>9, <1>10 DEF TInv

LEMMA TablesQuiet ==
    ASSUME TInv, UNCHANGED tableVars
    PROVE  TInv' /\ Kept
<1>1. UNCHANGED <<rows, nextId, drawn>>
  BY DEF tableVars
<1>2. TablesOK' /\ DrawnOK'
  BY <1>1 DEF TInv, TablesOK, DrawnOK, Present
<1>3. OneAccountPerEmail' /\ Kept
  BY <1>1 DEF TInv, OneAccountPerEmail, Present, Kept
<1> QED
  BY <1>2, <1>3 DEF TInv

----------------------------------------------------------------------------
(* Clients *)

\* The id a client is about to have signed, or has in its token, was drawn for
\* its address; the row there is its own, or that of a seed.
Holds(c) ==
    /\ userId[c] \in Id
    /\ drawn["users"][userId[c]] = email[c]
    /\ rows["users"][userId[c]].by \in {c, Seeder}

ClientsOK ==
    /\ email \in Emails
    /\ step \in [Client -> {"out", "insert", "sign", "in"}]
    /\ userId \in [Client -> Id \cup {NoId}]
    /\ \A c \in Client : step[c] \in {"sign", "in"} => Holds(c)

LEMMA Addresses ==
    ASSUME ClientsOK, NEW c \in Client
    PROVE  /\ email[c] \in Name /\ email[c] # NoName
           /\ c \in Writer \ {Seeder} /\ "users" \in Table
  BY DtoAssumption, ClientAssumption, TableAssumption, SeedAssumption, NobodyAssumption
     DEF ClientsOK, ValidRegistration, ValidLogin

LEMMA HoldsOn ==
    ASSUME ClientsOK, Kept, UNCHANGED email, NEW c \in Client, Holds(c),
           userId'[c] = userId[c]
    PROVE  Holds(c)'
  BY Addresses DEF Holds, Kept

\* A client goes on to l with the id i; the others stay where they are.
LEMMA ClientMoves ==
    ASSUME ClientsOK, Kept, NEW c \in Client,
           NEW l \in {"out", "insert", "sign", "in"}, NEW i \in Id \cup {NoId},
           To(c, l, i), l \in {"sign", "in"} => Holds(c)'
    PROVE  ClientsOK'
<1>1. /\ step' = [step EXCEPT ![c] = l] /\ userId' = [userId EXCEPT ![c] = i]
      /\ email' = email
  BY DEF To
<1>2. ASSUME NEW d \in Client, step'[d] \in {"sign", "in"} PROVE Holds(d)'
  <2>1. CASE d = c
    BY <1>1, <1>2, <2>1 DEF ClientsOK
  <2>2. CASE d # c
    <3>1. step[d] \in {"sign", "in"} /\ userId'[d] = userId[d]
      BY <1>1, <1>2, <2>2 DEF ClientsOK
    <3> QED
      BY <1>1, <3>1, HoldsOn DEF ClientsOK
  <2> QED
    BY <2>1, <2>2
<1> QED
  BY <1>1, <1>2 DEF ClientsOK

LEMMA ClientsQuiet ==
    ASSUME ClientsOK, Kept, UNCHANGED clientVars
    PROVE  ClientsOK'
<1>1. UNCHANGED <<email, step, userId>>
  BY DEF clientVars
<1>2. ASSUME NEW c \in Client, step'[c] \in {"sign", "in"} PROVE Holds(c)'
  BY <1>1, <1>2, HoldsOn DEF ClientsOK
<1> QED
  BY <1>1, <1>2 DEF ClientsOK

LEMMA ClientActions ==
    ASSUME TInv, ClientsOK, NEW c \in Client,
           \/ Register(c) \/ SaveUser(c) \/ Sign(c) \/ Login(c)
           \/ RequestFails(c) \/ TokenExpires(c)
    PROVE  TInv' /\ Kept /\ ClientsOK'
<1>1. CASE UNCHANGED tableVars
  <2>1. TInv' /\ Kept
    BY <1>1, TablesQuiet
  <2>2. CASE Register(c) \/ RequestFails(c) \/ TokenExpires(c)
    BY <2>1, <2>2, ClientMoves DEF Register, RequestFails, TokenExpires
  <2>3. CASE Sign(c)
    <3>1. Holds(c) /\ userId' = [userId EXCEPT ![c] = userId[c]] /\ email' = email
      BY <2>3 DEF Sign, SignedId, To, ClientsOK
    <3>2. userId'[c] = userId[c] /\ userId[c] \in Id
      BY <3>1 DEF ClientsOK, Holds
    <3>3. Holds(c)'
      BY <2>1, <3>1, <3>2, HoldsOn
    <3> QED
      BY <2>1, <2>3, <3>2, <3>3, ClientMoves DEF Sign, SignedId
  <2>4. CASE Login(c)
    <3>1. PICK i \in Id : /\ rows["users"][i].name = email[c]
                          /\ PasswordFits(c, i) /\ To(c, "sign", i)
      BY <2>4 DEF Login
    <3>2. Present("users", i) /\ rows["users"][i].by = c
      BY <3>1, Addresses, Rows DEF Present, PasswordFits
    <3>3. drawn["users"][i] = email[c]
      BY <3>1, <3>2, Addresses DEF TInv, DrawnOK
    <3>4. Holds(c)'
      BY <1>1, <3>1, <3>2, <3>3 DEF Holds, To, ClientsOK, tableVars
    <3> QED
      BY <2>1, <3>1, <3>4, ClientMoves
  <2>5. CASE SaveUser(c)
    <3>1. Insert("users", email[c], c)
      BY <2>5 DEF SaveUser
    <3>2. nextId' # nextId
      BY <3>1, Addresses DEF Insert, TInv, TablesOK, Id
    <3> QED
      BY <1>1, <3>2 DEF tableVars
  <2> QED
    BY <2>2, <2>3, <2>4, <2>5
<1>2. CASE SaveUser(c)
  <2>1. Insert("users", email[c], c)
    BY <1>2 DEF SaveUser
  <2>2. TInv' /\ Kept
    BY <2>1, Addresses, InsertStep
  <2>3. CASE NameTaken("users", email[c])
    BY <1>2, <2>2, <2>3, ClientMoves DEF SaveUser
  <2>4. CASE ~NameTaken("users", email[c])
    <3> DEFINE i == nextId["users"]
    <3>1. i \in Id /\ To(c, "sign", i)
      BY <1>2, <2>1, <2>4 DEF SaveUser, Insert
    <3>2. /\ rows' = [rows EXCEPT !["users"][i] = NewRow(email[c], c)]
          /\ drawn' = [drawn EXCEPT !["users"][i] = email[c]]
      BY <2>1, <2>4 DEF Insert
    <3>3. drawn'["users"][i] = email[c] /\ rows'["users"][i] = NewRow(email[c], c)
      BY <3>1, <3>2, Addresses DEF TInv, TablesOK
    <3>4. NewRow(email[c], c).by = c
      BY Addresses, Rows
    <3>5. userId'[c] = i /\ email' = email
      BY <3>1 DEF To, ClientsOK
    <3>6. Holds(c)'
      BY <3>1, <3>3, <3>4, <3>5 DEF Holds
    <3> QED
      BY <2>2, <3>1, <3>6, ClientMoves
  <2> QED
    BY <2>2, <2>3, <2>4
<1> QED
  BY <1>1, <1>2 DEF Register, Sign, Login, RequestFails, TokenExpires, tableVars

----------------------------------------------------------------------------
(* Bootstrap *)

AtOK(l, k) == k \in IF l = "stock" THEN DOMAIN StockTypes ELSE SeedNumber

BootTypes ==
    /\ boot \in [Instance -> Booting \cup {"down", "serving"}]
    /\ \A i \in Instance : AtOK(boot[i], at[i])
    /\ at \in [Instance -> Int]
    /\ found \in [Instance -> BOOLEAN]
    /\ boots \in 0 .. MaxBoots /\ asked \in 0 .. MaxRequests
    /\ raced \in SUBSET Instance

\* TypeORM updates a row only after it has found one with its id.
FoundOK ==
    \A i \in Instance : boot[i] = "write" /\ found[i] = TRUE
        => Present(SeedOf(i).t, SeedOf(i).id)

BootOK == BootTypes /\ FoundOK

StockOK ==
    /\ counter \in [CouponType -> Int]
    /\ saving \in [CouponType -> Nat] /\ short \in [CouponType -> Nat]
    /\ sets \in [CouponType -> Nat] /\ late \in [CouponType -> Nat]

LEMMA Seeded ==
    /\ 1 \in SeedNumber /\ 1 \in DOMAIN StockTypes
    /\ SeedNumber \subseteq Nat /\ DOMAIN StockTypes \subseteq Nat
    /\ \A k \in SeedNumber : k # Len(Seeds) => k + 1 \in SeedNumber
    /\ \A k \in DOMAIN StockTypes :
          /\ StockTypes[k] \in CouponType
          /\ k # Len(StockTypes) => k + 1 \in DOMAIN StockTypes
<1> DEFINE Seed == [t : Table, id : Id, name : Name]
<1>1. Seeds \in Seq(Seed) /\ Seeds # <<>>
  BY SeedAssumption
<1>2. StockTypes \in Seq(CouponType) /\ StockTypes # <<>>
  BY CounterAssumption
<1> HIDE DEF Seed
<1> QED
  BY <1>1, <1>2 DEF SeedNumber

LEMMA BootKept ==
    ASSUME BootOK, Kept, UNCHANGED <<boot, at, found, boots, raced>>,
           asked' \in 0 .. MaxRequests
    PROVE  BootOK'
<1>1. BootTypes'
  BY DEF BootOK, BootTypes, AtOK
<1>2. FoundOK'
  <2> SUFFICES ASSUME NEW i \in Instance, boot'[i] = "write", found'[i] = TRUE
               PROVE  Present(SeedOf(i).t, SeedOf(i).id)'
    BY DEF FoundOK
  <2>1. at[i] \in SeedNumber /\ at'[i] = at[i] /\ Present(SeedOf(i).t, SeedOf(i).id)
    BY DEF BootOK, BootTypes, AtOK, FoundOK
  <2>2. SeedOf(i)' = SeedOf(i) /\ SeedOf(i).t \in Table /\ SeedOf(i).id \in Id
    BY <2>1, SeedTypes DEF SeedOf
  <2> QED
    BY <2>1, <2>2 DEF Kept, Present
<1> QED
  BY <1>1, <1>2 DEF BootOK

\* A process goes on to l at k; the others stay where they are.
LEMMA BootMoves ==
    ASSUME BootOK, Kept, NEW i \in Instance,
           NEW l \in Booting \cup {"down", "serving"}, NEW k, NEW f \in BOOLEAN,
           Continue(i, l, k, f), AtOK(l, k),
           l = "write" /\ f = TRUE => Present(Seeds[k].t, Seeds[k].id)
    PROVE  BootOK'
<1>1. /\ boot' = [boot EXCEPT ![i] = l] /\ at' = [at EXCEPT ![i] = k]
      /\ found' = [found EXCEPT ![i] = f] /\ UNCHANGED <<boots, asked, raced>>
  BY DEF Continue
<1>2. k \in Int
  <2>1. k \in DOMAIN StockTypes \/ k \in SeedNumber
    BY DEF AtOK
  <2>2. SeedNumber \subseteq Nat /\ DOMAIN StockTypes \subseteq Nat
    BY Seeded
  <2>3. k \in Nat
    BY <2>1, <2>2
  <2> QED
    BY <2>3
<1>3. BootTypes'
  <2>1. ASSUME NEW j \in Instance PROVE AtOK(boot'[j], at'[j])
    <3>1. CASE j = i
      BY <1>1, <3>1 DEF BootOK, BootTypes
    <3>2. CASE j # i
      BY <1>1, <3>2 DEF BootOK, BootTypes
    <3> QED
      BY <3>1, <3>2
  <2> QED
    BY <1>1, <1>2, <2>1 DEF BootOK, BootTypes
<1>4. FoundOK'
  <2> SUFFICES ASSUME NEW j \in Instance, boot'[j] = "write", found'[j] = TRUE
               PROVE  Present(SeedOf(j).t, SeedOf(j).id)'
    BY DEF FoundOK
  <2>1. at'[j] \in SeedNumber /\ Present(Seeds[at'[j]].t, Seeds[at'[j]].id)
    <3>1. CASE j = i
      BY <1>1, <3>1 DEF AtOK, BootOK, BootTypes
    <3>2. CASE j # i
      <4>1. boot[j] = "write" /\ found[j] = TRUE /\ at'[j] = at[j]
        BY <1>1, <3>2 DEF BootOK, BootTypes
      <4> QED
        BY <4>1 DEF BootOK, BootTypes, AtOK, FoundOK, SeedOf
    <3> QED
      BY <3>1, <3>2
  <2> QED
    BY <2>1, SeedTypes DEF Kept, Present, SeedOf
<1> QED
  BY <1>3, <1>4 DEF BootOK

LEMMA NextSeedMoves ==
    ASSUME BootOK, Kept, NEW i \in Instance, at[i] \in SeedNumber, NextSeed(i)
    PROVE  BootOK'
<1>1. CASE at[i] = Len(Seeds)
  BY <1>1, BootMoves, Seeded DEF NextSeed, AtOK, Booting
<1>2. CASE at[i] # Len(Seeds)
  BY <1>2, BootMoves, Seeded DEF NextSeed, AtOK, Booting
<1> QED
  BY <1>1, <1>2

----------------------------------------------------------------------------
(* The invariant *)

SInv == TInv /\ ClientsOK /\ BootOK /\ StockOK

LEMMA InitSInv == SeedingInit => SInv
<1> SUFFICES ASSUME SeedingInit PROVE SInv
  OBVIOUS
<1>1. NoRow \in Row
  BY DEF NoRow, Row
<1>2. \A t \in Table, i \in Id : ~Present(t, i) /\ drawn[t][i] = NoName
  BY DEF SeedingInit, TablesInit, Present
<1>3. TInv
  BY <1>1, <1>2, TableAssumption, ClientAssumption
     DEF SeedingInit, TablesInit, TInv, TablesOK, DrawnOK, OneAccountPerEmail
<1>4. ClientsOK
  BY DEF SeedingInit, ClientsInit, ClientsOK, NoId
<1>5. BootOK
  BY Seeded, CounterAssumption
     DEF SeedingInit, BootOK, BootTypes, FoundOK, AtOK, Booting
<1>6. StockOK
  BY DEF SeedingInit, StockOK
<1> QED
  BY <1>3, <1>4, <1>5, <1>6 DEF SInv

\* A step that leaves the tables alone, and the clients but for those that end.
LEMMA QuietTables ==
    ASSUME SInv, UNCHANGED tableVars
    PROVE  /\ TInv' /\ Kept
           /\ UNCHANGED clientVars => ClientsOK'
           /\ UNCHANGED bootVars => BootOK'
           /\ UNCHANGED stockVars => StockOK'
<1>1. TInv' /\ Kept
  BY TablesQuiet DEF SInv
<1>2. UNCHANGED clientVars => ClientsOK'
  BY <1>1, ClientsQuiet DEF SInv
<1>3. UNCHANGED bootVars => BootOK'
  BY <1>1, BootKept DEF SInv, bootVars, BootOK, BootTypes
<1>4. UNCHANGED stockVars => StockOK'
  BY DEF SInv, stockVars, StockOK
<1> QED
  BY <1>1, <1>2, <1>3, <1>4

LEMMA SeedSteps ==
    ASSUME SInv, NEW i \in Instance, SeedStep(i)
    PROVE  SInv'
<1>1. at[i] \in SeedNumber
  BY DEF SeedStep, FindSeed, LoadSeed, WriteSeed, SInv, BootOK, BootTypes, AtOK
<1>2. UNCHANGED <<clientVars, stockVars>>
  BY DEF SeedStep, FindSeed, LoadSeed, WriteSeed
<1>3. StockOK'
  BY <1>2 DEF SInv, StockOK, stockVars
<1>4. CASE FindSeed(i)
  <2>1. TInv' /\ Kept /\ ClientsOK'
    BY <1>2, <1>4, QuietTables DEF FindSeed
  <2>2. BootOK'
    <3>1. CASE NextSeed(i)
      BY <1>1, <2>1, <3>1, NextSeedMoves DEF SInv
    <3>2. CASE Continue(i, "load", at[i], FALSE)
      BY <1>1, <2>1, <3>2, BootMoves DEF SInv, AtOK, Booting
    <3> QED
      BY <1>4, <3>1, <3>2 DEF FindSeed
  <2> QED
    BY <1>3, <2>1, <2>2 DEF SInv
<1>5. CASE LoadSeed(i)
  <2>1. TInv' /\ Kept /\ ClientsOK'
    BY <1>2, <1>5, QuietTables DEF LoadSeed
  <2>2. CASE Present(SeedOf(i).t, SeedOf(i).id)
    <3>1. Continue(i, "write", at[i], TRUE)
      BY <1>5, <2>2 DEF LoadSeed
    <3>2. BootOK'
      BY <1>1, <2>1, <2>2, <3>1, BootMoves DEF SInv, AtOK, Booting, SeedOf
    <3> QED
      BY <1>3, <2>1, <3>2 DEF SInv
  <2>3. CASE ~Present(SeedOf(i).t, SeedOf(i).id)
    <3> DEFINE f == Present(SeedOf(i).t, SeedOf(i).id)
    <3>1. Continue(i, "write", at[i], f) /\ f = FALSE
      BY <1>5, <2>3 DEF LoadSeed, Present
    <3> HIDE DEF f
    <3>2. BootOK'
      BY <1>1, <2>1, <3>1, BootMoves DEF SInv, AtOK, Booting
    <3> QED
      BY <1>3, <2>1, <3>2 DEF SInv
  <2> QED
    BY <2>2, <2>3
<1>6. CASE WriteSeed(i)
  <2>1. LET s == Seeds[at[i]]
        IN  \/ Present(s.t, s.id) /\ UpdateById(s.t, s.id, s.name, Seeder)
            \/ InsertWithId(s.t, s.id, s.name, Seeder)
    BY <1>6 DEF WriteSeed, SeedOf, SInv, BootOK, BootTypes, FoundOK
  <2>2. TInv' /\ Kept
    BY <1>1, <2>1, SeedStepTables DEF SInv
  <2>3. ClientsOK'
    BY <1>2, <2>2, ClientsQuiet DEF SInv
  <2>4. BootOK'
    BY <1>1, <1>6, <2>2, NextSeedMoves DEF SInv, WriteSeed
  <2> QED
    BY <1>3, <2>2, <2>3, <2>4 DEF SInv
<1> QED
  BY <1>4, <1>5, <1>6 DEF SeedStep

LEMMA BootSteps ==
    ASSUME SInv, NEW i \in Instance, BootStep(i)
    PROVE  SInv'
<1>1. CASE Boot(i)
  <2>1. UNCHANGED <<tableVars, clientVars, stockVars>>
    BY <1>1 DEF Boot
  <2>2. TInv' /\ Kept /\ ClientsOK' /\ StockOK'
    BY <2>1, QuietTables
  <2>3. /\ boot[i] = "down" /\ at' = at /\ found' = found /\ asked' = asked
        /\ \E l \in {"tables", "serving"} : boot' = [boot EXCEPT ![i] = l]
        /\ boots' = boots + 1 /\ boots < MaxBoots
    BY <1>1 DEF Boot
  <2>4. raced' \subseteq Instance
    BY <1>1 DEF Boot, SInv, BootOK, BootTypes
  <2>5. boots' \in 0 .. MaxBoots
    BY <2>3, CounterAssumption DEF SInv, BootOK, BootTypes
  <2>6. BootTypes'
    BY <2>3, <2>4, <2>5 DEF SInv, BootOK, BootTypes, AtOK, Booting
  <2>7. FoundOK'
    BY <2>1, <2>3 DEF SInv, BootOK, BootTypes, FoundOK, SeedOf, Present, tableVars
  <2> QED
    BY <2>2, <2>6, <2>7 DEF SInv, BootOK
<1>2. CASE WaitForTables(i) \/ SeedingFails(i)
  <2>1. /\ UNCHANGED <<tableVars, clientVars, stockVars>>
        /\ \E l \in {"find", "serving"} : Continue(i, l, 1, FALSE)
    BY <1>2 DEF WaitForTables, SeedingFails
  <2>2. TInv' /\ Kept /\ ClientsOK' /\ StockOK'
    BY <2>1, QuietTables
  <2>3. BootOK'
    BY <2>1, <2>2, BootMoves, Seeded DEF SInv, AtOK, Booting
  <2> QED
    BY <2>2, <2>3 DEF SInv
<1>3. CASE SetStock(i)
  <2> DEFINE ty == StockTypes[at[i]]
  <2>1. /\ UNCHANGED <<saving, short, tableVars, clientVars>>
        /\ counter' = [counter EXCEPT ![ty] = StartStock[ty]]
        /\ sets' = [sets EXCEPT ![ty] = @ + 1]
        /\ late' = [late EXCEPT ![ty] = @ + short[ty]]
    BY <1>3 DEF SetStock
  <2>2. TInv' /\ Kept /\ ClientsOK'
    BY <2>1, QuietTables
  <2>3. at[i] \in DOMAIN StockTypes
    BY <1>3 DEF SetStock, SInv, BootOK, BootTypes, AtOK
  <2>4. ty \in CouponType /\ StartStock[ty] \in Nat
    BY <2>3, Seeded, CounterAssumption
  <2>5. StockOK'
    BY <2>1, <2>4 DEF SInv, StockOK
  <2>6. CASE at[i] = Len(StockTypes)
    <3>1. Continue(i, "serving", 1, FALSE)
      BY <1>3, <2>6 DEF SetStock
    <3>2. BootOK'
      BY <2>2, <3>1, BootMoves, Seeded DEF SInv, AtOK
    <3> QED
      BY <2>2, <2>5, <3>2 DEF SInv
  <2>7. CASE at[i] # Len(StockTypes)
    <3>1. Continue(i, "stock", at[i] + 1, FALSE)
      BY <1>3, <2>7 DEF SetStock
    <3>2. BootOK'
      BY <2>2, <2>3, <2>7, <3>1, BootMoves, Seeded DEF SInv, AtOK, Booting
    <3> QED
      BY <2>2, <2>5, <3>2 DEF SInv
  <2> QED
    BY <2>6, <2>7
<1>4. CASE Crash(i)
  <2>1. UNCHANGED <<tableVars, counter, sets, late>> /\ Continue(i, "down", 1, FALSE)
    BY <1>4 DEF Crash
  <2>2. TInv' /\ Kept
    BY <2>1, QuietTables
  <2>3. BootOK'
    BY <2>1, <2>2, BootMoves, Seeded DEF SInv, AtOK
  <2>4. CASE UNCHANGED <<clientVars, saving, short>>
    BY <2>1, <2>2, <2>3, <2>4, ClientsQuiet DEF SInv, StockOK
  <2>5. CASE /\ step' = [c \in Client |-> IF step[c] = "in" THEN "in" ELSE "out"]
             /\ userId' = [c \in Client |-> IF step[c] = "in" THEN userId[c] ELSE NoId]
             /\ saving' = [ty \in CouponType |-> 0] /\ short' = [ty \in CouponType |-> 0]
             /\ UNCHANGED email
    <3>1. ASSUME NEW c \in Client, step'[c] \in {"sign", "in"} PROVE Holds(c)'
      <4>1. step[c] = "in" /\ userId'[c] = userId[c]
        BY <2>5, <3>1
      <4> QED
        BY <2>2, <2>5, <4>1, HoldsOn DEF SInv, ClientsOK
    <3>2. ClientsOK'
      BY <2>5, <3>1 DEF SInv, ClientsOK
    <3>3. StockOK'
      BY <2>1, <2>5 DEF SInv, StockOK
    <3> QED
      BY <2>2, <2>3, <3>2, <3>3 DEF SInv
  <2> QED
    BY <1>4, <2>4, <2>5 DEF Crash
<1> QED
  BY <1>1, <1>2, <1>3, <1>4, SeedSteps
     DEF BootStep, SeedAdminUser, SeedProducts, SeedCoupons

LEMMA AskStep ==
    ASSUME SInv, Kept, Ask \/ UNCHANGED bootVars
    PROVE  BootOK'
<1>1. UNCHANGED <<boot, at, found, boots, raced>>
  BY DEF Ask, bootVars
<1>2. asked' \in 0 .. MaxRequests
  BY CounterAssumption DEF Ask, bootVars, SInv, BootOK, BootTypes
<1> QED
  BY <1>1, <1>2, BootKept DEF SInv

LEMMA RequestSteps ==
    ASSUME SInv,
           \/ \E c \in Client : ClientStep(c)
           \/ \E ty \in CouponType : TakeUnit(ty) \/ ReturnUnit(ty) \/ IssueFails(ty)
           \/ \E n \in Name : n \in DOMAIN TypeOfName /\ InsertCoupon(n)
           \/ \E row \in Watched : UseRow(row[1], row[2])
    PROVE  SInv'
<1>1. ASSUME NEW c \in Client, ClientStep(c) PROVE SInv'
  <2>1. TInv' /\ Kept /\ ClientsOK'
    BY <1>1, ClientActions DEF SInv, ClientStep
  <2>2. BootOK' /\ StockOK'
    BY <1>1, <2>1, AskStep DEF ClientStep, SInv, StockOK, stockVars
  <2> QED
    BY <2>1, <2>2 DEF SInv
<1>2. ASSUME NEW ty \in CouponType, TakeUnit(ty) \/ ReturnUnit(ty) \/ IssueFails(ty)
      PROVE  SInv'
  <2>1. /\ UNCHANGED <<tableVars, clientVars, sets, late>>
        /\ Ask \/ UNCHANGED bootVars
    BY <1>2 DEF TakeUnit, ReturnUnit, IssueFails
  <2>2. TInv' /\ Kept /\ ClientsOK'
    BY <2>1, QuietTables
  <2>3. BootOK'
    BY <2>1, <2>2, AskStep
  <2>4. StockOK'
    BY <1>2, <2>1 DEF TakeUnit, ReturnUnit, IssueFails, SInv, StockOK
  <2> QED
    BY <2>2, <2>3, <2>4 DEF SInv
<1>3. ASSUME NEW n \in Name, InsertCoupon(n) PROVE SInv'
  <2>1. /\ Insert("coupons", n, Issuer)
        /\ UNCHANGED <<counter, short, sets, late, clientVars, bootVars>>
        /\ saving[TypeOfName[n]] > 0
        /\ saving' = [saving EXCEPT ![TypeOfName[n]] = @ - 1]
    BY <1>3 DEF InsertCoupon
  <2>2. Issuer \in Writer \ {Seeder} /\ "coupons" \in Table
    BY SeedAssumption, CounterAssumption DEF Issuer, Seeder
  <2>3. TInv' /\ Kept
    BY <2>1, <2>2, InsertStep DEF SInv
  <2>4. ClientsOK' /\ BootOK'
    BY <2>1, <2>3, ClientsQuiet, AskStep DEF SInv
  <2>5. StockOK'
    <3>1. saving' \in [CouponType -> Nat]
      <4>1. CASE TypeOfName[n] \in CouponType
        BY <2>1, <4>1 DEF SInv, StockOK
      <4>2. CASE TypeOfName[n] \notin CouponType
        BY <2>1, <4>2 DEF SInv, StockOK
      <4> QED
        BY <4>1, <4>2
    <3> QED
      BY <2>1, <3>1 DEF SInv, StockOK
  <2> QED
    BY <2>3, <2>4, <2>5 DEF SInv
<1>4. ASSUME NEW row \in Watched, UseRow(row[1], row[2]) PROVE SInv'
  <2>1. row[1] \in Table /\ row[2] \in Id
    BY CounterAssumption
  <2>2. TInv' /\ Kept
    BY <1>4, <2>1, UseStep DEF UseRow, SInv
  <2>3. ClientsOK' /\ BootOK' /\ StockOK'
    BY <1>4, <2>2, ClientsQuiet, AskStep DEF UseRow, SInv, StockOK, stockVars
  <2> QED
    BY <2>2, <2>3 DEF SInv
<1> QED
  BY <1>1, <1>2, <1>3, <1>4

LEMMA NextSInv == SInv /\ [SeedingNext]_seedingVars => SInv'
<1> SUFFICES ASSUME SInv, [SeedingNext]_seedingVars PROVE SInv'
  OBVIOUS
<1>1. CASE UNCHANGED seedingVars
  BY <1>1, QuietTables DEF seedingVars, SInv
<1> QED
  BY <1>1, BootSteps, RequestSteps DEF SeedingNext

LEMMA SeedingInvariant == SeedingSpec => []SInv
  BY InitSInv, NextSInv, PTL DEF SeedingSpec

LEMMA SInvImplies == SInv => SeedingTypeOK /\ OneAccountPerEmail /\ InsertedRowStays
<1> SUFFICES ASSUME SInv PROVE SeedingTypeOK /\ OneAccountPerEmail /\ InsertedRowStays
  OBVIOUS
<1>1. \A t \in Table, i \in Id : i >= nextId[t] => ~Present(t, i)
  BY TableAssumption DEF SInv, TInv, TablesOK, Id
<1>2. SeedingTypeOK
  BY <1>1 DEF SInv, TInv, TablesOK, ClientsOK, BootOK, BootTypes, AtOK, StockOK, SeedingTypeOK
<1>3. InsertedRowStays
  BY DEF SInv, TInv, DrawnOK, ClientsOK, Holds, InsertedRowStays, ValidateToken
<1> QED
  BY <1>2, <1>3 DEF SInv, TInv

----------------------------------------------------------------------------
(* What the seeder overwrites *)

\* A row of the seeder has the name of the seed of its id.
SeederRows ==
    \A t \in Table, i \in Id : rows[t][i].by = Seeder =>
        \E s \in SeedRow(t, i) : rows[t][i].name = s.name

\* Processes that boot at once know of each other.
RacedOK ==
    \A i, j \in Instance : i # j /\ boot[i] \in Booting /\ boot[j] \in Booting
        => i \in raced /\ j \in raced

\* A process that boots alone saves a seed only where none was saved.
Unseeded ==
    \A b \in Instance \ raced : boot[b] \in {"load", "write"}
        => rows[SeedOf(b).t][SeedOf(b).id].by # Seeder

RInv == SInv /\ SeederRows /\ RacedOK /\ Unseeded

\* Nobody but the seeder makes a row the seeder's, and nobody takes one from it
\* or makes it unused.  Nobody else changes the name of a row either.
SeedsLeft ==
    \A t \in Table, i \in Id :
        /\ rows'[t][i].by = Seeder <=> rows[t][i].by = Seeder
        /\ rows[t][i].by = Seeder => rows'[t][i].name = rows[t][i].name
        /\ rows[t][i].name # NoName => rows'[t][i].name = rows[t][i].name
        /\ rows[t][i].by = Seeder /\ rows[t][i].used => rows'[t][i].used

LEMMA InsertLeaves ==
    ASSUME TInv, NEW t \in Table, NEW n \in Name, NEW w \in Writer \ {Seeder},
           Insert(t, n, w)
    PROVE  SeedsLeft
<1>1. CASE rows' = rows
  BY <1>1 DEF SeedsLeft
<1>2. CASE rows' # rows
  <2> DEFINE i == nextId[t]
             row == NewRow(n, w)
  <2>1. rows' = [rows EXCEPT ![t][i] = row] /\ i \in Id
    BY <1>2 DEF Insert
  <2>2. row \in Row /\ row.by = w
    BY Rows
  <2>3. ~Present(t, i)
    BY <2>1 DEF TInv, TablesOK, Id
  <2>4. rows[t][i].by # Seeder /\ rows[t][i].name = NoName
    BY <2>3 DEF Present, NoRow, NoOne, Seeder
  <2> HIDE DEF row, i
  <2>5. \A u \in Table, j \in Id :
           rows'[u][j] = IF u = t /\ j = i THEN row ELSE rows[u][j]
    BY <2>1, <2>2, Put DEF TInv, TablesOK
  <2> QED
    BY <2>2, <2>4, <2>5 DEF SeedsLeft
<1> QED
  BY <1>1, <1>2

LEMMA UseLeaves ==
    ASSUME TInv, NEW t \in Table, NEW i \in Id, Use(t, i)
    PROVE  SeedsLeft
<1> DEFINE row == [rows[t][i] EXCEPT !.used = TRUE]
<1>1. rows \in [Table -> [Id -> Row]]
  BY DEF TInv, TablesOK
<1>2. rows' = [rows EXCEPT ![t][i] = row]
  BY <1>1 DEF Use
<1>3. /\ row \in Row /\ row.used
      /\ row.name = rows[t][i].name /\ row.by = rows[t][i].by
  <2>1. rows[t][i] \in Row
    BY <1>1
  <2> HIDE DEF Row
  <2>2. ASSUME NEW r \in Row
        PROVE  LET q == [r EXCEPT !.used = TRUE]
               IN  q \in Row /\ q.used /\ q.name = r.name /\ q.by = r.by
    BY DEF Row
  <2> QED
    BY <2>1, <2>2
<1> HIDE DEF row
<1>4. \A u \in Table, j \in Id :
         rows'[u][j] = IF u = t /\ j = i THEN row ELSE rows[u][j]
  BY <1>1, <1>2, <1>3, Put
<1>5. ASSUME NEW u \in Table, NEW j \in Id
      PROVE  /\ rows'[u][j].by = rows[u][j].by /\ rows'[u][j].name = rows[u][j].name
             /\ rows[u][j].used => rows'[u][j].used
  <2>1. CASE u = t /\ j = i
    BY <1>3, <1>4, <2>1
  <2>2. CASE ~(u = t /\ j = i)
    BY <1>4, <2>2
  <2> QED
    BY <2>1, <2>2
<1> QED
  BY <1>5 DEF SeedsLeft

\* A step that leaves the seeder's rows, and who races, as they are.
LEMMA LeftStep ==
    ASSUME RInv, SInv', SeedsLeft, UNCHANGED <<boot, at, raced>>
    PROVE  RInv'
<1>1. SeederRows'
  BY DEF RInv, SeederRows, SeedsLeft
<1>2. RacedOK'
  BY DEF RInv, RacedOK
<1>3. Unseeded'
  <2> SUFFICES ASSUME NEW b \in Instance \ raced, boot[b] \in {"load", "write"}
               PROVE  rows'[SeedOf(b).t][SeedOf(b).id].by # Seeder
    BY DEF Unseeded, SeedOf
  <2>1. at[b] \in SeedNumber
    BY DEF RInv, SInv, BootOK, BootTypes, AtOK
  <2>2. SeedOf(b).t \in Table /\ SeedOf(b).id \in Id
    BY <2>1, SeedTypes DEF SeedOf
  <2> QED
    BY <2>2 DEF RInv, Unseeded, SeedsLeft
<1> QED
  BY <1>1, <1>2, <1>3 DEF RInv

LEMMA RequestsLeave ==
    ASSUME SInv,
           \/ \E c \in Client : ClientStep(c)
           \/ \E ty \in CouponType : TakeUnit(ty) \/ ReturnUnit(ty) \/ IssueFails(ty)
           \/ \E n \in Name : n \in DOMAIN TypeOfName /\ InsertCoupon(n)
           \/ \E row \in Watched : UseRow(row[1], row[2])
    PROVE  SeedsLeft /\ UNCHANGED <<boot, at, raced>>
<1>1. rows' = rows => SeedsLeft
  BY DEF SeedsLeft
<1>2. ASSUME NEW c \in Client, ClientStep(c)
      PROVE  SeedsLeft /\ UNCHANGED <<boot, at, raced>>
  <2>1. UNCHANGED <<boot, at, raced>>
    BY <1>2 DEF ClientStep, Ask, bootVars
  <2>2. CASE SaveUser(c)
    <3>1. Insert("users", email[c], c)
      BY <2>2 DEF SaveUser
    <3> QED
      BY <2>1, <3>1, Addresses, InsertLeaves DEF SInv
  <2>3. CASE ~SaveUser(c)
    BY <1>1, <1>2, <2>1, <2>3
       DEF ClientStep, Register, Login, Sign, RequestFails, TokenExpires
  <2> QED
    BY <2>2, <2>3
<1>3. ASSUME NEW ty \in CouponType, TakeUnit(ty) \/ ReturnUnit(ty) \/ IssueFails(ty)
      PROVE  SeedsLeft /\ UNCHANGED <<boot, at, raced>>
  BY <1>1, <1>3 DEF TakeUnit, ReturnUnit, IssueFails, Ask, tableVars, bootVars
<1>4. ASSUME NEW n \in Name, InsertCoupon(n)
      PROVE  SeedsLeft /\ UNCHANGED <<boot, at, raced>>
  <2>1. Issuer \in Writer \ {Seeder} /\ "coupons" \in Table
    BY SeedAssumption, CounterAssumption DEF Issuer, Seeder
  <2> QED
    BY <1>4, <2>1, InsertLeaves DEF InsertCoupon, bootVars, SInv
<1>5. ASSUME NEW row \in Watched, UseRow(row[1], row[2])
      PROVE  SeedsLeft /\ UNCHANGED <<boot, at, raced>>
  BY <1>5, CounterAssumption, UseLeaves DEF UseRow, bootVars, SInv
<1> QED
  BY <1>2, <1>3, <1>4, <1>5

\* A process that boots goes on to l at k.
LEMMA ContinueRaces ==
    ASSUME RInv, NEW i \in Instance,
           NEW l \in Booting \cup {"down", "serving"}, NEW k, NEW f, Continue(i, l, k, f),
           l \in Booting => boot[i] \in Booting
    PROVE  /\ RacedOK' /\ raced' = raced
           /\ boot'[i] = l /\ at'[i] = k
           /\ \A j \in Instance \ {i} : boot'[j] = boot[j] /\ at'[j] = at[j]
<1>1. /\ boot \in [Instance -> Booting \cup {"down", "serving"}] /\ at \in [Instance -> Int]
      /\ boot' = [boot EXCEPT ![i] = l] /\ at' = [at EXCEPT ![i] = k] /\ raced' = raced
  BY DEF Continue, RInv, SInv, BootOK, BootTypes
<1>2. /\ boot'[i] = l /\ at'[i] = k
      /\ \A j \in Instance \ {i} : boot'[j] = boot[j] /\ at'[j] = at[j]
  BY <1>1
<1>3. RacedOK'
  BY <1>1, <1>2 DEF RInv, RacedOK
<1> QED
  BY <1>1, <1>2, <1>3

\* No row changes: a process comes to a seed only if the seed is not there.
LEMMA QuietRaces ==
    ASSUME RInv, SInv', NEW i \in Instance, UNCHANGED rows,
           NEW l \in Booting \cup {"down", "serving"}, NEW k, NEW f, Continue(i, l, k, f),
           l \in Booting => boot[i] \in Booting,
           l \in {"load", "write"} /\ i \notin raced
              => rows[Seeds[k].t][Seeds[k].id].by # Seeder
    PROVE  RInv'
<1>1. /\ RacedOK' /\ raced' = raced
      /\ boot'[i] = l /\ at'[i] = k
      /\ \A j \in Instance \ {i} : boot'[j] = boot[j] /\ at'[j] = at[j]
  BY ContinueRaces
<1>2. SeederRows'
  BY DEF RInv, SeederRows
<1>3. Unseeded'
  BY <1>1 DEF RInv, Unseeded, SeedOf
<1> QED
  BY <1>1, <1>2, <1>3 DEF RInv

LEMMA SeedRowOne ==
    ASSUME NEW k \in SeedNumber
    PROVE  SeedRow(Seeds[k].t, Seeds[k].id) = {Seeds[k]}
  BY SeedAssumption DEF SeedRow, SeedNumber

LEMMA SeedRaces ==
    ASSUME RInv, SInv', NEW i \in Instance, SeedStep(i)
    PROVE  RInv'
<1>1. at[i] \in SeedNumber
  BY DEF SeedStep, FindSeed, LoadSeed, WriteSeed, RInv, SInv, BootOK, BootTypes, AtOK
<1>2. ASSUME NextSeed(i)
      PROVE  \E l \in {"stock", "find"}, k \in Int : Continue(i, l, k, FALSE)
  <2>1. at[i] \in Int
    BY DEF RInv, SInv, BootOK, BootTypes
  <2>2. Continue(i, "stock", 1, FALSE) \/ Continue(i, "find", at[i] + 1, FALSE)
    BY <1>2 DEF NextSeed
  <2>3. 1 \in Int /\ at[i] + 1 \in Int
    BY <2>1
  <2> QED
    BY <2>2, <2>3, Zenon
<1>3. CASE FindSeed(i)
  <2>1. UNCHANGED rows /\ boot[i] \in Booting
    BY <1>3 DEF FindSeed, tableVars, Booting
  <2>2. CASE NextSeed(i)
    BY <1>2, <2>1, <2>2, QuietRaces DEF Booting
  <2>3. CASE ~FoundByName(SeedOf(i)) /\ Continue(i, "load", at[i], FALSE)
    <3>1. rows[Seeds[at[i]].t][Seeds[at[i]].id].by # Seeder
      <4>1. rows[Seeds[at[i]].t][Seeds[at[i]].id].name # Seeds[at[i]].name
        BY <1>1, <2>3, SeedTypes DEF FoundByName, Named, SeedOf
      <4> QED
        BY <1>1, <4>1, SeedRowOne, SeedTypes DEF RInv, SeederRows
    <3> QED
      BY <2>1, <2>3, <3>1, QuietRaces DEF Booting
  <2> QED
    BY <1>3, <2>2, <2>3 DEF FindSeed
<1>4. CASE LoadSeed(i)
  <2>1. UNCHANGED rows /\ boot[i] = "load"
    BY <1>4 DEF LoadSeed, tableVars
  <2>2. PICK f : Continue(i, "write", at[i], f)
    BY <1>4 DEF LoadSeed
  <2> QED
    BY <2>1, <2>2, QuietRaces DEF RInv, Unseeded, SeedOf, Booting
<1>5. CASE WriteSeed(i)
  <2> DEFINE t == Seeds[at[i]].t
             id == Seeds[at[i]].id
             row == NewRow(Seeds[at[i]].name, Seeder)
  <2>1. rows' = [rows EXCEPT ![t][id] = row] /\ NextSeed(i) /\ boot[i] = "write"
    BY <1>5 DEF WriteSeed, UpdateById, InsertWithId, SeedOf
  <2>2. PICK l \in {"stock", "find"}, k \in Int : Continue(i, l, k, FALSE)
    BY <1>2, <2>1
  <2>3. /\ RacedOK' /\ raced' = raced /\ boot'[i] = l
        /\ \A j \in Instance \ {i} : boot'[j] = boot[j]
    BY <2>1, <2>2, ContinueRaces DEF Booting
  <2>4. row \in Row /\ row.name = Seeds[at[i]].name /\ t \in Table /\ id \in Id
    BY <1>1, SeedTypes, Rows, SeedAssumption
  <2>5. Seeds[at[i]] \in SeedRow(t, id)
    BY <1>1, SeedRowOne
  <2> HIDE DEF t, id, row
  <2>6. \A u \in Table, j \in Id :
           rows'[u][j] = IF u = t /\ j = id THEN row ELSE rows[u][j]
    BY <2>1, <2>4, Put DEF RInv, SInv, TInv, TablesOK
  <2>7. SeederRows'
    BY <2>4, <2>5, <2>6 DEF RInv, SeederRows
  <2>8. ASSUME NEW b \in Instance \ raced PROVE boot'[b] \notin {"load", "write"}
    <3>1. CASE b = i
      BY <2>3, <3>1
    <3>2. CASE b # i
      BY <2>1, <2>3, <3>2 DEF RInv, RacedOK, Booting
    <3> QED
      BY <3>1, <3>2
  <2> QED
    BY <2>3, <2>7, <2>8 DEF RInv, Unseeded
<1> QED
  BY <1>3, <1>4, <1>5 DEF SeedStep

LEMMA BootRaces ==
    ASSUME RInv, SInv', NEW i \in Instance, BootStep(i)
    PROVE  RInv'
<1>1. CASE Boot(i)
  <2>1. /\ UNCHANGED <<rows, at>> /\ boot \in [Instance -> Booting \cup {"down", "serving"}]
        /\ \E l \in {"tables", "serving"} : boot' = [boot EXCEPT ![i] = l]
    BY <1>1 DEF Boot, tableVars, RInv, SInv, BootOK, BootTypes
  <2>2. \A j \in Instance \ {i} :
           /\ boot'[j] = boot[j]
           /\ boot[j] \in Booting => j \in raced' /\ i \in raced'
           /\ j \in raced => j \in raced'
    BY <1>1, <2>1 DEF Boot
  <2>3. boot'[i] \in {"tables", "serving"}
    BY <2>1
  <2>4. SeederRows'
    BY <2>1 DEF RInv, SeederRows
  <2>5. RacedOK'
    BY <2>2 DEF RInv, RacedOK
  <2>6. Unseeded'
    BY <2>2, <2>3 DEF Unseeded, Booting
  <2> QED
    BY <2>4, <2>5, <2>6 DEF RInv
<1>2. CASE WaitForTables(i) \/ SeedingFails(i) \/ Crash(i) \/ SetStock(i)
  <2>1. /\ UNCHANGED rows
        /\ \E l \in {"find", "serving", "down", "stock"}, k \in {1, at[i] + 1} :
              Continue(i, l, k, FALSE) /\ (l \in Booting => boot[i] \in Booting)
    BY <1>2 DEF WaitForTables, SeedingFails, Crash, SetStock, Booting, tableVars
  <2> QED
    BY <2>1, QuietRaces DEF Booting
<1> QED
  BY <1>1, <1>2, SeedRaces DEF BootStep, SeedAdminUser, SeedProducts, SeedCoupons

LEMMA InitRInv == SeedingInit => RInv
<1> SUFFICES ASSUME SeedingInit PROVE RInv
  OBVIOUS
<1>1. SInv
  BY InitSInv
<1>2. \A t \in Table, i \in Id : rows[t][i].by # Seeder
  BY DEF SeedingInit, TablesInit, NoRow, NoOne, Seeder
<1>3. SeederRows /\ RacedOK /\ Unseeded
  BY <1>2 DEF SeedingInit, SeederRows, RacedOK, Unseeded, Booting
<1> QED
  BY <1>1, <1>3 DEF RInv

LEMMA NextRInv == RInv /\ [SeedingNext]_seedingVars => RInv'
<1> SUFFICES ASSUME RInv, [SeedingNext]_seedingVars PROVE RInv'
  OBVIOUS
<1>1. SInv'
  BY NextSInv DEF RInv
<1>2. CASE UNCHANGED seedingVars
  BY <1>1, <1>2, LeftStep DEF seedingVars, tableVars, bootVars, SeedsLeft
<1>3. ASSUME NEW i \in Instance, BootStep(i) PROVE RInv'
  BY <1>1, <1>3, BootRaces
<1>4. CASE ~(\E i \in Instance : BootStep(i)) /\ SeedingNext
  BY <1>1, <1>4, RequestsLeave, LeftStep DEF SeedingNext, RInv
<1> QED
  BY <1>2, <1>3, <1>4

LEMMA RacedInvariant == SeedingSpec => []RInv
  BY InitRInv, NextRInv, PTL DEF SeedingSpec

----------------------------------------------------------------------------
(* The counters follow the seeds.                                          *)
(*                                                                         *)
(* A process is past a seed only when its name is in the table, and a name *)
(* is lost only where a seed takes the row of a request: one whose id was  *)
(* drawn for that name.                                                    *)

Saved(k) ==
    \/ Named(Seeds[k].t, Seeds[k].name)
    \/ \E j \in SeedNumber : /\ Seeds[j].t = Seeds[k].t
                             /\ drawn[Seeds[j].t][Seeds[j].id] = Seeds[k].name

AllSaved == \A k \in SeedNumber : Saved(k)

SeedsDone ==
    /\ \A i \in Instance :
          /\ boot[i] \in {"find", "load", "write"} =>
                \A k \in SeedNumber : k < at[i] => Saved(k)
          /\ boot[i] = "stock" => AllSaved
    /\ (\E ty \in CouponType : sets[ty] > 0) => AllSaved

CInv == RInv /\ SeedsDone

LEMMA DrawnKept ==
    ASSUME SInv, [SeedingNext]_seedingVars
    PROVE  \A t \in Table, i \in Id : drawn[t][i] # NoName => drawn'[t][i] = drawn[t][i]
<1>1. CASE drawn' = drawn
  BY <1>1
<1>2. ASSUME NEW c \in Client, SaveUser(c) PROVE Kept
  <2>1. Insert("users", email[c], c)
    BY <1>2 DEF SaveUser
  <2> QED
    BY <2>1, Addresses, InsertStep DEF SInv
<1>3. ASSUME NEW n \in Name, InsertCoupon(n) PROVE Kept
  <2>1. Issuer \in Writer \ {Seeder} /\ "coupons" \in Table
    BY SeedAssumption, CounterAssumption DEF Issuer, Seeder
  <2> QED
    BY <1>3, <2>1, InsertStep DEF InsertCoupon, SInv
<1>4. \/ drawn' = drawn
      \/ \E c \in Client : SaveUser(c)
      \/ \E n \in Name : InsertCoupon(n)
  <2>1. ASSUME NEW i \in Instance, BootStep(i) PROVE drawn' = drawn
    BY <2>1 DEF BootStep, Boot, WaitForTables, SeedAdminUser, SeedProducts, SeedCoupons,
       SeedStep, FindSeed, LoadSeed, WriteSeed, UpdateById, InsertWithId, SetStock,
       SeedingFails, Crash, tableVars
  <2>2. ASSUME NEW c \in Client, ClientStep(c) PROVE drawn' = drawn \/ SaveUser(c)
    BY <2>2 DEF ClientStep, Register, Login, Sign, RequestFails, TokenExpires, tableVars
  <2>3. ASSUME NEW ty \in CouponType, TakeUnit(ty) \/ ReturnUnit(ty) \/ IssueFails(ty)
        PROVE  drawn' = drawn
    BY <2>3 DEF TakeUnit, ReturnUnit, IssueFails, tableVars
  <2>4. ASSUME NEW row \in Watched, UseRow(row[1], row[2]) PROVE drawn' = drawn
    BY <2>4 DEF UseRow, Use
  <2>5. UNCHANGED seedingVars => drawn' = drawn
    BY DEF seedingVars, tableVars
  <2> QED
    BY <2>1, <2>2, <2>3, <2>4, <2>5 DEF SeedingNext
<1> QED
  BY <1>1, <1>2, <1>3, <1>4 DEF Kept

\* The write of a seed leaves every other row as it is.
LEMMA WriteTouches ==
    ASSUME SInv, NEW i \in Instance, WriteSeed(i)
    PROVE  /\ at[i] \in SeedNumber
           /\ \A u \in Table, j \in Id :
                 rows'[u][j] = IF u = Seeds[at[i]].t /\ j = Seeds[at[i]].id
                               THEN NewRow(Seeds[at[i]].name, Seeder) ELSE rows[u][j]
<1> DEFINE t == Seeds[at[i]].t
           id == Seeds[at[i]].id
           row == NewRow(Seeds[at[i]].name, Seeder)
<1>1. at[i] \in SeedNumber
  BY DEF WriteSeed, SInv, BootOK, BootTypes, AtOK
<1>2. rows' = [rows EXCEPT ![t][id] = row]
  BY DEF WriteSeed, UpdateById, InsertWithId, SeedOf
<1>3. row \in Row /\ t \in Table /\ id \in Id
  BY <1>1, SeedTypes, Rows, SeedAssumption
<1> HIDE DEF t, id, row
<1>4. \A u \in Table, j \in Id :
         rows'[u][j] = IF u = t /\ j = id THEN row ELSE rows[u][j]
  BY <1>2, <1>3, Put DEF SInv, TInv, TablesOK
<1> QED
  BY <1>1, <1>4 DEF t, id, row

\* Rows change by a seed's write or leave every name where it is.
LEMMA NamesChange ==
    ASSUME RInv, [SeedingNext]_seedingVars
    PROVE  SeedsLeft \/ \E i \in Instance : WriteSeed(i)
<1>1. ASSUME NEW i \in Instance, BootStep(i) PROVE SeedsLeft \/ WriteSeed(i)
  <2>1. rows' = rows \/ WriteSeed(i)
    BY <1>1 DEF BootStep, Boot, WaitForTables, SeedAdminUser, SeedProducts, SeedCoupons,
       SeedStep, FindSeed, LoadSeed, SetStock, SeedingFails, Crash, tableVars
  <2> QED
    BY <2>1 DEF SeedsLeft
<1>2. UNCHANGED seedingVars => SeedsLeft
  BY DEF seedingVars, tableVars, SeedsLeft
<1> QED
  BY <1>1, <1>2, RequestsLeave DEF SeedingNext, RInv

LEMMA SavedStays ==
    ASSUME RInv, [SeedingNext]_seedingVars, NEW k \in SeedNumber, Saved(k)
    PROVE  Saved(k)'
<1>1. Seeds[k].t \in Table /\ Seeds[k].name \in Name /\ Seeds[k].name # NoName
  BY SeedTypes, NobodyAssumption
<1>2. CASE \E j \in SeedNumber : /\ Seeds[j].t = Seeds[k].t
                                 /\ drawn[Seeds[j].t][Seeds[j].id] = Seeds[k].name
  BY <1>1, <1>2, SeedTypes, DrawnKept DEF Saved, RInv
<1>3. CASE Named(Seeds[k].t, Seeds[k].name)
  <2>1. PICK i \in Id : rows[Seeds[k].t][i].name = Seeds[k].name
    BY <1>3 DEF Named
  <2>2. CASE rows'[Seeds[k].t][i].name = Seeds[k].name
    BY <2>2 DEF Saved, Named
  <2>3. CASE rows'[Seeds[k].t][i].name # Seeds[k].name
    <3>1. ~SeedsLeft
      BY <1>1, <2>1, <2>3 DEF SeedsLeft
    <3>2. PICK b \in Instance : WriteSeed(b)
      BY <3>1, NamesChange
    <3>3. /\ at[b] \in SeedNumber /\ Seeds[at[b]].t = Seeds[k].t /\ Seeds[at[b]].id = i
          /\ rows'[Seeds[k].t][i] = NewRow(Seeds[at[b]].name, Seeder)
      BY <1>1, <2>1, <2>3, <3>2, WriteTouches DEF RInv
    <3>4. Seeds[at[b]].name # Seeds[k].name
      BY <2>3, <3>3, Rows, SeedTypes, SeedAssumption
    <3>5. rows[Seeds[k].t][i].by # Seeder
      BY <1>1, <2>1, <3>3, <3>4, SeedRowOne DEF RInv, SeederRows
    <3>6. drawn[Seeds[k].t][i] = Seeds[k].name
      BY <1>1, <2>1, <3>5, Rows DEF RInv, SInv, TInv, DrawnOK, Present
    <3> QED
      BY <1>1, <3>3, <3>6, DrawnKept DEF Saved, RInv
  <2> QED
    BY <2>2, <2>3
<1> QED
  BY <1>2, <1>3 DEF Saved

\* A process goes on after a seed that is saved.
LEMMA NextSeedDone ==
    ASSUME RInv, SeedsDone, NEW i \in Instance, at[i] \in SeedNumber,
           boot[i] \in {"find", "load", "write"}, NextSeed(i), sets' = sets,
           \A k \in SeedNumber : Saved(k) \/ k = at[i] => Saved(k)'
    PROVE  SeedsDone'
<1>1. /\ boot \in [Instance -> Booting \cup {"down", "serving"}] /\ at \in [Instance -> Int]
      /\ SeedNumber \subseteq Nat /\ SeedNumber = 1 .. Len(Seeds)
  BY Seeded, SeedAssumption DEF RInv, SInv, BootOK, BootTypes, SeedNumber
<1>2. \A k \in SeedNumber : k <= at[i] => Saved(k)'
  BY <1>1 DEF SeedsDone
<1>3. AllSaved => AllSaved'
  BY DEF AllSaved
<1>4. CASE at[i] = Len(Seeds)
  <2>1. boot' = [boot EXCEPT ![i] = "stock"] /\ at' = [at EXCEPT ![i] = 1]
    BY <1>4 DEF NextSeed, Continue
  <2>2. AllSaved'
    BY <1>1, <1>2, <1>4 DEF AllSaved
  <2> QED
    BY <1>1, <2>1, <2>2 DEF SeedsDone, AllSaved
<1>5. CASE at[i] # Len(Seeds)
  <2>1. boot' = [boot EXCEPT ![i] = "find"] /\ at' = [at EXCEPT ![i] = at[i] + 1]
    BY <1>5 DEF NextSeed, Continue
  <2>2. \A k \in SeedNumber : k < at[i] + 1 => Saved(k)'
    BY <1>1, <1>2
  <2> QED
    BY <1>1, <1>3, <2>1, <2>2 DEF SeedsDone
<1> QED
  BY <1>4, <1>5

\* A process that goes anywhere else.
LEMMA OtherDone ==
    ASSUME RInv, SeedsDone, NEW i \in Instance,
           \A j \in Instance \ {i} : boot'[j] = boot[j] /\ at'[j] = at[j],
           \A k \in SeedNumber : Saved(k) => Saved(k)',
           \/ boot'[i] = boot[i] /\ at'[i] = at[i]
           \/ boot'[i] \in {"down", "serving", "tables"}
           \/ boot'[i] = "find" /\ at'[i] = 1
           \/ /\ boot[i] \in {"find", "load"} /\ boot'[i] \in {"load", "write"}
              /\ at'[i] = at[i]
           \/ boot[i] = "stock" /\ boot'[i] = "stock",
           sets' = sets \/ boot[i] = "stock"
    PROVE  SeedsDone'
<1>1. \A k \in SeedNumber : ~(k < 1)
  BY Seeded, SeedAssumption DEF SeedNumber
<1>2. AllSaved => AllSaved'
  BY DEF AllSaved
<1>3. (\E ty \in CouponType : sets'[ty] > 0) => AllSaved'
  BY <1>2 DEF SeedsDone
<1>4. ASSUME NEW j \in Instance
      PROVE  /\ boot'[j] \in {"find", "load", "write"} =>
                   \A k \in SeedNumber : k < at'[j] => Saved(k)'
             /\ boot'[j] = "stock" => AllSaved'
  <2>1. CASE j = i
    BY <1>1, <1>2, <2>1 DEF SeedsDone
  <2>2. CASE j # i
    BY <1>2, <2>2 DEF SeedsDone
  <2> QED
    BY <2>1, <2>2
<1> QED
  BY <1>3, <1>4 DEF SeedsDone

LEMMA DoneStep ==
    ASSUME RInv, SeedsDone, [SeedingNext]_seedingVars
    PROVE  SeedsDone'
<1>1. \A k \in SeedNumber : Saved(k) => Saved(k)'
  BY SavedStays
<1>2. boot \in [Instance -> Booting \cup {"down", "serving"}] /\ at \in [Instance -> Int]
  BY DEF RInv, SInv, BootOK, BootTypes
<1>3. ASSUME NEW i \in Instance, SeedStep(i) PROVE SeedsDone'
  <2>1. at[i] \in SeedNumber /\ boot[i] \in {"find", "load", "write"} /\ sets' = sets
    BY <1>3 DEF SeedStep, FindSeed, LoadSeed, WriteSeed, RInv, SInv, BootOK, BootTypes, AtOK,
       stockVars
  <2>2. CASE NextSeed(i)
    <3>1. ASSUME NEW k \in SeedNumber, k = at[i] PROVE Saved(k)'
      <4>1. CASE FindSeed(i) /\ FoundByName(SeedOf(i))
        <5>1. Named(Seeds[k].t, Seeds[k].name)
          BY <3>1, <4>1 DEF FoundByName, SeedOf
        <5> QED
          BY <1>1, <5>1 DEF Saved
      <4>2. CASE WriteSeed(i)
        <5>1. /\ Seeds[k].t \in Table /\ Seeds[k].id \in Id
              /\ NewRow(Seeds[k].name, Seeder).name = Seeds[k].name
          BY SeedTypes, Rows, SeedAssumption
        <5>2. rows'[Seeds[k].t][Seeds[k].id].name = Seeds[k].name
          BY <3>1, <4>2, <5>1, WriteTouches DEF RInv
        <5> QED
          BY <5>1, <5>2 DEF Saved, Named
      <4>3. (FindSeed(i) /\ FoundByName(SeedOf(i))) \/ WriteSeed(i)
        <5>1. ASSUME FindSeed(i), ~FoundByName(SeedOf(i)) PROVE FALSE
          <6>1. Continue(i, "load", at[i], FALSE)
            BY <5>1 DEF FindSeed
          <6> QED
            BY <1>2, <2>2, <6>1 DEF NextSeed, Continue
        <5>2. ASSUME LoadSeed(i) PROVE FALSE
          BY <1>2, <2>2, <5>2 DEF LoadSeed, NextSeed, Continue
        <5> QED
          BY <1>3, <5>1, <5>2 DEF SeedStep
      <4> QED
        BY <4>1, <4>2, <4>3
    <3> QED
      BY <1>1, <2>1, <2>2, <3>1, NextSeedDone
  <2>3. CASE ~NextSeed(i)
    <3>1. \/ boot[i] = "find" /\ Continue(i, "load", at[i], FALSE)
          \/ boot[i] = "load" /\ \E f : Continue(i, "write", at[i], f)
      BY <1>3, <2>3 DEF SeedStep, FindSeed, LoadSeed, WriteSeed
    <3>2. /\ \A j \in Instance \ {i} : boot'[j] = boot[j] /\ at'[j] = at[j]
          /\ boot[i] \in {"find", "load"} /\ boot'[i] \in {"load", "write"}
          /\ at'[i] = at[i]
      BY <1>2, <3>1 DEF Continue
    <3> QED
      BY <1>1, <2>1, <3>2, OtherDone
  <2> QED
    BY <2>2, <2>3
<1>4. ASSUME NEW i \in Instance,
             Boot(i) \/ WaitForTables(i) \/ SetStock(i) \/ SeedingFails(i) \/ Crash(i)
      PROVE  SeedsDone'
  <2>1. \A j \in Instance \ {i} : boot'[j] = boot[j] /\ at'[j] = at[j]
    BY <1>2, <1>4 DEF Boot, WaitForTables, SetStock, SeedingFails, Crash, Continue
  <2>2. \/ boot'[i] \in {"down", "serving", "tables"}
        \/ boot'[i] = "find" /\ at'[i] = 1
        \/ boot[i] = "stock" /\ boot'[i] = "stock"
    BY <1>2, <1>4 DEF Boot, WaitForTables, SetStock, SeedingFails, Crash, Continue
  <2>3. sets' = sets \/ boot[i] = "stock"
    BY <1>4 DEF Boot, WaitForTables, SetStock, SeedingFails, Crash, stockVars
  <2> QED
    BY <1>1, <2>1, <2>2, <2>3, OtherDone
<1>5. CASE UNCHANGED <<boot, at, sets>>
  BY <1>1, <1>5 DEF SeedsDone, AllSaved
<1>6. ASSUME NEW c \in Client, ClientStep(c) PROVE UNCHANGED <<boot, at, sets>>
  BY <1>6 DEF ClientStep, Ask, bootVars, stockVars
<1>7. ASSUME NEW ty \in CouponType, TakeUnit(ty) \/ ReturnUnit(ty) \/ IssueFails(ty)
      PROVE  UNCHANGED <<boot, at, sets>>
  BY <1>7 DEF TakeUnit, ReturnUnit, IssueFails, Ask, bootVars
<1>8. ASSUME NEW n \in Name, InsertCoupon(n) PROVE UNCHANGED <<boot, at, sets>>
  BY <1>8 DEF InsertCoupon, bootVars
<1>9. ASSUME NEW row \in Watched, UseRow(row[1], row[2]) PROVE UNCHANGED <<boot, at, sets>>
  BY <1>9 DEF UseRow, bootVars, stockVars
<1>10. UNCHANGED seedingVars => UNCHANGED <<boot, at, sets>>
  BY DEF seedingVars, bootVars, stockVars
<1> QED
  BY <1>3, <1>4, <1>5, <1>6, <1>7, <1>8, <1>9, <1>10
     DEF SeedingNext, BootStep, SeedAdminUser, SeedProducts, SeedCoupons

LEMMA DoneInvariant == SeedingSpec => []CInv
<1>1. SeedingInit => CInv
  BY InitRInv DEF SeedingInit, CInv, SeedsDone
<1>2. CInv /\ [SeedingNext]_seedingVars => CInv'
  BY NextRInv, DoneStep DEF CInv
<1> QED
  BY <1>1, <1>2, PTL DEF SeedingSpec

----------------------------------------------------------------------------
(* What is issued, per bootstrap.                                          *)
(*                                                                         *)
(* The bound on what was issued and is about to be is not inductive: a     *)
(* DECR adds to it.  It is together with the bound on the same plus what   *)
(* the counter says is left and what is about to be given back.            *)

Offered(ty) == StartStock[ty] * sets[ty] + late[ty]
Spent(ty) == Cardinality(Issued(ty)) + saving[ty]

Counted ==
    \A ty \in CouponType : /\ Spent(ty) <= Offered(ty)
                           /\ Spent(ty) + counter[ty] + short[ty] <= Offered(ty)

LEMMA IssuedFinite ==
    ASSUME NEW ty
    PROVE  IsFiniteSet(Issued(ty)) /\ Cardinality(Issued(ty)) \in Nat
<1>1. IsFiniteSet(Id)
  BY TableAssumption, FS_Interval DEF Id
<1>2. Issued(ty) \subseteq Id
  BY DEF Issued
<1> QED
  BY <1>1, <1>2, FS_Subset, FS_CardinalityType

LEMMA OfferedNat ==
    ASSUME StockOK, NEW ty \in CouponType
    PROVE  Offered(ty) \in Nat /\ Spent(ty) \in Nat
<1>1. StartStock[ty] \in Nat /\ sets[ty] \in Nat /\ late[ty] \in Nat /\ saving[ty] \in Nat
  BY CounterAssumption DEF StockOK
<1>2. StartStock[ty] * sets[ty] \in Nat
  BY <1>1
<1> QED
  BY <1>1, <1>2, IssuedFinite DEF Offered, Spent

LEMMA OneMore ==
    ASSUME NEW m \in Nat, NEW n \in Nat
    PROVE  m * (n + 1) = m * n + m
  OBVIOUS

\* Nobody but the issuer adds to what is issued.
LEMMA IssuedLeft ==
    ASSUME SInv, [SeedingNext]_seedingVars,
           ~\E n \in Name : n \in DOMAIN TypeOfName /\ InsertCoupon(n)
    PROVE  \A ty \in CouponType : Issued(ty)' \subseteq Issued(ty)
<1>1. ASSUME \A j \in Id : rows'["coupons"][j].by = Issuer
                              => rows'["coupons"][j] = rows["coupons"][j]
      PROVE  \A ty \in CouponType : Issued(ty)' \subseteq Issued(ty)
  BY <1>1 DEF Issued
<1>2. "coupons" \in Table /\ "users" \in Table /\ Issuer # Seeder
  BY CounterAssumption, TableAssumption, ClientAssumption DEF Issuer, Seeder
<1>3. ASSUME NEW c \in Client, ClientStep(c) PROVE rows'["coupons"] = rows["coupons"]
  <2>1. CASE rows' = rows
    BY <2>1
  <2>2. CASE rows' # rows
    <3>1. Insert("users", email[c], c)
      BY <1>3, <2>2 DEF ClientStep, Register, SaveUser, Login, Sign, RequestFails,
         TokenExpires, tableVars
    <3>2. rows' = [rows EXCEPT !["users"][nextId["users"]] = NewRow(email[c], c)]
      BY <2>2, <3>1 DEF Insert
    <3> QED
      BY <1>2, <3>2 DEF SInv, TInv, TablesOK
  <2> QED
    BY <2>1, <2>2
<1>4. ASSUME NEW row \in Watched, UseRow(row[1], row[2]), NEW j \in Id,
             rows'["coupons"][j].by = Issuer
      PROVE  rows'["coupons"][j] = rows["coupons"][j]
  <2>1. row[1] \in Table /\ row[2] \in Id
    BY CounterAssumption
  <2>2. SeedsLeft
    BY <1>4, <2>1, UseLeaves DEF UseRow, SInv
  <2>3. ~(row[1] = "coupons" /\ row[2] = j)
    BY <1>2, <1>4, <2>2 DEF SeedsLeft, UseRow
  <2> DEFINE e == [rows[row[1]][row[2]] EXCEPT !.used = TRUE]
  <2>4. rows' = [rows EXCEPT ![row[1]][row[2]] = e]
    BY <1>4, <2>1 DEF UseRow, Use, SInv, TInv, TablesOK
  <2> HIDE DEF e
  <2> QED
    BY <1>2, <2>1, <2>3, <2>4 DEF SInv, TInv, TablesOK
<1>5. ASSUME NEW i \in Instance, WriteSeed(i), NEW j \in Id,
             rows'["coupons"][j].by = Issuer
      PROVE  rows'["coupons"][j] = rows["coupons"][j]
  <2>1. at[i] \in SeedNumber /\ NewRow(Seeds[at[i]].name, Seeder).by = Seeder
    BY <1>5, WriteTouches, SeedTypes, Rows, SeedAssumption
  <2> QED
    BY <1>2, <1>5, <2>1, WriteTouches
<1>6. ASSUME NEW i \in Instance, BootStep(i) PROVE rows' = rows \/ WriteSeed(i)
  BY <1>6 DEF BootStep, Boot, WaitForTables, SeedAdminUser, SeedProducts, SeedCoupons,
     SeedStep, FindSeed, LoadSeed, SetStock, SeedingFails, Crash, tableVars
<1>7. ASSUME NEW ty \in CouponType, TakeUnit(ty) \/ ReturnUnit(ty) \/ IssueFails(ty)
      PROVE  rows' = rows
  BY <1>7 DEF TakeUnit, ReturnUnit, IssueFails, tableVars
<1>8. UNCHANGED seedingVars => rows' = rows
  BY DEF seedingVars, tableVars
<1> QED
  BY <1>1, <1>3, <1>4, <1>5, <1>6, <1>7, <1>8 DEF SeedingNext

\* A coupon that is inserted is one more of its type.
LEMMA IssuedGrows ==
    ASSUME SInv, NEW n \in Name, InsertCoupon(n), NEW ty \in CouponType
    PROVE  Cardinality(Issued(ty)') <= Cardinality(Issued(ty))
                                          + (IF TypeOfName[n] = ty THEN 1 ELSE 0)
<1> DEFINE i == nextId["coupons"]
<1>1. Insert("coupons", n, Issuer) /\ "coupons" \in Table /\ Issuer \in Writer
  BY SeedAssumption, CounterAssumption DEF InsertCoupon
<1>2. CASE rows' = rows
  <2>1. Issued(ty)' = Issued(ty)
    BY <1>2 DEF Issued
  <2> QED
    BY <2>1, IssuedFinite
<1>3. CASE rows' # rows
  <2>1. i \in Id /\ rows' = [rows EXCEPT !["coupons"][i] = NewRow(n, Issuer)]
    BY <1>1, <1>3 DEF Insert
  <2>2. NewRow(n, Issuer).name = n /\ NewRow(n, Issuer) \in Row
    BY <1>1, Rows
  <2>3. \A j \in Id : rows'["coupons"][j] = IF j = i THEN NewRow(n, Issuer)
                                                    ELSE rows["coupons"][j]
    BY <1>1, <2>1 DEF SInv, TInv, TablesOK
  <2>4. CASE TypeOfName[n] = ty
    <3>1. Issued(ty)' \subseteq Issued(ty) \cup {i}
      BY <2>3 DEF Issued
    <3> HIDE DEF i
    <3>4. IsFiniteSet(Issued(ty)) /\ Cardinality(Issued(ty)) \in Nat
      BY IssuedFinite
    <3>5. /\ IsFiniteSet(Issued(ty) \cup {i})
          /\ \/ Cardinality(Issued(ty) \cup {i}) = Cardinality(Issued(ty))
             \/ Cardinality(Issued(ty) \cup {i}) = Cardinality(Issued(ty)) + 1
      BY <3>4, FS_AddElement
    <3>2. /\ IsFiniteSet(Issued(ty) \cup {i})
          /\ Cardinality(Issued(ty) \cup {i}) <= Cardinality(Issued(ty)) + 1
      BY <3>4, <3>5
    <3>3. Cardinality(Issued(ty)') <= Cardinality(Issued(ty) \cup {i})
          /\ Cardinality(Issued(ty)') \in Nat /\ Cardinality(Issued(ty) \cup {i}) \in Nat
      BY <3>1, <3>2, FS_Subset, FS_CardinalityType
    <3> QED
      BY <2>4, <3>2, <3>3, IssuedFinite
  <2>5. CASE TypeOfName[n] # ty
    <3>1. Issued(ty)' \subseteq Issued(ty)
      BY <2>2, <2>3, <2>5 DEF Issued
    <3>2. Cardinality(Issued(ty)') <= Cardinality(Issued(ty))
          /\ Cardinality(Issued(ty)') \in Nat
      BY <3>1, IssuedFinite, FS_Subset, FS_CardinalityType
    <3> QED
      BY <2>5, <3>2, IssuedFinite
  <2> QED
    BY <2>4, <2>5
<1> QED
  BY <1>2, <1>3

LEMMA CountedStep ==
    ASSUME SInv, Counted, [SeedingNext]_seedingVars
    PROVE  Counted'
<1>1. StockOK /\ StockOK' /\ SInv'
  BY NextSInv DEF SInv
<1>2. \A ty \in CouponType :
         /\ saving[ty] \in Nat /\ short[ty] \in Nat /\ counter[ty] \in Int
         /\ saving'[ty] \in Nat /\ short'[ty] \in Nat /\ counter'[ty] \in Int
         /\ sets[ty] \in Nat /\ late[ty] \in Nat /\ StartStock[ty] \in Nat
         /\ Offered(ty) \in Nat /\ Spent(ty) \in Nat
         /\ Cardinality(Issued(ty)) \in Nat /\ Cardinality(Issued(ty)') \in Nat
  <2> TAKE ty \in CouponType
  <2>1. IsFiniteSet(Issued(ty)') /\ Cardinality(Issued(ty)') \in Nat
    <3>1. IsFiniteSet(Id) /\ Issued(ty)' \subseteq Id
      BY TableAssumption, FS_Interval DEF Id, Issued
    <3> QED
      BY <3>1, FS_Subset, FS_CardinalityType
  <2> QED
    BY <1>1, <2>1, IssuedFinite, OfferedNat, CounterAssumption DEF StockOK
\* A step that neither spends nor offers more.
<1>3. ASSUME UNCHANGED <<sets, late>>,
             \A ty \in CouponType :
                /\ Cardinality(Issued(ty)') + saving'[ty] <= Spent(ty)
                /\ Cardinality(Issued(ty)') + saving'[ty] + counter'[ty] + short'[ty]
                      <= Spent(ty) + counter[ty] + short[ty]
      PROVE  Counted'
  <2>1. \A ty \in CouponType : Offered(ty)' = Offered(ty)
    BY <1>3 DEF Offered
  <2>2. \A ty \in CouponType : Spent(ty)' = Cardinality(Issued(ty)') + saving'[ty]
    BY DEF Spent
  <2> SUFFICES ASSUME NEW ty \in CouponType
               PROVE  /\ Spent(ty)' <= Offered(ty)
                      /\ Spent(ty)' + counter'[ty] + short'[ty] <= Offered(ty)
    BY <2>1 DEF Counted
  <2>3. Spent(ty) <= Offered(ty) /\ Spent(ty) + counter[ty] + short[ty] <= Offered(ty)
    BY DEF Counted
  <2> QED
    BY <1>2, <1>3, <2>2, <2>3
<1>4. ASSUME ~\E n \in Name : n \in DOMAIN TypeOfName /\ InsertCoupon(n),
             NEW ty \in CouponType
      PROVE  Cardinality(Issued(ty)') <= Cardinality(Issued(ty))
  <2>1. Issued(ty)' \subseteq Issued(ty)
    BY <1>4, IssuedLeft
  <2> QED
    BY <2>1, IssuedFinite, FS_Subset
<1>5. ASSUME NEW n \in Name, InsertCoupon(n) PROVE Counted'
  <2>1. /\ saving' = [saving EXCEPT ![TypeOfName[n]] = @ - 1]
        /\ UNCHANGED <<counter, short, sets, late>>
    BY <1>5 DEF InsertCoupon
  <2>2. ASSUME NEW ty \in CouponType
        PROVE  Cardinality(Issued(ty)') + saving'[ty] <= Spent(ty)
    <3>1. Cardinality(Issued(ty)') <= Cardinality(Issued(ty))
                                        + (IF TypeOfName[n] = ty THEN 1 ELSE 0)
      BY <1>1, <1>5, IssuedGrows
    <3>2. saving'[ty] = saving[ty] - (IF TypeOfName[n] = ty THEN 1 ELSE 0)
      BY <1>1, <2>1 DEF StockOK
    <3> QED
      BY <1>2, <3>1, <3>2 DEF Spent
  <2> QED
    BY <1>2, <1>3, <2>1, <2>2
<1>6. ASSUME ~\E n \in Name : n \in DOMAIN TypeOfName /\ InsertCoupon(n) PROVE Counted'
  <2>1. ASSUME UNCHANGED <<sets, late, counter>>,
               \A ty \in CouponType : saving'[ty] <= saving[ty] /\ short'[ty] <= short[ty]
        PROVE  Counted'
    BY <1>2, <1>3, <1>4, <1>6, <2>1 DEF Spent
  <2>2. ASSUME NEW ty0 \in CouponType, TakeUnit(ty0) PROVE Counted'
    <3>1. /\ counter' = [counter EXCEPT ![ty0] = @ - 1] /\ UNCHANGED <<sets, late>>
          /\ \/ /\ counter[ty0] - 1 >= 0 /\ short' = short
                /\ saving' = [saving EXCEPT ![ty0] = @ + 1]
             \/ short' = [short EXCEPT ![ty0] = @ + 1] /\ saving' = saving
      BY <2>2 DEF TakeUnit, Granted
    <3>2. \A ty \in CouponType : Offered(ty)' = Offered(ty)
      BY <3>1 DEF Offered
    <3> SUFFICES ASSUME NEW ty \in CouponType
                 PROVE  /\ Spent(ty)' <= Offered(ty)
                        /\ Spent(ty)' + counter'[ty] + short'[ty] <= Offered(ty)
      BY <3>2 DEF Counted
    <3>3. Cardinality(Issued(ty)') <= Cardinality(Issued(ty))
      BY <1>4, <1>6
    <3>4. Spent(ty) <= Offered(ty) /\ Spent(ty) + counter[ty] + short[ty] <= Offered(ty)
      BY DEF Counted
    <3>5. CASE ty = ty0
      BY <1>1, <1>2, <3>1, <3>3, <3>4, <3>5 DEF Spent, StockOK
    <3>6. CASE ty # ty0
      BY <1>1, <1>2, <3>1, <3>3, <3>4, <3>6 DEF Spent, StockOK
    <3> QED
      BY <3>5, <3>6
  <2>3. ASSUME NEW ty0 \in CouponType, ReturnUnit(ty0) PROVE Counted'
    <3>1. /\ counter' = [counter EXCEPT ![ty0] = @ + 1]
          /\ short' = [short EXCEPT ![ty0] = @ - 1] /\ UNCHANGED <<saving, sets, late>>
      BY <2>3 DEF ReturnUnit
    <3>2. \A ty \in CouponType : counter'[ty] + short'[ty] = counter[ty] + short[ty]
      BY <1>1, <1>2, <3>1 DEF StockOK
    <3> QED
      BY <1>2, <1>3, <1>4, <1>6, <3>1, <3>2 DEF Spent
  <2>4. ASSUME NEW ty0 \in CouponType, IssueFails(ty0) PROVE Counted'
    <3>1. /\ UNCHANGED <<counter, sets, late>>
          /\ \/ saving' = [saving EXCEPT ![ty0] = @ - 1] /\ short' = short
             \/ short' = [short EXCEPT ![ty0] = @ - 1] /\ saving' = saving
      BY <2>4 DEF IssueFails
    <3>2. \A ty \in CouponType : saving'[ty] <= saving[ty] /\ short'[ty] <= short[ty]
      BY <1>1, <1>2, <3>1 DEF StockOK
    <3> QED
      BY <2>1, <3>1, <3>2
  <2>5. ASSUME NEW i \in Instance, SetStock(i) PROVE Counted'
    <3> DEFINE ty0 == StockTypes[at[i]]
    <3>1. /\ counter' = [counter EXCEPT ![ty0] = StartStock[ty0]]
          /\ sets' = [sets EXCEPT ![ty0] = @ + 1]
          /\ late' = [late EXCEPT ![ty0] = @ + short[ty0]] /\ UNCHANGED <<saving, short>>
      BY <2>5 DEF SetStock
    <3>2. at[i] \in DOMAIN StockTypes
      BY <2>5 DEF SetStock, SInv, BootOK, BootTypes, AtOK
    <3>3. ty0 \in CouponType
      BY <3>2, Seeded
    <3> HIDE DEF ty0
    <3> SUFFICES ASSUME NEW ty \in CouponType
                 PROVE  /\ Spent(ty)' <= Offered(ty)'
                        /\ Spent(ty)' + counter'[ty] + short'[ty] <= Offered(ty)'
      BY DEF Counted
    <3>4. Cardinality(Issued(ty)') <= Cardinality(Issued(ty))
      BY <1>4, <1>6
    <3>5. Spent(ty) <= Offered(ty) /\ Spent(ty) + counter[ty] + short[ty] <= Offered(ty)
      BY DEF Counted
    <3>6. Spent(ty)' <= Spent(ty) /\ Spent(ty)' \in Nat
      BY <1>2, <3>1, <3>4 DEF Spent
    <3>7. CASE ty = ty0
      <4>1. sets'[ty] = sets[ty] + 1 /\ late'[ty] = late[ty] + short[ty]
            /\ counter'[ty] = StartStock[ty] /\ short'[ty] = short[ty]
        BY <1>1, <3>1, <3>7 DEF StockOK
      <4>2. StartStock[ty] * sets'[ty] = StartStock[ty] * sets[ty] + StartStock[ty]
        BY <1>2, <4>1, OneMore
      <4>3. StartStock[ty] * sets[ty] \in Nat
        BY <1>2
      <4>4. Offered(ty)' = Offered(ty) + StartStock[ty] + short[ty]
        BY <1>2, <4>1, <4>2, <4>3 DEF Offered
      <4> QED
        BY <1>2, <3>5, <3>6, <4>1, <4>4
    <3>8. CASE ty # ty0
      <4>1. sets'[ty] = sets[ty] /\ late'[ty] = late[ty]
            /\ counter'[ty] = counter[ty] /\ short'[ty] = short[ty]
        BY <1>1, <3>1, <3>8 DEF StockOK
      <4>2. Offered(ty)' = Offered(ty)
        BY <4>1 DEF Offered
      <4> QED
        BY <1>2, <3>5, <3>6, <4>1, <4>2
    <3> QED
      BY <3>7, <3>8
  <2>6. ASSUME NEW i \in Instance, Crash(i) PROVE Counted'
    <3>1. UNCHANGED <<counter, sets, late>>
      BY <2>6 DEF Crash
    <3>2. \A ty \in CouponType : saving'[ty] <= saving[ty] /\ short'[ty] <= short[ty]
      BY <1>2, <2>6 DEF Crash
    <3> QED
      BY <2>1, <3>1, <3>2
  <2>7. CASE UNCHANGED stockVars
    BY <1>2, <2>1, <2>7 DEF stockVars
  <2>8. ASSUME NEW i \in Instance, BootStep(i)
        PROVE  UNCHANGED stockVars \/ SetStock(i) \/ Crash(i)
    BY <2>8 DEF BootStep, Boot, WaitForTables, SeedAdminUser, SeedProducts, SeedCoupons,
       SeedStep, FindSeed, LoadSeed, WriteSeed, SeedingFails
  <2>9. ASSUME NEW c \in Client, ClientStep(c) PROVE UNCHANGED stockVars
    BY <2>9 DEF ClientStep
  <2>10. ASSUME NEW row \in Watched, UseRow(row[1], row[2]) PROVE UNCHANGED stockVars
    BY <2>10 DEF UseRow
  <2>11. UNCHANGED seedingVars => UNCHANGED stockVars
    BY DEF seedingVars
  <2> QED
    BY <1>6, <2>2, <2>3, <2>4, <2>5, <2>6, <2>7, <2>8, <2>9, <2>10, <2>11 DEF SeedingNext
<1> QED
  BY <1>5, <1>6

----------------------------------------------------------------------------
(* The theorems *)

\* Every reachable state is well typed, and AUTO_INCREMENT is behind every row,
\* those included that the seeder puts under ids of its own.
THEOREM SeedingTypeCorrect == SeedingSpec => []SeedingTypeOK
  BY SeedingInvariant, SInvImplies, PTL

\* However registrations and seedings race, an address has one account.
THEOREM OneAccount == SeedingSpec => []OneAccountPerEmail
  BY SeedingInvariant, SInvImplies, PTL

\* A row that a request inserted is lost to nothing but the seed that wants its
\* id, and a token leads to the row of its owner or to such a seed.
THEOREM InsertedStays == SeedingSpec => []InsertedRowStays
  BY SeedingInvariant, SInvImplies, PTL

LEMMA KeepsUse ==
    ASSUME RInv, [SeedingNext]_seedingVars
    PROVE  \A t \in Table, i \in Id :
              rows[t][i].by = Seeder /\ rows[t][i].used /\ ~rows'[t][i].used
                 => \E b \in raced : boot[b] = "write"
<1> SUFFICES ASSUME NEW t \in Table, NEW i \in Id, rows[t][i].by = Seeder,
                    rows[t][i].used, ~rows'[t][i].used
             PROVE  \E b \in raced : boot[b] = "write"
  OBVIOUS
<1>1. rows' # rows /\ ~SeedsLeft
  BY DEF SeedsLeft
<1>2. PICK b \in Instance : BootStep(b)
  BY <1>1, RequestsLeave DEF SeedingNext, RInv, seedingVars, tableVars
<1>3. WriteSeed(b)
  BY <1>1, <1>2
     DEF BootStep, SeedAdminUser, SeedProducts, SeedCoupons, SeedStep, Boot, WaitForTables,
         FindSeed, LoadSeed, SetStock, SeedingFails, Crash, tableVars
<1>4. boot[b] = "write" /\ at[b] \in SeedNumber
  BY <1>3 DEF WriteSeed, RInv, SInv, BootOK, BootTypes, AtOK
<1>5. rows[SeedOf(b).t][SeedOf(b).id].by = Seeder
  <2> DEFINE row == NewRow(SeedOf(b).name, Seeder)
  <2>1. rows' = [rows EXCEPT ![SeedOf(b).t][SeedOf(b).id] = row]
    BY <1>3 DEF WriteSeed, UpdateById, InsertWithId
  <2>2. SeedOf(b).t \in Table /\ SeedOf(b).id \in Id /\ row \in Row
    BY <1>4, SeedTypes, Rows, SeedAssumption DEF SeedOf
  <2> HIDE DEF row
  <2>3. t = SeedOf(b).t /\ i = SeedOf(b).id
    BY <2>1, <2>2, Put DEF RInv, SInv, TInv, TablesOK
  <2> QED
    BY <2>3
<1> QED
  BY <1>4, <1>5 DEF RInv, Unseeded

\* Starting the program again does not reset what a seeded row has gone through,
\* unless two processes seed at once.
THEOREM SeededKeeps == SeedingSpec => SeededRowKeepsUse
<1>1. RInv /\ [SeedingNext]_seedingVars
        => [\A t \in Table, i \in Id :
               rows[t][i].by = Seeder /\ rows[t][i].used /\ ~rows'[t][i].used
                  => \E b \in raced : boot[b] = "write"]_seedingVars
  BY KeepsUse
<1> QED
  BY <1>1, RacedInvariant, PTL DEF SeedingSpec, SeededRowKeepsUse

\* Wherever processes fail, crash or race while they seed, a stock counter
\* exists only after every seed was saved or found.
THEOREM CountersLast == SeedingSpec => []CountersFollowSeeds
<1>1. CInv => CountersFollowSeeds
  BY DEF CInv, SeedsDone, AllSaved, Saved, CountersFollowSeeds
<1> QED
  BY <1>1, DoneInvariant, PTL

\* However often the program is started, and whoever of its processes dies,
\* no more coupons are issued than each bootstrap offers, plus the units that
\* were on their way back while a counter was set.
THEOREM IssuedBound == SeedingSpec => []IssuedPerBootstrap
<1>1. SeedingInit => Counted
  <2> SUFFICES ASSUME SeedingInit, NEW ty \in CouponType
               PROVE  /\ Spent(ty) <= Offered(ty)
                      /\ Spent(ty) + counter[ty] + short[ty] <= Offered(ty)
    BY DEF Counted
  <2>1. Issued(ty) = {}
    BY CounterAssumption
       DEF SeedingInit, TablesInit, Issued, NoRow, NoOne, Issuer
  <2>2. Cardinality(Issued(ty)) = 0
    BY <2>1, FS_EmptySet
  <2>3. StartStock[ty] * 0 = 0
    BY CounterAssumption
  <2> QED
    BY <2>2, <2>3 DEF SeedingInit, Spent, Offered
<1>2. SInv /\ Counted /\ [SeedingNext]_seedingVars => Counted'
  BY CountedStep
<1>3. Counted => IssuedPerBootstrap
  BY DEF Counted, Spent, Offered, IssuedPerBootstrap
<1> QED
  BY <1>1, <1>2, <1>3, SeedingInvariant, PTL DEF SeedingSpec

----------------------------------------------------------------------------
(* Side by side                                                            *)

\* Each model is as it is by itself: neither moves a variable of the other.
THEOREM EachByItself == BothSpec => Spec /\ SeedingSpec
<1>1. BothInit => Init /\ SeedingInit
  BY DEF BothInit
<1>2. [IssueNext \/ BootNext]_bothVars => [Next]_vars /\ [SeedingNext]_seedingVars
  BY DEF IssueNext, BootNext, bothVars
<1> QED
  BY <1>1, <1>2, PTL DEF BothSpec, Spec, SeedingSpec

\* Every variable of issuing, call by call, and of issuing while processes start
\* stays in its type.
THEOREM BothTypeCorrect == BothSpec => []TypesOK
  BY EachByItself, TypeCorrect, SeedingTypeCorrect, PTL DEF TypesOK
============================================================================
