------------------------------ MODULE Seeding ------------------------------
(***************************************************************************)
(* Starting the program: bootstrap in main.ts and DatabaseSeeder, around   *)
(* the clients of Accounts and the issuing of coupons.                     *)
(*                                                                         *)
(* A development process waits for the tables, then saves, one by one, the *)
(* users, products and coupons whose natural names it does not find, each  *)
(* under an id of its own, then sets the stock counters of the coupons.    *)
(* An error on the way is logged and the process serves requests all the   *)
(* same.  TypeORM saves a row with an id by a SELECT of the id followed by *)
(* an INSERT or an UPDATE.                                                 *)
(***************************************************************************)
EXTENDS Accounts, Sequences, FiniteSetsExt

CONSTANTS Instance,     \* processes
          DevInstance,  \* those with NODE_ENV=development
          Seeds,        \* the rows of the seeder, in its order
          CouponType,
          StockTypes,   \* those with a counter, in the order they are set
          StartStock,   \* the value that is set
          TypeOfName,   \* the coupon type in the name of a coupon row
          MaxBoots,     \* bound: how often processes start
          MaxRequests,  \* bound: how many requests are begun
          Watched       \* bound: the rows, by table and id, that are used

Seeder == "seeder"
Issuer == "issuer"
SeedNumber == DOMAIN Seeds

ASSUME SeedAssumption ==
    /\ Seeds \in Seq([t : Table, id : Id, name : Name]) /\ Seeds # <<>>
    /\ \A j, k \in SeedNumber : Seeds[j].t = Seeds[k].t /\ j # k
                                  => Seeds[j].id # Seeds[k].id
    /\ {Seeder, Issuer} \subseteq Writer \ Client
ASSUME CounterAssumption ==
    /\ StockTypes \in Seq(CouponType) /\ StockTypes # <<>>
    /\ StartStock \in [CouponType -> Nat]
    /\ "coupons" \in Table /\ {MaxBoots, MaxRequests} \subseteq Nat
    /\ Watched \subseteq Table \X Id

VARIABLES boot,     \* where a process is in bootstrap, or "down", "serving"
          at,       \* the seed or the counter it is at
          found,    \* TypeORM has found a row with the id of the seed
          counter,  \* coupon:stock:<type>; a key that is missing counts as 0
          saving,   \* requests that have a unit and are about to save a coupon
          short,    \* requests that found no unit and are about to INCR
          asked,    \* how many requests were begun
          boots,    \* how often a process was started
          raced,    \* history: processes that booted while another one did
          sets,     \* history: how often a counter was set
          late      \* history: the requests that were short at these moments

bootVars == <<boot, at, found, boots, asked, raced>>
stockVars == <<counter, saving, short, sets, late>>
tableVars == <<rows, nextId, drawn>>
seedingVars == <<tableVars, clientVars, bootVars, stockVars>>

Booting == {"tables", "find", "load", "write", "stock"}
Up == \E i \in Instance : boot[i] = "serving"

SeedingInit ==
    /\ TablesInit
    /\ ClientsInit
    /\ boot = [i \in Instance |-> "down"]
    /\ at = [i \in Instance |-> 1]
    /\ found = [i \in Instance |-> FALSE]
    /\ counter = [ty \in CouponType |-> 0]
    /\ saving = [ty \in CouponType |-> 0]
    /\ short = [ty \in CouponType |-> 0]
    /\ asked = 0
    /\ boots = 0
    /\ raced = {}
    /\ sets = [ty \in CouponType |-> 0]
    /\ late = [ty \in CouponType |-> 0]

Continue(i, l, k, f) ==
    /\ boot' = [boot EXCEPT ![i] = l]
    /\ at' = [at EXCEPT ![i] = k]
    /\ found' = [found EXCEPT ![i] = f]
    /\ UNCHANGED <<boots, asked, raced>>

----------------------------------------------------------------------------
(* bootstrap *)

\* Others that are in the middle of it may seed at the same time.
Boot(i) ==
    /\ boot[i] = "down" /\ boots < MaxBoots
    /\ boots' = boots + 1
    /\ boot' = [boot EXCEPT ![i] = IF i \in DevInstance THEN "tables" ELSE "serving"]
    /\ LET others == {j \in Instance \ {i} : boot[j] \in Booting}
       IN  raced' = (raced \ {i}) \cup others \cup (IF others = {} THEN {} ELSE {i})
    /\ UNCHANGED <<at, found, asked, tableVars, clientVars, stockVars>>

\* waitForTables asks up to thirty times; then it throws, as SeedingFails.
WaitForTables(i) ==
    /\ boot[i] = "tables"
    /\ Continue(i, "find", 1, FALSE)
    /\ UNCHANGED <<tableVars, clientVars, stockVars>>

SeedOf(i) == Seeds[at[i]]

NextSeed(i) ==
    IF at[i] = Len(Seeds) THEN Continue(i, "stock", 1, FALSE)
                          ELSE Continue(i, "find", at[i] + 1, FALSE)

\* Mutant: the seeder does not look.
NeverFound(s) == FALSE

\* findOne by email, by name, or by user and type.
FoundByName(s) == Named(s.t, s.name)

FindSeed(i) ==
    /\ boot[i] = "find"
    /\ IF FoundByName(SeedOf(i)) THEN NextSeed(i)
                                 ELSE Continue(i, "load", at[i], FALSE)
    /\ UNCHANGED <<tableVars, clientVars, stockVars>>

\* save, first half: the SELECT of the id.
LoadSeed(i) ==
    /\ boot[i] = "load"
    /\ Continue(i, "write", at[i], Present(SeedOf(i).t, SeedOf(i).id))
    /\ UNCHANGED <<tableVars, clientVars, stockVars>>

\* save, second half.  A duplicate id or email is an error: see SeedingFails.
WriteSeed(i) ==
    /\ boot[i] = "write"
    /\ LET s == SeedOf(i)
       IN  IF found[i] THEN UpdateById(s.t, s.id, s.name, Seeder)
                       ELSE InsertWithId(s.t, s.id, s.name, Seeder)
    /\ NextSeed(i)
    /\ UNCHANGED <<clientVars, stockVars>>

\* initializeCouponStock: one SET after the other.
SetStock(i) ==
    /\ boot[i] = "stock"
    /\ LET ty == StockTypes[at[i]]
       IN  /\ counter' = [counter EXCEPT ![ty] = StartStock[ty]]
           /\ sets' = [sets EXCEPT ![ty] = @ + 1]
           /\ late' = [late EXCEPT ![ty] = @ + short[ty]]
    /\ IF at[i] = Len(StockTypes) THEN Continue(i, "serving", 1, FALSE)
                                  ELSE Continue(i, "stock", at[i] + 1, FALSE)
    /\ UNCHANGED <<saving, short, tableVars, clientVars>>

\* Mutant: the error of one seed is swallowed and the counters are set.
SeedingGoesOn(i) ==
    /\ boot[i] \in Booting
    /\ Continue(i, "stock", 1, FALSE)
    /\ UNCHANGED <<tableVars, clientVars, stockVars>>

\* A call of bootstrap is rejected: the error is logged, what is left of the
\* seeds and the counters is left out, and the process listens.
SeedingFails(i) ==
    /\ boot[i] \in Booting
    /\ Continue(i, "serving", 1, FALSE)
    /\ UNCHANGED <<tableVars, clientVars, stockVars>>

\* A process dies, with any of the requests if there is another to serve them,
\* else with all.
Crash(i) ==
    /\ boot[i] # "down"
    /\ Continue(i, "down", 1, FALSE)
    /\ IF \E j \in Instance \ {i} : boot[j] = "serving"
       THEN UNCHANGED <<clientVars, saving, short>>
       ELSE /\ step' = [c \in Client |-> IF step[c] = "in" THEN "in" ELSE "out"]
            /\ userId' = [c \in Client |-> IF step[c] = "in" THEN userId[c] ELSE NoId]
            /\ saving' = [ty \in CouponType |-> 0]
            /\ short' = [ty \in CouponType |-> 0]
            /\ UNCHANGED email
    /\ UNCHANGED <<tableVars, counter, sets, late>>

----------------------------------------------------------------------------
(* Requests: those of Accounts, and issueCoupon, of which CouponIssue has   *)
(* every step.  Which rows a request uses later is its own business.        *)

\* Mutant: the comparison is off by one.
GrantedLate(ty) == counter[ty] - 1 >= -1

\* What DECR returns says whether there was a unit.
Granted(ty) == counter[ty] - 1 >= 0

\* A request comes to a process that serves.
Ask ==
    /\ Up /\ asked < MaxRequests
    /\ asked' = asked + 1
    /\ UNCHANGED <<boot, at, found, boots, raced>>

\* DECR, by a request that any check before it let pass.
TakeUnit(ty) ==
    /\ Ask
    /\ counter' = [counter EXCEPT ![ty] = @ - 1]
    /\ IF Granted(ty)
       THEN saving' = [saving EXCEPT ![ty] = @ + 1] /\ UNCHANGED short
       ELSE short' = [short EXCEPT ![ty] = @ + 1] /\ UNCHANGED saving
    /\ UNCHANGED <<sets, late, tableVars, clientVars>>

\* INCR: the unit that was short is given back.
ReturnUnit(ty) ==
    /\ short[ty] > 0
    /\ counter' = [counter EXCEPT ![ty] = @ + 1]
    /\ short' = [short EXCEPT ![ty] = @ - 1]
    /\ UNCHANGED <<saving, sets, late, tableVars, clientVars, bootVars>>

\* createAndSaveCoupon.
InsertCoupon(n) ==
    /\ saving[TypeOfName[n]] > 0
    /\ Insert("coupons", n, Issuer)
    /\ saving' = [saving EXCEPT ![TypeOfName[n]] = @ - 1]
    /\ UNCHANGED <<counter, short, sets, late, clientVars, bootVars>>

\* Either call is rejected, or its process dies.
IssueFails(ty) ==
    /\ \/ saving[ty] > 0 /\ saving' = [saving EXCEPT ![ty] = @ - 1] /\ UNCHANGED short
       \/ short[ty] > 0 /\ short' = [short EXCEPT ![ty] = @ - 1] /\ UNCHANGED saving
    /\ UNCHANGED <<counter, sets, late, tableVars, clientVars, bootVars>>

\* Points are spent, stock is taken, a coupon is used.  Only whether a row of
\* the seeder keeps its use is looked at.
UseRow(t, i) ==
    /\ Up /\ rows[t][i].by = Seeder
    /\ Use(t, i)
    /\ UNCHANGED <<clientVars, bootVars, stockVars>>

ClientStep(c) ==
    /\ \/ Ask /\ (Register(c) \/ Login(c))
       \/ (SaveUser(c) \/ Sign(c) \/ RequestFails(c) \/ TokenExpires(c))
             /\ UNCHANGED bootVars
    /\ UNCHANGED stockVars

----------------------------------------------------------------------------
SeedStep(i) == FindSeed(i) \/ LoadSeed(i) \/ WriteSeed(i)

\* The three loops of the seeder differ in the table.
SeedAdminUser(i) == SeedOf(i).t = "users"    /\ SeedStep(i)
SeedProducts(i)  == SeedOf(i).t = "products" /\ SeedStep(i)
SeedCoupons(i)   == SeedOf(i).t = "coupons"  /\ SeedStep(i)

BootStep(i) ==
    \/ Boot(i) \/ WaitForTables(i)
    \/ SeedAdminUser(i) \/ SeedProducts(i) \/ SeedCoupons(i)
    \/ SetStock(i) \/ SeedingFails(i) \/ Crash(i)

SeedingNext ==
    \/ \E i \in Instance : BootStep(i)
    \/ \E c \in Client : ClientStep(c)
    \/ \E ty \in CouponType : TakeUnit(ty) \/ ReturnUnit(ty) \/ IssueFails(ty)
    \/ \E n \in Name : n \in DOMAIN TypeOfName /\ InsertCoupon(n)
    \/ \E row \in Watched : UseRow(row[1], row[2])

SeedingSpec == SeedingInit /\ [][SeedingNext]_seedingVars

----------------------------------------------------------------------------
(* Properties *)

\* Every variable stays in its type, and AUTO_INCREMENT is behind every row.
SeedingTypeOK ==
    /\ rows \in [Table -> [Id -> Row]]
    /\ drawn \in [Table -> [Id -> Name \cup {NoName}]]
    /\ nextId \in [Table -> 1 .. MaxId + 1]
    /\ \A t \in Table, i \in Id : i >= nextId[t] => ~Present(t, i)
    /\ email \in Emails
    /\ step \in [Client -> {"out", "insert", "sign", "in"}]
    /\ userId \in [Client -> Id \cup {NoId}]
    /\ boot \in [Instance -> Booting \cup {"down", "serving"}]
    /\ \A i \in Instance :
          at[i] \in IF boot[i] = "stock" THEN DOMAIN StockTypes ELSE SeedNumber
    /\ found \in [Instance -> BOOLEAN]
    /\ counter \in [CouponType -> Int]
    /\ {saving, short, sets, late} \subseteq [CouponType -> Nat]
    /\ boots \in 0 .. MaxBoots /\ asked \in 0 .. MaxRequests
    /\ raced \in SUBSET Instance

\* An address belongs to one account, however registrations race each other
\* and the seeder.
OneAccountPerEmail ==
    \A i, j \in Id :
        Present("users", i) /\ Present("users", j) /\ i # j
            => rows["users"][i].name # rows["users"][j].name

SeedRow(t, i) == {s \in {Seeds[k] : k \in SeedNumber} : s.t = t /\ s.id = i}

\* What a request has inserted stays what it is, whatever is registered,
\* issued, crashed and started afterwards: only the seed that wants its id
\* may take its place.  And the id in a token is that of a row that was
\* inserted, so that validateToken answers with one of the two.
InsertedRowStays ==
    /\ \A t \in Table, i \in Id : drawn[t][i] # NoName =>
          \/ rows[t][i].name = drawn[t][i] /\ rows[t][i].by # Seeder
          \/ \E s \in SeedRow(t, i) :
                rows[t][i].name = s.name /\ rows[t][i].by = Seeder
    /\ \A c \in Client : step[c] = "in" =>
          /\ drawn["users"][userId[c]] = email[c]
          /\ ValidateToken(c).by \in {c, Seeder}

\* The stock counters exist only after all seeds have been saved: everything
\* the seeder names is there, unless a request had taken the name before and
\* its row was lost to another seed.  (A seeding that failed sets no counter.)
CountersFollowSeeds ==
    (\E ty \in CouponType : sets[ty] > 0) =>
        \A k \in SeedNumber :
            \/ Named(Seeds[k].t, Seeds[k].name)
            \/ \E j \in SeedNumber :
                  /\ Seeds[j].t = Seeds[k].t
                  /\ drawn[Seeds[j].t][Seeds[j].id] = Seeds[k].name

Issued(ty) ==
    {i \in Id : /\ rows["coupons"][i].by = Issuer
                /\ TypeOfName[rows["coupons"][i].name] = ty}

\* Every bootstrap offers the whole stock once more, and a request that was
\* turned away while the counter was set gives back a unit that is not missing.
\* Nothing else is ever issued beyond the stock.
IssuedPerBootstrap ==
    \A ty \in CouponType :
        Cardinality(Issued(ty)) + saving[ty] <= StartStock[ty] * sets[ty] + late[ty]

\* Points that were spent from a seeded account, or a seeded coupon that was
\* used, are not reset by starting the program again, unless two processes
\* were seeding at once.
SeededRowKeepsUse ==
    [][\A t \in Table, i \in Id :
          rows[t][i].by = Seeder /\ rows[t][i].used /\ ~rows'[t][i].used
              => \E b \in raced : boot[b] = "write"]_seedingVars
============================================================================
