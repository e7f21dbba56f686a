----------------------------- MODULE CacheAside -----------------------------
(***************************************************************************)
(* The read caches in Redis: the points of a user, a product, the list of  *)
(* all products.  Readers look in the cache, then in the database, then    *)
(* fill the cache; writers save a row and delete the keys made from it.    *)
(*                                                                         *)
(* The row of a user or a product is the number of times it was saved; a   *)
(* cached value is the rows it was made from.  What is saved, and the      *)
(* update two writers may lose, is the business of Payment and OrderSaga.  *)
(* An order over several products is one "reserve" for each of them.       *)
(***************************************************************************)
EXTENDS Integers, FiniteSets, FiniteSetsExt

CONSTANTS Req,      \* requests
          User,     \* user ids
          Product,  \* product ids
          Tasks     \* what requests ask for, in every combination considered

Entity == User \cup Product

\* The key products:all; every entity names its own key, user:points:<id> or
\* product:<id>.
ListKey == "products:all"
Key == Entity \cup {ListKey}

\* The rows the value of a key is made from.
RowsOf(k) == IF k = ListKey THEN Product ELSE {k}

Task == [op : {"read"}, on : Key] \cup [op : {"save"}, on : Entity]
            \cup [op : {"reserve"}, on : Product]

ASSUME NameAssumption ==
    /\ IsFiniteSet(Req) /\ Req \cap Key = {}
    /\ User \cap Product = {} /\ ListKey \notin Entity
ASSUME TaskAssumption ==
    Tasks \subseteq [Req -> Task]

VARIABLES task,      \* what each request asks for
          pc,        \* what it awaits, or how it ended
          row,       \* the database: how often a row was saved
          cache,     \* Redis: the cached rows, or Miss
          seen,      \* the rows a request has read or saved
          overtaken, \* history: readers whose key was deleted since they read
                     \* the database, and keys that such a reader has filled
          promised   \* history: for each key, the rows its last deletions
                     \* were made for

vars == <<task, pc, row, cache, seen, overtaken, promised>>

Miss == <<>>
Cached(k) == cache[k] # Miss

Goto(r, l) == pc' = [pc EXCEPT ![r] = l]
On(r) == task[r].on

----------------------------------------------------------------------------
Init ==
    /\ task \in Tasks
    /\ pc = [r \in Req |-> IF task[r].op = "read" THEN "get" ELSE "find"]
    /\ row = [e \in Entity |-> 0]
    /\ cache = [k \in Key |-> Miss]
    /\ seen = [r \in Req |-> <<>>]
    /\ overtaken = {}
    /\ promised = [k \in Key |-> [e \in RowsOf(k) |-> 0]]

----------------------------------------------------------------------------
(* Readers: GetUserPointsUseCase, GetProductDetailUseCase, GetProductsUseCase *)

\* GET; an error counts as a miss.
Get(r) ==
    /\ pc[r] = "get"
    /\ \/ Cached(On(r)) /\ Goto(r, "answered")
       \/ Goto(r, "db")
    /\ UNCHANGED <<task, row, cache, seen, overtaken, promised>>

\* The rows are read, or the query fails.
ReadDb(r) ==
    /\ pc[r] = "db"
    /\ \/ /\ Goto(r, "setex")
          /\ seen' = [seen EXCEPT ![r] = [e \in RowsOf(On(r)) |-> row[e]]]
       \/ Goto(r, "failed") /\ UNCHANGED seen
    /\ UNCHANGED <<task, row, cache, overtaken, promised>>

\* SETEX; an error is swallowed.  The request is answered either way.
SetEx(r) ==
    /\ pc[r] = "setex"
    /\ Goto(r, "answered")
    /\ \/ /\ cache' = [cache EXCEPT ![On(r)] = seen[r]]
          /\ overtaken' = IF r \in overtaken THEN overtaken \cup {On(r)}
                                             ELSE overtaken \ {On(r)}
       \/ UNCHANGED <<cache, overtaken>>
    /\ UNCHANGED <<task, row, seen, promised>>

----------------------------------------------------------------------------
(* Writers: chargePoints and usePoints, ProductsService.save,              *)
(* validateAndReserveProducts                                              *)

\* The entity is found and the checks on it pass, or the request fails.
Find(r) ==
    /\ pc[r] = "find"
    /\ Goto(r, "save") \/ Goto(r, "failed")
    /\ UNCHANGED <<task, row, cache, seen, overtaken, promised>>

AfterSave(r) == Goto(r, IF task[r].op = "reserve" THEN "reserved" ELSE "del")

\* Mutant: an error of the save is swallowed like one of the cache.
SaveErrorIgnored(r) ==
    /\ pc[r] = "save"
    /\ row' \in {row, [row EXCEPT ![On(r)] = @ + 1]}
    /\ seen' = [seen EXCEPT ![r] = [e \in {On(r)} |-> row[e] + 1]]
    /\ AfterSave(r)
    /\ UNCHANGED <<task, cache, overtaken, promised>>

\* The row is saved; a reservation is done then.
Save(r) ==
    /\ pc[r] = "save"
    /\ \/ /\ row' = [row EXCEPT ![On(r)] = @ + 1]
          /\ seen' = [seen EXCEPT ![r] = [e \in {On(r)} |-> row'[e]]]
          /\ AfterSave(r)
       \/ Goto(r, "failed") /\ UNCHANGED <<row, seen>>
    /\ UNCHANGED <<task, cache, overtaken, promised>>

\* The readers that are about to fill a key of ks.
Filling(ks) == {r \in Req : pc[r] = "setex" /\ On(r) \in ks}

Promise(r, k) ==
    [promised[k] EXCEPT ![On(r)] = IF seen[r][On(r)] > @ THEN seen[r][On(r)] ELSE @]

\* Mutant: DEL of a key that is not the cached one.
DeletedOther(k) == cache

\* DEL of a key.
Deleted(k) == [cache EXCEPT ![k] = Miss]

\* r deletes k in the name of the row it saved.
Invalidate(r, k) ==
    /\ cache' = Deleted(k)
    /\ overtaken' = (overtaken \ {k}) \cup Filling({k})
    /\ promised' = [promised EXCEPT ![k] = Promise(r, k)]

\* Mutant: the list is not invalidated with a product.
DelOwnKeyOnly(r) ==
    /\ pc[r] = "del"
    /\ Invalidate(r, On(r))
    /\ Goto(r, "done")
    /\ UNCHANGED <<task, row, seen>>

\* The key of the row; the keys of lists come after that of a product.
Del(r) ==
    /\ pc[r] = "del"
    /\ Invalidate(r, On(r))
    /\ Goto(r, IF On(r) \in Product THEN "keys" ELSE "done")
    /\ UNCHANGED <<task, row, seen>>

\* KEYS finds the lists of the categories, which nobody fills.
FindKeys(r) ==
    /\ pc[r] = "keys"
    /\ Goto(r, "delList")
    /\ UNCHANGED <<task, row, cache, seen, overtaken, promised>>

DelList(r) ==
    /\ pc[r] = "delList"
    /\ Invalidate(r, ListKey)
    /\ Goto(r, "done")
    /\ UNCHANGED <<task, row, seen>>

\* One of the three is rejected: the others are not tried, the save stands.
InvalidationFails(r) ==
    /\ pc[r] \in {"del", "keys", "delList"}
    /\ Goto(r, "saved")
    /\ UNCHANGED <<task, row, cache, seen, overtaken, promised>>

----------------------------------------------------------------------------
(* Redis *)

\* Every fill is a SETEX, so any key may expire, at any time.
Expire(k) ==
    /\ Cached(k)
    /\ cache' = [cache EXCEPT ![k] = Miss]
    /\ overtaken' = overtaken \ {k}
    /\ UNCHANGED <<task, pc, row, seen, promised>>

----------------------------------------------------------------------------
ReadStep(r) == Get(r) \/ ReadDb(r) \/ SetEx(r)
InvalidateStep(r) == Del(r) \/ FindKeys(r) \/ DelList(r) \/ InvalidationFails(r)

\* The three readers differ in the key they ask for.
GetUserPoints(r)    == On(r) \in User    /\ ReadStep(r)
GetProductDetail(r) == On(r) \in Product /\ ReadStep(r)
GetProducts(r)      == On(r) = ListKey   /\ ReadStep(r)

\* A charge or a payment; a product saved by itself; a product of an order.
ChangePoints(r) == On(r) \in User /\ (Find(r) \/ Save(r) \/ InvalidateStep(r))
SaveProduct(r) ==
    /\ On(r) \in Product /\ task[r].op = "save"
    /\ Find(r) \/ Save(r) \/ InvalidateStep(r)
ReserveProduct(r) == task[r].op = "reserve" /\ (Find(r) \/ Save(r))

Next ==
    \/ \E r \in Req : \/ GetUserPoints(r) \/ GetProductDetail(r) \/ GetProducts(r)
                      \/ ChangePoints(r) \/ SaveProduct(r) \/ ReserveProduct(r)
    \/ \E k \in Key : Expire(k)

Spec == Init /\ [][Next]_vars

----------------------------------------------------------------------------
(* Properties *)

Ends == {"answered", "failed", "reserved", "done", "saved"}
Older(k, rows) == \E e \in RowsOf(k) : cache[k][e] < rows[e]

\* Every variable stays in its type; nothing cached or promised is newer than
\* the database.
TypeOK ==
    /\ pc \in [Req -> Ends \cup {"get", "db", "setex", "find", "save", "del",
                                 "keys", "delList"}]
    /\ row \in [Entity -> 0 .. Cardinality(Req)]
    /\ overtaken \in SUBSET (Req \cup Key)
    /\ \A k \in Key : ~Cached(k) \/ DOMAIN cache[k] = RowsOf(k)
    /\ \A k \in Key, e \in Entity : e \in RowsOf(k) =>
          /\ promised[k][e] \in 0 .. row[e]
          /\ Cached(k) => cache[k][e] \in 0 .. row[e]

\* Once a save has deleted a key, no older value is served from it, except one
\* that a reader had taken from the database before the deletion and stored
\* after it.  No other interleaving of readers and writers, no expiry and no
\* rejected command brings an old value back.
FreshUnlessOvertaken ==
    \A k \in Key : Cached(k) /\ Older(k, promised[k]) => k \in overtaken

\* r is still to delete k, was kept from it, or never would; it was the last to
\* save its row, and no deletion of k was made for that.
OwesDeletion(r, k) ==
    /\ \/ pc[r] \in {"del", "saved", "reserved"}
       \/ k = ListKey /\ pc[r] \in {"keys", "delList"}
    /\ seen[r][On(r)] = row[On(r)]
    /\ promised[k][On(r)] < row[On(r)]

\* A cached value is behind the database for one of these reasons only: its
\* reader was overtaken, the request that saved last is on its way to delete
\* the key, one of its Redis commands was rejected, or it reserved stock for an
\* order.  Once every save was answered without such a failure, the entry of a
\* user, of a product and the list with every product in it are up to date.
StaleHasCause ==
    \A k \in Key : \A e \in RowsOf(k) :
        Cached(k) /\ cache[k][e] < row[e] =>
            \/ k \in overtaken
            \/ \E r \in Req : On(r) = e /\ OwesDeletion(r, k)

\* What docs/STEP12 says of a change to a product: it deletes the cache of the
\* product and of the list, so that neither is left with the state before it.
\* An order takes stock from the product and deletes neither.
OrderRefreshesProduct ==
    [][\A r \in Req : pc[r] # "reserved" /\ pc'[r] = "reserved" =>
          \A k \in {On(r), ListKey} :
              Cached(k)' => cache'[k][On(r)] >= seen'[r][On(r)]]_vars
============================================================================
