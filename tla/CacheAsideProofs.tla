-------------------------- MODULE CacheAsideProofs --------------------------
(***************************************************************************)
(* Theorems about CacheAside, for every set of requests, users and         *)
(* products and everything the requests may ask for.                       *)
(***************************************************************************)
EXTENDS CacheAside, FiniteSetTheorems, TLAPS

----------------------------------------------------------------------------
(* What TypeOK leaves open: that cache, seen and promised are functions of  *)
(* their keys, and that only a request for an entity writes.               *)

Writing == {"find", "save", "del", "keys", "delList"}
Deleting == {"del", "keys", "delList"}

Shapes ==
    /\ task \in [Req -> Task]
    /\ cache = [k \in Key |-> cache[k]]
    /\ seen = [r \in Req |-> seen[r]]
    /\ promised = [k \in Key |-> promised[k]]
    /\ \A k \in Key : promised[k] = [e \in RowsOf(k) |-> promised[k][e]]
    /\ \A r \in Req : /\ pc[r] \in Writing => On(r) \in Entity
                      /\ pc[r] \in {"keys", "delList"} => On(r) \in Product

\* A row is saved once by a request, which is then behind "save".
Behind == Deleting \cup {"done", "saved", "reserved"}
Savers(e) == {r \in Req : On(r) = e /\ pc[r] \in Behind}
RowsCounted == \A e \in Entity : row[e] <= Cardinality(Savers(e))

\* What a request holds was in the database; what a reader is about to store is
\* as new as promised unless the key was deleted since it read.
SeenOK ==
    \A r \in Req :
        /\ pc[r] = "setex" =>
              /\ DOMAIN seen[r] = RowsOf(On(r))
              /\ \A e \in RowsOf(On(r)) :
                    /\ seen[r][e] \in 0 .. row[e]
                    /\ r \notin overtaken => seen[r][e] >= promised[On(r)][e]
        /\ pc[r] \in Deleting => seen[r][On(r)] \in 0 .. row[On(r)]

IInv == TypeOK /\ Shapes /\ RowsCounted /\ SeenOK /\ FreshUnlessOvertaken

----------------------------------------------------------------------------
LEMMA Keys ==
    /\ Entity \subseteq Key /\ Product \subseteq Entity /\ ListKey \in Key
    /\ \A e \in Entity : RowsOf(e) = {e}
    /\ RowsOf(ListKey) = Product
    /\ \A k \in Key : RowsOf(k) \subseteq Entity
  BY NameAssumption DEF Entity, Key, RowsOf

LEMMA TaskOn ==
    \A t \in Task : t.on \in Key /\ (t.op # "read" => t.on \in Entity)
  BY Keys DEF Task

LEMMA Counting ==
    ASSUME NEW e \in Entity
    PROVE  Cardinality(Savers(e)) \in Nat /\ Cardinality(Savers(e)) <= Cardinality(Req)
<1>1. Savers(e) \subseteq Req
  BY DEF Savers
<1> QED
  BY <1>1, NameAssumption, FS_Subset, FS_CardinalityType

LEMMA InitInv == Init => IInv
<1> SUFFICES ASSUME Init PROVE IInv
  OBVIOUS
<1>1. Cardinality(Req) \in Nat
  BY NameAssumption, FS_CardinalityType
<1>2. Shapes
  <2>1. task \in [Req -> Task]
    BY TaskAssumption DEF Init
  <2>2. ASSUME NEW r \in Req
        PROVE  /\ pc[r] \in Writing => On(r) \in Entity
               /\ pc[r] \notin {"keys", "delList"}
    <3>1. task[r] \in Task /\ pc[r] = IF task[r].op = "read" THEN "get" ELSE "find"
      BY <2>1 DEF Init
    <3> QED
      BY <3>1, TaskOn DEF Writing, On
  <2>3. /\ cache = [k \in Key |-> cache[k]] /\ seen = [r \in Req |-> seen[r]]
        /\ promised = [k \in Key |-> promised[k]]
        /\ \A k \in Key : promised[k] = [e \in RowsOf(k) |-> promised[k][e]]
    BY DEF Init
  <2> QED
    BY <2>1, <2>2, <2>3 DEF Shapes
<1>3. TypeOK
  BY <1>1, Keys DEF Init, TypeOK, Ends, Cached, Miss
<1>4. RowsCounted
  BY Counting DEF Init, RowsCounted
<1>5. SeenOK /\ FreshUnlessOvertaken
  BY DEF Init, SeenOK, FreshUnlessOvertaken, Deleting, Cached
<1> QED
  BY <1>2, <1>3, <1>4, <1>5 DEF IInv

----------------------------------------------------------------------------
(* Steps of a request that save nothing: whoever was behind the save stays   *)
(* there, and nobody else gets there.                                      *)

LEMMA CountKept ==
    ASSUME IInv, UNCHANGED <<task, row>>,
           \A r \in Req : (pc'[r] \in Behind) <=> (pc[r] \in Behind)
    PROVE  RowsCounted'
<1>1. \A e \in Entity : Savers(e)' = Savers(e)
  BY DEF Savers, On
<1> QED
  BY <1>1 DEF IInv, RowsCounted

\* The request r goes on to l and leaves cache and database alone.
LEMMA Moves ==
    ASSUME IInv, NEW r \in Req, NEW l, Goto(r, l),
           l \in Ends \cup {"get", "db", "find", "save", "del", "keys", "delList"},
           UNCHANGED <<task, row, cache, seen, overtaken, promised>>,
           l \in Writing => pc[r] \in Writing,
           l \in {"keys", "delList"} => On(r) \in Product,
           l \in Deleting => pc[r] \in Deleting,
           l \in Behind <=> pc[r] \in Behind
    PROVE  IInv'
<1>1. /\ pc' = [pc EXCEPT ![r] = l] /\ pc \in [Req -> Ends \cup {"get", "db", "setex",
                       "find", "save", "del", "keys", "delList"}]
      /\ pc'[r] = l /\ \A q \in Req \ {r} : pc'[q] = pc[q]
  BY DEF Goto, IInv, TypeOK
<1>2. TypeOK'
  BY <1>1 DEF IInv, TypeOK, Cached
<1>3. Shapes'
  BY <1>1 DEF IInv, Shapes, On
<1>4. RowsCounted'
  BY <1>1, CountKept
<1>5. SeenOK'
  BY <1>1 DEF IInv, SeenOK, On, Ends, Deleting
<1>6. FreshUnlessOvertaken'
  BY DEF IInv, FreshUnlessOvertaken, Cached, Older
<1> QED
  BY <1>2, <1>3, <1>4, <1>5, <1>6 DEF IInv

\* A reader stores what it read under the key k.
LEMMA FillStep ==
    ASSUME IInv, NEW r \in Req, NEW k \in Key, k = On(r), SetEx(r),
           cache' = [cache EXCEPT ![k] = seen[r]],
           overtaken' = IF r \in overtaken THEN overtaken \cup {k} ELSE overtaken \ {k}
    PROVE  IInv'
<1>1. /\ pc' = [pc EXCEPT ![r] = "answered"] /\ pc[r] = "setex"
      /\ UNCHANGED <<task, row, seen, promised>>
  BY DEF SetEx, Goto
<1>2. /\ pc'[r] = "answered" /\ cache'[k] = seen[r]
      /\ \A q \in Req \ {r} : pc'[q] = pc[q]
      /\ \A q \in Key \ {k} : cache'[q] = cache[q]
  BY <1>1 DEF IInv, TypeOK, Shapes
<1>3. /\ DOMAIN seen[r] = RowsOf(k)
      /\ \A e \in RowsOf(k) :
            /\ seen[r][e] \in 0 .. row[e]
            /\ r \notin overtaken => seen[r][e] >= promised[k][e]
  BY <1>1 DEF IInv, SeenOK
<1>4. overtaken' \in SUBSET (Req \cup Key)
  BY DEF IInv, TypeOK
<1>5. TypeOK'
  <2>1. ASSUME NEW q \in Key
        PROVE  /\ ~Cached(q)' \/ DOMAIN cache'[q] = RowsOf(q)
               /\ \A e \in Entity : e \in RowsOf(q) /\ Cached(q)' =>
                     cache'[q][e] \in 0 .. row[e]
    <3>1. CASE q = k
      BY <1>2, <1>3, <3>1
    <3>2. CASE q # k
      BY <1>2, <3>2 DEF IInv, TypeOK, Cached
    <3> QED
      BY <3>1, <3>2
  <2>2. pc' \in [Req -> Ends \cup {"get", "db", "setex", "find", "save", "del",
                                   "keys", "delList"}]
    BY <1>1 DEF IInv, TypeOK, Ends
  <2> QED
    BY <1>1, <1>4, <2>1, <2>2 DEF IInv, TypeOK
<1>6. Shapes'
  BY <1>1, <1>2 DEF IInv, Shapes, On, Writing
<1>7. RowsCounted'
  BY <1>1, <1>2, CountKept DEF Behind, Deleting
<1>8. \A q \in Req : q \in overtaken' <=> q \in overtaken
  BY NameAssumption
<1>9. SeenOK'
  BY <1>1, <1>2, <1>8 DEF IInv, SeenOK, On, Deleting
<1>10. FreshUnlessOvertaken'
  <2> SUFFICES ASSUME NEW q \in Key, Cached(q)', q \notin overtaken',
                      NEW e \in RowsOf(q)
               PROVE  ~(cache'[q][e] < promised[q][e])
    BY <1>1 DEF FreshUnlessOvertaken, Older
  <2>1. e \in Entity /\ promised[q][e] \in 0 .. row[e] /\ row[e] \in Nat
    BY Keys, NameAssumption, FS_CardinalityType DEF IInv, TypeOK
  <2>2. CASE q = k
    <3>1. r \notin overtaken
      BY <2>2
    <3>2. seen[r][e] \in Int /\ seen[r][e] >= promised[q][e]
      BY <1>3, <2>1, <2>2, <3>1
    <3> QED
      BY <1>2, <2>1, <2>2, <3>2
  <2>3. CASE q # k
    <3>1. Cached(q) /\ q \notin overtaken /\ cache'[q] = cache[q]
      BY <1>2, <2>3 DEF Cached
    <3> QED
      BY <3>1 DEF IInv, FreshUnlessOvertaken, Older
  <2> QED
    BY <2>2, <2>3
<1> QED
  BY <1>5, <1>6, <1>7, <1>9, <1>10 DEF IInv

LEMMA ReadSteps ==
    ASSUME IInv, NEW r \in Req, ReadStep(r)
    PROVE  IInv'
<1>1. CASE Get(r)
  BY <1>1, Moves DEF Get, Ends, Writing, Deleting, Behind
<1>2. CASE ReadDb(r) /\ Goto(r, "failed") /\ UNCHANGED seen
  BY <1>2, Moves DEF ReadDb, Ends, Writing, Deleting, Behind
<1>3. CASE /\ ReadDb(r) /\ Goto(r, "setex")
           /\ seen' = [seen EXCEPT ![r] = [e \in RowsOf(On(r)) |-> row[e]]]
  <2>1. /\ pc' = [pc EXCEPT ![r] = "setex"] /\ pc[r] = "db"
        /\ UNCHANGED <<task, row, cache, overtaken, promised>>
    BY <1>3 DEF ReadDb, Goto
  <2>2. /\ pc'[r] = "setex" /\ seen'[r] = [e \in RowsOf(On(r)) |-> row[e]]
        /\ \A q \in Req \ {r} : pc'[q] = pc[q] /\ seen'[q] = seen[q]
    BY <1>3, <2>1 DEF IInv, TypeOK, Shapes
  <2>3. TypeOK'
    BY <2>1 DEF IInv, TypeOK, Cached
  <2>4. Shapes'
    BY <1>3, <2>1, <2>2 DEF IInv, Shapes, On, Writing
  <2>5. RowsCounted'
    BY <2>1, <2>2, CountKept DEF Behind, Deleting
  <2>6. ASSUME NEW e \in RowsOf(On(r))
        PROVE  seen'[r][e] \in 0 .. row[e] /\ seen'[r][e] >= promised[On(r)][e]
    <3>1. On(r) \in Key /\ e \in Entity
      BY TaskOn, Keys DEF IInv, Shapes, On
    <3> QED
      BY <2>2, <3>1, Counting DEF IInv, TypeOK
  <2>7. SeenOK'
    BY <2>1, <2>2, <2>6 DEF IInv, SeenOK, On, Deleting
  <2>8. FreshUnlessOvertaken'
    BY <2>1 DEF IInv, FreshUnlessOvertaken, Cached, Older
  <2> QED
    BY <2>3, <2>4, <2>5, <2>7, <2>8 DEF IInv
<1>4. CASE SetEx(r) /\ UNCHANGED <<cache, overtaken>>
  BY <1>4, Moves DEF SetEx, Ends, Writing, Deleting, Behind
<1>5. CASE /\ SetEx(r)
           /\ cache' = [cache EXCEPT ![On(r)] = seen[r]]
           /\ overtaken' = IF r \in overtaken THEN overtaken \cup {On(r)}
                                              ELSE overtaken \ {On(r)}
  <2>1. On(r) \in Key
    BY TaskOn DEF IInv, Shapes, On
  <2> QED
    BY <1>5, <2>1, FillStep
<1> QED
  BY <1>1, <1>2, <1>3, <1>4, <1>5 DEF ReadStep, ReadDb, SetEx

----------------------------------------------------------------------------
(* Writers *)

\* A save by r: everything in the cache and in anybody's hands stays a value
\* the row has had, and r is counted.
LEMMA SaveStep ==
    ASSUME IInv, NEW r \in Req, NEW e \in Entity, e = On(r), pc[r] = "save",
           row' = [row EXCEPT ![e] = @ + 1],
           seen' = [seen EXCEPT ![r] = [x \in {e} |-> row'[x]]],
           NEW l \in {"reserved", "del"}, Goto(r, l),
           UNCHANGED <<task, cache, overtaken, promised>>
    PROVE  IInv'
<1>1. Cardinality(Req) \in Nat
  BY NameAssumption, FS_CardinalityType
<1>2. /\ pc'[r] = l /\ \A q \in Req \ {r} : pc'[q] = pc[q] /\ seen'[q] = seen[q]
      /\ pc' \in [Req -> Ends \cup {"get", "db", "setex", "find", "save", "del",
                                     "keys", "delList"}]
  BY DEF Goto, IInv, TypeOK, Shapes, Ends
<1>3. /\ row[e] \in Nat /\ row'[e] = row[e] + 1
      /\ \A x \in Entity \ {e} : row'[x] = row[x]
      /\ \A x \in Entity : row[x] \in Nat /\ row'[x] \in Nat /\ row[x] <= row'[x]
  BY <1>1 DEF IInv, TypeOK
<1>4. seen'[r][e] = row'[e]
  BY DEF IInv, Shapes
<1>5. RowsCounted'
  <2>1. Savers(e)' = Savers(e) \cup {r} /\ r \notin Savers(e) /\ Savers(e) \subseteq Req
    BY <1>2 DEF Savers, On, Behind, Deleting
  <2>2. \A x \in Entity \ {e} : Savers(x)' = Savers(x)
    BY <1>2 DEF Savers, On
  <2>3. IsFiniteSet(Savers(e))
    BY <2>1, NameAssumption, FS_Subset
  <2>4. Cardinality(Savers(e) \cup {r}) = Cardinality(Savers(e)) + 1
    BY <2>1, <2>3, FS_AddElement
  <2>5. Cardinality(Savers(e)')  = Cardinality(Savers(e)) + 1
    BY <2>1, <2>4
  <2>6. row'[e] <= Cardinality(Savers(e)')
    BY <1>3, <2>5, Counting DEF IInv, RowsCounted
  <2>7. ASSUME NEW x \in Entity, x # e PROVE row'[x] <= Cardinality(Savers(x)')
    BY <1>3, <2>2, <2>7 DEF IInv, RowsCounted
  <2> QED
    BY <2>6, <2>7 DEF RowsCounted
<1>6. row' \in [Entity -> 0 .. Cardinality(Req)]
  <2>1. \A x \in Entity : Cardinality(Savers(x)') <= Cardinality(Req)
                           /\ Cardinality(Savers(x)') \in Nat
    <3> TAKE x \in Entity
    <3>1. Savers(x)' \subseteq Req
      BY DEF Savers
    <3> QED
      BY <3>1, NameAssumption, FS_Subset, FS_CardinalityType
  <2>2. \A x \in Entity : row'[x] \in 0 .. Cardinality(Req)
    BY <1>1, <1>3, <1>5, <2>1 DEF RowsCounted
  <2> QED
    BY <2>2 DEF IInv, TypeOK
<1>7. TypeOK'
  <2>1. ASSUME NEW k \in Key, NEW x \in Entity, x \in RowsOf(k)
        PROVE  /\ promised[k][x] \in 0 .. row'[x]
               /\ Cached(k) => cache[k][x] \in 0 .. row'[x]
    BY <1>3, <2>1 DEF IInv, TypeOK
  <2> QED
    BY <1>2, <1>6, <2>1 DEF IInv, TypeOK, Cached
<1>8. Shapes'
  BY <1>2 DEF IInv, Shapes, On, Writing
<1>9. SeenOK'
  <2> SUFFICES ASSUME NEW q \in Req
               PROVE  /\ pc'[q] = "setex" =>
                            /\ DOMAIN seen'[q] = RowsOf(On(q))
                            /\ \A x \in RowsOf(On(q)) :
                                  /\ seen'[q][x] \in 0 .. row'[x]
                                  /\ q \notin overtaken => seen'[q][x] >= promised[On(q)][x]
                      /\ pc'[q] \in Deleting => seen'[q][On(q)] \in 0 .. row'[On(q)]
    BY DEF SeenOK, On
  <2>1. CASE q = r
    BY <1>2, <1>3, <1>4, <2>1
  <2>2. CASE q # r
    <3>1. On(q) \in Key /\ RowsOf(On(q)) \subseteq Entity
      BY TaskOn, Keys DEF IInv, Shapes, On
    <3>2. pc[q] \in Deleting => On(q) \in Entity
      BY DEF IInv, Shapes, Writing, Deleting
    <3> QED
      BY <1>2, <1>3, <2>2, <3>1, <3>2 DEF IInv, SeenOK
  <2> QED
    BY <2>1, <2>2
<1>10. FreshUnlessOvertaken'
  BY DEF IInv, FreshUnlessOvertaken, Cached, Older
<1> QED
  BY <1>5, <1>7, <1>8, <1>9, <1>10 DEF IInv

\* r deletes the key k, which is made from the row it saved.
LEMMA DeleteStep ==
    ASSUME IInv, NEW r \in Req, NEW k \in Key, NEW e \in Entity, e = On(r),
           e \in RowsOf(k), pc[r] \in Deleting, Invalidate(r, k),
           NEW l \in {"keys", "done"}, Goto(r, l), l = "keys" => e \in Product,
           UNCHANGED <<task, row, seen>>
    PROVE  IInv'
<1> DEFINE old == promised[k]
           new == IF seen[r][e] > old[e] THEN seen[r][e] ELSE old[e]
<1>1. /\ pc'[r] = l /\ \A q \in Req \ {r} : pc'[q] = pc[q]
      /\ pc' \in [Req -> Ends \cup {"get", "db", "setex", "find", "save", "del",
                                     "keys", "delList"}]
  BY DEF Goto, IInv, TypeOK, Ends
<1>2. /\ cache' = [cache EXCEPT ![k] = Miss] /\ cache'[k] = Miss
      /\ \A q \in Key \ {k} : cache'[q] = cache[q]
  BY DEF Invalidate, Deleted, IInv, Shapes
<1>3. /\ promised' = [promised EXCEPT ![k] = [old EXCEPT ![e] = new]]
      /\ overtaken' = (overtaken \ {k}) \cup Filling({k})
  BY DEF Invalidate, Promise
<1>4. /\ seen[r][e] \in 0 .. row[e] /\ old[e] \in 0 .. row[e]
      /\ \A x \in Entity : row[x] \in Nat
  BY NameAssumption, FS_CardinalityType DEF IInv, SeenOK, TypeOK
<1>5. new \in 0 .. row[e]
  BY <1>4
<1> HIDE DEF new
<1>6. /\ promised'[k] = [old EXCEPT ![e] = new]
      /\ \A q \in Key \ {k} : promised'[q] = promised[q]
      /\ promised' = [q \in Key |-> promised'[q]]
  BY <1>3 DEF IInv, Shapes
<1>7. old = [x \in RowsOf(k) |-> old[x]]
  BY DEF IInv, Shapes
<1> HIDE DEF old
<1>8. /\ promised'[k][e] = new /\ \A x \in RowsOf(k) \ {e} : promised'[k][x] = old[x]
      /\ promised'[k] = [x \in RowsOf(k) |-> promised'[k][x]]
  BY <1>6, <1>7
<1>9. TypeOK'
  <2>1. overtaken' \in SUBSET (Req \cup Key)
    BY <1>3 DEF Filling, IInv, TypeOK
  <2>2. ASSUME NEW q \in Key
        PROVE  ~Cached(q)' \/ DOMAIN cache'[q] = RowsOf(q)
    BY <1>2 DEF IInv, TypeOK, Cached
  <2>3. ASSUME NEW q \in Key, NEW x \in Entity, x \in RowsOf(q)
        PROVE  promised'[q][x] \in 0 .. row[x]
    BY <1>5, <1>6, <1>8, <2>3 DEF IInv, TypeOK, old
  <2>4. ASSUME NEW q \in Key, NEW x \in Entity, x \in RowsOf(q), Cached(q)'
        PROVE  cache'[q][x] \in 0 .. row[x]
    BY <1>2, <2>4 DEF IInv, TypeOK, Cached
  <2> QED
    BY <1>1, <2>1, <2>2, <2>3, <2>4 DEF IInv, TypeOK
<1>10. Shapes'
  <2>1. cache' = [q \in Key |-> cache'[q]]
    BY <1>2 DEF IInv, Shapes
  <2>2. \A q \in Key : promised'[q] = [x \in RowsOf(q) |-> promised'[q][x]]
    BY <1>6, <1>8 DEF IInv, Shapes
  <2>3. \A q \in Req : /\ pc'[q] \in Writing => On(q) \in Entity
                       /\ pc'[q] \in {"keys", "delList"} => On(q) \in Product
    BY <1>1 DEF IInv, Shapes
  <2> QED
    BY <1>6, <2>1, <2>2, <2>3 DEF IInv, Shapes, On
<1>11. RowsCounted'
  BY <1>1, CountKept DEF Behind, Deleting
<1>12. \A q \in Req : q \notin overtaken' => q \notin overtaken /\ q \notin Filling({k})
  BY <1>3, NameAssumption
<1>13. SeenOK'
  <2> SUFFICES ASSUME NEW q \in Req
               PROVE  /\ pc'[q] = "setex" =>
                            /\ DOMAIN seen[q] = RowsOf(On(q))
                            /\ \A x \in RowsOf(On(q)) :
                                  /\ seen[q][x] \in 0 .. row[x]
                                  /\ q \notin overtaken' => seen[q][x] >= promised'[On(q)][x]
                      /\ pc'[q] \in Deleting => seen[q][On(q)] \in 0 .. row[On(q)]
    BY DEF SeenOK, On
  <2>1. CASE q = r
    BY <1>1, <1>4, <2>1
  <2>2. CASE q # r
    <3>1. pc'[q] = pc[q] /\ On(q) \in Key
      BY <1>1, <2>2, TaskOn DEF IInv, Shapes, On
    <3>2. pc[q] = "setex" /\ q \notin overtaken' => q \notin overtaken /\ On(q) # k
      BY <1>12 DEF Filling
    <3> QED
      BY <1>6, <3>1, <3>2 DEF IInv, SeenOK
  <2> QED
    BY <2>1, <2>2
<1>14. FreshUnlessOvertaken'
  <2> SUFFICES ASSUME NEW q \in Key, Cached(q)', q \notin overtaken', NEW x \in RowsOf(q)
               PROVE  ~(cache'[q][x] < promised'[q][x])
    BY DEF FreshUnlessOvertaken, Older
  <2>1. q # k /\ cache'[q] = cache[q] /\ Cached(q)
    BY <1>2 DEF Cached
  <2>2. q \notin overtaken /\ promised'[q] = promised[q]
    BY <1>3, <1>6, <2>1
  <2> QED
    BY <2>1, <2>2 DEF IInv, FreshUnlessOvertaken, Older
<1> QED
  BY <1>9, <1>10, <1>11, <1>13, <1>14 DEF IInv

LEMMA WriteSteps ==
    ASSUME IInv, NEW r \in Req, Find(r) \/ Save(r) \/ InvalidateStep(r)
    PROVE  IInv'
<1>1. CASE Find(r)
  BY <1>1, Moves DEF Find, Ends, Writing, Deleting, Behind
<1>2. CASE Save(r) /\ Goto(r, "failed") /\ UNCHANGED <<row, seen>>
  BY <1>2, Moves DEF Save, Ends, Writing, Deleting, Behind
<1>3. CASE /\ Save(r) /\ row' = [row EXCEPT ![On(r)] = @ + 1]
           /\ seen' = [seen EXCEPT ![r] = [e \in {On(r)} |-> row'[e]]]
           /\ AfterSave(r)
  <2>1. pc[r] = "save" /\ UNCHANGED <<task, cache, overtaken, promised>>
    BY <1>3 DEF Save
  <2>2. On(r) \in Entity
    BY <2>1 DEF IInv, Shapes, Writing
  <2>3. \E l \in {"reserved", "del"} : Goto(r, l)
    BY <1>3 DEF AfterSave
  <2> QED
    BY <1>3, <2>1, <2>2, <2>3, SaveStep
<1>4. CASE Del(r)
  <2>1. pc[r] = "del" /\ Invalidate(r, On(r)) /\ UNCHANGED <<task, row, seen>>
    BY <1>4 DEF Del
  <2>2. On(r) \in Entity /\ On(r) \in RowsOf(On(r)) /\ On(r) \in Key
    BY <2>1, Keys DEF IInv, Shapes, Writing
  <2>3. \E l \in {"keys", "done"} : Goto(r, l) /\ (l = "keys" => On(r) \in Product)
    BY <1>4 DEF Del
  <2> QED
    BY <2>1, <2>2, <2>3, DeleteStep DEF Deleting
<1>5. CASE FindKeys(r)
  <2>1. On(r) \in Product
    BY <1>5 DEF FindKeys, IInv, Shapes
  <2> QED
    BY <1>5, <2>1, Moves DEF FindKeys, Ends, Writing, Deleting, Behind
<1>6. CASE DelList(r)
  <2>1. On(r) \in Product /\ pc[r] = "delList"
    BY <1>6 DEF DelList, IInv, Shapes
  <2>2. On(r) \in Entity /\ On(r) \in RowsOf(ListKey) /\ ListKey \in Key
    BY <2>1, Keys
  <2> QED
    BY <1>6, <2>1, <2>2, DeleteStep DEF DelList, Deleting
<1>7. CASE InvalidationFails(r)
  BY <1>7, Moves DEF InvalidationFails, Ends, Writing, Deleting, Behind
<1> QED
  BY <1>1, <1>2, <1>3, <1>4, <1>5, <1>6, <1>7 DEF InvalidateStep, Save

LEMMA ExpireStep ==
    ASSUME IInv, NEW k \in Key, Expire(k)
    PROVE  IInv'
<1>1. /\ cache' = [cache EXCEPT ![k] = Miss] /\ cache'[k] = Miss
      /\ \A q \in Key \ {k} : cache'[q] = cache[q]
      /\ UNCHANGED <<task, pc, row, seen, promised>> /\ overtaken' = overtaken \ {k}
  BY DEF Expire, IInv, Shapes
<1>2. TypeOK'
  BY <1>1 DEF IInv, TypeOK, Cached
<1>3. Shapes'
  BY <1>1 DEF IInv, Shapes, On
<1>4. RowsCounted'
  BY <1>1, CountKept
<1>5. \A q \in Req : q \in overtaken' <=> q \in overtaken
  BY <1>1, NameAssumption
<1>6. SeenOK'
  BY <1>1, <1>5 DEF IInv, SeenOK, On
<1>7. FreshUnlessOvertaken'
  BY <1>1 DEF IInv, FreshUnlessOvertaken, Cached, Older
<1> QED
  BY <1>2, <1>3, <1>4, <1>6, <1>7 DEF IInv

LEMMA NextInv == IInv /\ [Next]_vars => IInv'
<1> SUFFICES ASSUME IInv, [Next]_vars PROVE IInv'
  OBVIOUS
<1>1. CASE UNCHANGED vars
  <2>1. UNCHANGED <<task, pc, row, cache, seen, overtaken, promised>>
    BY <1>1 DEF vars
  <2>2. TypeOK' /\ Shapes'
    BY <2>1 DEF IInv, TypeOK, Shapes, Cached, On
  <2>3. RowsCounted'
    BY <2>1, CountKept
  <2>4. SeenOK' /\ FreshUnlessOvertaken'
    BY <2>1 DEF IInv, SeenOK, FreshUnlessOvertaken, Cached, Older, On
  <2> QED
    BY <2>2, <2>3, <2>4 DEF IInv
<1> QED
  BY <1>1, ReadSteps, WriteSteps, ExpireStep
     DEF Next, GetUserPoints, GetProductDetail, GetProducts, ChangePoints, SaveProduct,
         ReserveProduct

LEMMA Invariant == Spec => []IInv
  BY InitInv, NextInv, PTL DEF Spec

----------------------------------------------------------------------------
(* Why an entry is stale.  That somebody is to blame for it needs to know who *)
(* saved last, and that a request past the deletion of a key has left its     *)
(* promise there.                                                          *)

\* A row that was ever saved holds what some request behind its save put there.
LastSaver ==
    \A e \in Entity : row[e] > 0 =>
        \E r \in Req : On(r) = e /\ pc[r] \in Behind /\ seen[r][e] = row[e]

\* r has deleted k, in the name of the row it saved.
PastDeletion(r, k) ==
    \/ k # ListKey /\ pc[r] \in {"keys", "delList", "done"}
    \/ k = ListKey /\ pc[r] = "done"

Promises ==
    \A r \in Req, e \in Entity : On(r) = e /\ pc[r] \in Behind =>
        /\ seen[r][e] \in Nat
        /\ \A k \in Key : e \in RowsOf(k) /\ PastDeletion(r, k) =>
              seen[r][e] <= promised[k][e]

LEMMA InitCauses == Init => LastSaver /\ Promises
  BY DEF Init, LastSaver, Promises, Behind, Deleting

\* Promises only grow.
PromisesGrow ==
    \A k \in Key, e \in Entity : e \in RowsOf(k) =>
        promised[k][e] \in Int /\ promised'[k][e] \in Int /\ promised[k][e] <= promised'[k][e]

LEMMA PromisesAreInt ==
    ASSUME TypeOK, NEW k \in Key, NEW e \in Entity, e \in RowsOf(k)
    PROVE  promised[k][e] \in Nat /\ row[e] \in Nat
  BY NameAssumption, FS_CardinalityType DEF TypeOK

\* A step in which nobody saves, and nobody comes past a deletion.
LEMMA CausesKept ==
    ASSUME LastSaver, Promises, PromisesGrow, UNCHANGED <<task, row>>,
           \A r \in Req : /\ pc'[r] \in Behind <=> pc[r] \in Behind
                          /\ pc[r] \in Behind => seen'[r] = seen[r]
                          /\ \A k \in Key : PastDeletion(r, k)' => PastDeletion(r, k)
    PROVE  (LastSaver /\ Promises)'
<1>1. \A r \in Req : On(r)' = On(r)
  BY DEF On
<1>2. LastSaver'
  <2>1. ASSUME NEW e \in Entity, row'[e] > 0
        PROVE  \E r \in Req : On(r)' = e /\ pc'[r] \in Behind /\ seen'[r][e] = row'[e]
    <3>1. PICK r \in Req : On(r) = e /\ pc[r] \in Behind /\ seen[r][e] = row[e]
      BY <2>1 DEF LastSaver
    <3>2. On(r)' = e /\ pc'[r] \in Behind /\ seen'[r] = seen[r]
      BY <1>1, <3>1
    <3> QED
      BY <3>1, <3>2
  <2>2. Behind' = Behind
    BY DEF Behind, Deleting
  <2> QED
    BY <2>1, <2>2 DEF LastSaver
<1>3. ASSUME NEW r \in Req, NEW e \in Entity, On(r) = e, pc'[r] \in Behind
      PROVE  /\ seen'[r][e] \in Nat
             /\ \A k \in Key : e \in RowsOf(k) /\ PastDeletion(r, k)' =>
                   seen'[r][e] <= promised'[k][e]
  <2>1. pc[r] \in Behind /\ seen'[r] = seen[r] /\ seen[r][e] \in Nat
    BY <1>3 DEF Promises
  <2>2. ASSUME NEW k \in Key, e \in RowsOf(k), PastDeletion(r, k)'
        PROVE  seen[r][e] <= promised'[k][e]
    <3>1. PastDeletion(r, k)
      BY <2>2
    <3>2. seen[r][e] <= promised[k][e]
      BY <1>3, <2>1, <2>2, <3>1 DEF Promises
    <3> QED
      BY <2>1, <2>2, <3>2 DEF PromisesGrow
  <2> QED
    BY <2>1, <2>2
<1> QED
  BY <1>1, <1>2, <1>3 DEF Promises

LEMMA CausesSave ==
    ASSUME TypeOK, Shapes, LastSaver, Promises, NEW r \in Req, NEW e \in Entity, e = On(r),
           pc[r] = "save", row' = [row EXCEPT ![e] = @ + 1],
           seen' = [seen EXCEPT ![r] = [x \in {e} |-> row'[x]]],
           NEW l \in {"reserved", "del"}, Goto(r, l), UNCHANGED <<task, promised>>
    PROVE  (LastSaver /\ Promises)'
<1>1. /\ pc'[r] = l /\ \A q \in Req \ {r} : pc'[q] = pc[q] /\ seen'[q] = seen[q]
      /\ \A q \in Req : On(q)' = On(q)
  BY DEF Goto, TypeOK, Shapes, On
<1>2. /\ row'[e] = row[e] + 1 /\ row[e] \in Nat
      /\ \A x \in Entity \ {e} : row'[x] = row[x]
  BY NameAssumption, FS_CardinalityType DEF TypeOK
<1>3. seen'[r][e] = row'[e] /\ seen'[r][e] \in Nat
  BY <1>2 DEF Shapes
<1>4. ASSUME NEW x \in Entity, row'[x] > 0
      PROVE  \E q \in Req : On(q) = x /\ pc'[q] \in Behind /\ seen'[q][x] = row'[x]
  <2>1. CASE x = e
    BY <1>1, <1>3, <2>1 DEF Behind, Deleting
  <2>2. CASE x # e
    <3>1. PICK q \in Req : On(q) = x /\ pc[q] \in Behind /\ seen[q][x] = row[x]
      BY <1>2, <1>4, <2>2 DEF LastSaver
    <3> QED
      BY <1>1, <1>2, <2>2, <3>1
  <2> QED
    BY <2>1, <2>2
<1>5. ASSUME NEW q \in Req, NEW x \in Entity, On(q) = x, pc'[q] \in Behind
      PROVE  /\ seen'[q][x] \in Nat
             /\ \A k \in Key : x \in RowsOf(k) /\ PastDeletion(q, k)' =>
                   seen'[q][x] <= promised'[k][x]
  <2>1. CASE q = r
    BY <1>1, <1>3, <1>5, <2>1 DEF PastDeletion
  <2>2. CASE q # r
    <3>1. pc'[q] = pc[q] /\ seen'[q] = seen[q]
      BY <1>1, <2>2
    <3> QED
      BY <1>5, <3>1 DEF Promises, PastDeletion
  <2> QED
    BY <2>1, <2>2
<1>6. LastSaver'
  <2>1. Behind' = Behind
    BY DEF Behind, Deleting
  <2>2. ASSUME NEW x \in Entity, row'[x] > 0
        PROVE  \E q \in Req : On(q)' = x /\ pc'[q] \in Behind /\ seen'[q][x] = row'[x]
    <3>1. PICK q \in Req : On(q) = x /\ pc'[q] \in Behind /\ seen'[q][x] = row'[x]
      BY <1>4, <2>2
    <3>2. On(q)' = x
      BY <1>1, <3>1
    <3> QED
      BY <3>1, <3>2
  <2> QED
    BY <2>1, <2>2 DEF LastSaver
<1>7. Promises'
  BY <1>1, <1>5 DEF Promises, Behind, Deleting
<1> QED
  BY <1>6, <1>7

LEMMA CausesDelete ==
    ASSUME TypeOK, Shapes, LastSaver, Promises, NEW r \in Req, NEW k \in Key,
           NEW e \in Entity, e = On(r), e \in RowsOf(k), pc[r] \in Deleting,
           Invalidate(r, k), NEW l \in {"keys", "done"}, Goto(r, l),
           UNCHANGED <<task, row, seen>>,
           \A q \in Key : e \in RowsOf(q) /\ PastDeletion(r, q)' =>
               q = k \/ PastDeletion(r, q)
    PROVE  (LastSaver /\ Promises)'
<1> DEFINE new == IF seen[r][e] > promised[k][e] THEN seen[r][e] ELSE promised[k][e]
<1>1. /\ pc'[r] = l /\ \A q \in Req \ {r} : pc'[q] = pc[q]
      /\ \A q \in Req : On(q)' = On(q)
  BY DEF Goto, TypeOK, On
<1>2. promised' = [promised EXCEPT ![k] = [promised[k] EXCEPT ![e] = new]]
  BY DEF Invalidate, Promise
<1>3. seen[r][e] \in Nat /\ promised[k][e] \in Nat
  BY PromisesAreInt DEF Promises, Behind
<1>4. new \in Nat /\ promised[k][e] <= new /\ seen[r][e] <= new
  BY <1>3
<1> HIDE DEF new
<1>5. /\ promised'[k][e] = new
      /\ \A q \in Key, x \in Entity :
            x \in RowsOf(q) /\ (q # k \/ x # e) => promised'[q][x] = promised[q][x]
  BY <1>2 DEF Shapes
<1>6. PromisesGrow
  BY <1>3, <1>4, <1>5, PromisesAreInt DEF PromisesGrow
<1>7. LastSaver'
  BY <1>1 DEF LastSaver, Behind, Deleting
<1>8. ASSUME NEW q \in Req, NEW x \in Entity, On(q) = x, pc'[q] \in Behind,
             NEW j \in Key, x \in RowsOf(j), PastDeletion(q, j)'
      PROVE  seen[q][x] <= promised'[j][x]
  <2>1. pc[q] \in Behind /\ seen[q][x] \in Nat
    BY <1>1, <1>8 DEF Promises, Behind
  <2>2. CASE q = r /\ j = k
    BY <1>4, <1>5, <2>2, <1>8
  <2>3. CASE ~(q = r /\ j = k)
    <3>1. PastDeletion(q, j)
      BY <1>1, <1>8, <2>3 DEF PastDeletion
    <3>2. seen[q][x] <= promised[j][x]
      BY <1>8, <2>1, <3>1 DEF Promises
    <3> QED
      BY <1>6, <1>8, <2>1, <3>2 DEF PromisesGrow
  <2> QED
    BY <2>2, <2>3
<1>9. Promises'
  <2>1. ASSUME NEW q \in Req, NEW x \in Entity, On(q) = x, pc'[q] \in Behind
        PROVE  seen[q][x] \in Nat
    BY <1>1, <2>1 DEF Promises, Behind
  <2> QED
    BY <1>1, <1>8, <2>1 DEF Promises
<1> QED
  BY <1>7, <1>9

LEMMA CausesStep ==
    ASSUME IInv, LastSaver, Promises, [Next]_vars
    PROVE  (LastSaver /\ Promises)'
<1> USE DEF IInv
<1>1. ASSUME UNCHANGED promised PROVE PromisesGrow
  BY <1>1, PromisesAreInt DEF PromisesGrow
<1>2. pc \in [Req -> Ends \cup {"get", "db", "setex", "find", "save", "del",
                                "keys", "delList"}]
  BY DEF TypeOK
<1>3. ASSUME NEW r \in Req, NEW l, Goto(r, l), UNCHANGED <<task, row, promised>>,
             seen' = seen \/ (pc[r] = "db" /\ \A q \in Req \ {r} : seen'[q] = seen[q]),
             l \in Behind <=> pc[r] \in Behind,
             l \in {"keys", "delList"} => pc[r] \in {"keys", "delList"},
             l # "done"
      PROVE  (LastSaver /\ Promises)'
  <2>1. pc'[r] = l /\ \A q \in Req \ {r} : pc'[q] = pc[q]
    BY <1>2, <1>3 DEF Goto
  <2>2. \A q \in Req : pc[q] \in Behind => seen'[q] = seen[q]
    BY <1>3 DEF Behind, Deleting
  <2>3. ASSUME NEW q \in Req, NEW k \in Key, PastDeletion(q, k)' PROVE PastDeletion(q, k)
    BY <1>3, <2>1, <2>3 DEF PastDeletion
  <2> QED
    BY <1>1, <1>3, <2>1, <2>2, <2>3, CausesKept
<1>4. ASSUME NEW r \in Req, ReadStep(r) PROVE (LastSaver /\ Promises)'
  <2>1. CASE Get(r)
    BY <1>3, <2>1 DEF Get, Behind, Deleting
  <2>2. CASE ReadDb(r)
    <3>1. pc[r] = "db" /\ \A q \in Req \ {r} : seen'[q] = seen[q]
      BY <2>2 DEF ReadDb, Shapes
    <3> QED
      BY <1>3, <2>2, <3>1 DEF ReadDb, Behind, Deleting
  <2>3. CASE SetEx(r)
    BY <1>3, <2>3 DEF SetEx, Behind, Deleting
  <2> QED
    BY <1>4, <2>1, <2>2, <2>3 DEF ReadStep
<1>5. ASSUME NEW r \in Req, Find(r) PROVE (LastSaver /\ Promises)'
  BY <1>3, <1>5 DEF Find, Behind, Deleting
<1>6. ASSUME NEW r \in Req, Save(r) PROVE (LastSaver /\ Promises)'
  <2>1. CASE Goto(r, "failed") /\ UNCHANGED <<row, seen>>
    BY <1>3, <1>6, <2>1 DEF Save, Behind, Deleting
  <2>2. CASE /\ row' = [row EXCEPT ![On(r)] = @ + 1]
             /\ seen' = [seen EXCEPT ![r] = [e \in {On(r)} |-> row'[e]]]
             /\ AfterSave(r)
    <3>1. On(r) \in Entity /\ pc[r] = "save" /\ UNCHANGED <<task, promised>>
      BY <1>6 DEF Save, Shapes, Writing
    <3>2. \E l \in {"reserved", "del"} : Goto(r, l)
      BY <2>2 DEF AfterSave
    <3> QED
      BY <2>2, <3>1, <3>2, CausesSave
  <2> QED
    BY <1>6, <2>1, <2>2 DEF Save
<1>7. ASSUME NEW r \in Req, Del(r) PROVE (LastSaver /\ Promises)'
  <2> DEFINE e == On(r)
             l == IF e \in Product THEN "keys" ELSE "done"
  <2>1. pc[r] = "del" /\ Invalidate(r, e) /\ Goto(r, l) /\ UNCHANGED <<task, row, seen>>
    BY <1>7 DEF Del
  <2>2. e \in Entity /\ e \in RowsOf(e) /\ e \in Key
    BY <2>1, Keys DEF Shapes, Writing
  <2>3. ASSUME NEW q \in Key, e \in RowsOf(q), PastDeletion(r, q)' PROVE q = e
    <3>1. pc'[r] = l
      BY <1>2, <2>1 DEF Goto
    <3>2. CASE q = ListKey
      BY <2>3, <3>1, <3>2, Keys DEF PastDeletion
    <3>3. CASE q # ListKey
      BY <2>3, <3>3 DEF RowsOf
    <3> QED
      BY <3>2, <3>3
  <2>4. l \in {"keys", "done"}
    OBVIOUS
  <2> HIDE DEF e, l
  <2>5. e = On(r) /\ pc[r] \in Deleting
    BY <2>1 DEF e, Deleting
  <2> QED
    BY <2>1, <2>2, <2>3, <2>4, <2>5, CausesDelete
<1>8. ASSUME NEW r \in Req, FindKeys(r) PROVE (LastSaver /\ Promises)'
  BY <1>3, <1>8 DEF FindKeys, Behind, Deleting
<1>9. ASSUME NEW r \in Req, DelList(r) PROVE (LastSaver /\ Promises)'
  <2>1. /\ pc[r] = "delList" /\ Invalidate(r, ListKey) /\ Goto(r, "done")
        /\ UNCHANGED <<task, row, seen>>
    BY <1>9 DEF DelList
  <2>2. On(r) \in Entity /\ On(r) \in RowsOf(ListKey) /\ ListKey \in Key
    BY <2>1, Keys DEF Shapes
  <2>3. ASSUME NEW q \in Key, PastDeletion(r, q)' PROVE q = ListKey \/ PastDeletion(r, q)
    BY <2>1, <2>3 DEF PastDeletion
  <2>4. pc[r] \in Deleting
    BY <2>1 DEF Deleting
  <2> QED
    BY <2>1, <2>2, <2>3, <2>4, CausesDelete
<1>10. ASSUME NEW r \in Req, InvalidationFails(r) PROVE (LastSaver /\ Promises)'
  BY <1>3, <1>10 DEF InvalidationFails, Behind, Deleting
<1>11. CASE (\E k \in Key : Expire(k)) \/ UNCHANGED vars
  <2>1. UNCHANGED <<task, pc, row, seen, promised>>
    BY <1>11 DEF Expire, vars
  <2> QED
    BY <1>1, <2>1, CausesKept DEF PastDeletion
<1> QED
  BY <1>4, <1>5, <1>6, <1>7, <1>8, <1>9, <1>10, <1>11
     DEF Next, GetUserPoints, GetProductDetail, GetProducts, ChangePoints, SaveProduct,
         ReserveProduct, InvalidateStep

LEMMA CausesFound ==
    ASSUME IInv, LastSaver, Promises
    PROVE  StaleHasCause
<1> SUFFICES ASSUME NEW k \in Key, NEW e \in RowsOf(k), Cached(k),
                    cache[k][e] < row[e], k \notin overtaken
             PROVE  \E r \in Req : On(r) = e /\ OwesDeletion(r, k)
  BY DEF StaleHasCause
<1>1. e \in Entity /\ promised[k][e] \in Nat /\ row[e] \in Nat /\ cache[k][e] \in 0 .. row[e]
  BY Keys, PromisesAreInt DEF IInv, TypeOK
<1>2. promised[k][e] < row[e]
  <2>1. ~(cache[k][e] < promised[k][e])
    BY DEF IInv, FreshUnlessOvertaken, Older
  <2> QED
    BY <1>1, <2>1
<1>3. PICK r \in Req : On(r) = e /\ pc[r] \in Behind /\ seen[r][e] = row[e]
  BY <1>1, <1>2 DEF LastSaver
<1>4. ~PastDeletion(r, k)
  BY <1>1, <1>2, <1>3 DEF Promises
<1> QED
  BY <1>2, <1>3, <1>4 DEF OwesDeletion, PastDeletion, Behind, Deleting

----------------------------------------------------------------------------
(* The theorems *)

\* Every reachable state is well typed: nothing that is cached or promised is
\* newer than the database.
THEOREM TypeCorrect == Spec => []TypeOK
  BY Invariant, PTL DEF IInv

\* However many readers, writers, expiries and rejected commands interleave, an
\* old value comes back to a deleted key only by a reader that had taken it from
\* the database before the deletion.
THEOREM Fresh == Spec => []FreshUnlessOvertaken
  BY Invariant, PTL DEF IInv

\* An entry is behind the database for four reasons only: an overtaken reader, a
\* deletion still to come, a rejected command, or a reservation for an order.
THEOREM StaleForAReason == Spec => []StaleHasCause
<1>1. Init => IInv /\ LastSaver /\ Promises
  BY InitInv, InitCauses
<1>2. IInv /\ LastSaver /\ Promises /\ [Next]_vars => (IInv /\ LastSaver /\ Promises)'
  BY NextInv, CausesStep
<1>3. IInv /\ LastSaver /\ Promises => StaleHasCause
  BY CausesFound
<1> QED
  BY <1>1, <1>2, <1>3, PTL DEF Spec
=============================================================================
