------------------------- MODULE SqliteStorageProofs -------------------------
(***************************************************************************)
(* What SqliteStorage promises, for any set of keys and any bounds: its    *)
(* table is a versioned store, and a put that is stopped on its way has    *)
(* lost nothing.  Both need to know what item a call carries at each of    *)
(* its statements, and that what it found expired stays so (Inv).          *)
(***************************************************************************)
EXTENDS SqliteStorage, TLAPS

\* A put carries an item of its key, a new one to the INSERTs and a counted
\* one to the UPDATE; what is about to be removed has expired.
Carries ==
  /\ pc \in {"insert", "update", "look", "lookexpire", "reinsert"}
       => item # NoItem /\ item.key = key
  /\ pc \in {"insert", "reinsert"} => item.cas = 1
  /\ pc \in {"expire", "lookexpire"} => Live(rows[key]) = NoItem

Inv == NothingLostUnderWay /\ Carries

-----------------------------------------------------------------------------
\* Items and rows hold each other's fields, and are not NoItem.
LEMMA RowIsItem ==
  ASSUME NEW i \in Item
  PROVE  RowOf(i) \in Row /\ RowOf(i) # NoItem /\ i # NoItem
BY SqliteAssumption DEF Item, Row, RowOf, Time

LEMMA ItemIsRow ==
  ASSUME NEW k \in Key, NEW r \in Row
  PROVE  ItemOf(k, r) \in Item /\ ItemOf(k, r) # NoItem /\ r # NoItem
BY SqliteAssumption DEF Item, Row, ItemOf, Time

\* A row that has expired, or is not there, is not alive later on.
LEMMA ExpiredStays ==
  ASSUME NEW r \in Row \cup {NoItem}, NEW s \in Row \cup {NoItem},
         now \in 1..MaxTime, now' = now + 1, Live(r) = Live(s)
  PROVE  (Live(r) = Live(s))'
<1>1. ASSUME NEW e \in Time, ~Fresh(e)
      PROVE  ~(e = 0 \/ e > now')
  BY <1>1, SqliteAssumption DEF Fresh, Time
<1>2. Live(r)' = IF r # NoItem /\ (r.expires = 0 \/ r.expires > now') THEN r ELSE NoItem
  BY DEF Live, Fresh
<1>3. Live(s)' = IF s # NoItem /\ (s.expires = 0 \/ s.expires > now') THEN s ELSE NoItem
  BY DEF Live, Fresh
<1>4. CASE Live(r) = NoItem
  <2>1. Live(r)' = NoItem
    BY <1>1, <1>2, <1>4 DEF Live, Row
  <2>2. Live(s)' = NoItem
    BY <1>1, <1>3, <1>4 DEF Live, Row
  <2> QED BY <2>1, <2>2
<1>5. CASE Live(r) # NoItem
  <2>1. r = s
    BY <1>5 DEF Live
  <2> QED BY <2>1
<1> QED BY <1>4, <1>5

\* Deleting the row of a key, or not, keeps the table well formed; so does
\* storing an item.
LEMMA RowsStayRows ==
  ASSUME TypeOK, NEW k \in Key, NEW r \in Row \cup {NoItem}
  PROVE  /\ [rows EXCEPT ![k] = r] \in [Key -> Row \cup {NoItem}]
         /\ [rows EXCEPT ![k] = r][k] = r
         /\ Deletes(k) => rows' \in [Key -> Row \cup {NoItem}]
BY DEF TypeOK, Deletes

\* Inv holds at the start, is kept by every step, and so holds always: of any
\* call, with any failure or crash between two of its statements.
LEMMA InitInv ==
  ASSUME Init
  PROVE  Inv
<1>1. 1 \in 1..MaxTime
  BY SqliteAssumption
<1>2. TypeOK
  BY <1>1 DEF Init, TypeOK
<1> QED BY <1>2 DEF Init, Inv, NothingLostUnderWay, Carries

LEMMA NextInv ==
  ASSUME Inv, [Next]_vars
  PROVE  Inv'
<1> USE DEF Inv
<1>t. TypeOK
  BY DEF NothingLostUnderWay
<1>r. rows[key] \in Row \cup {NoItem} /\ key \in Key
  BY <1>t DEF TypeOK
<1>1. ASSUME NEW k \in Key, Get(k)
      PROVE  Inv'
  <2>1. TypeOK'
    BY <1>1, <1>t DEF Get, Calls, Goes, TypeOK
  <2>2. pc' = "select" /\ rows' = rows /\ now' = now /\ key' = k /\ before' = rows[k]
    BY <1>1 DEF Get, Calls, Goes
  <2> QED BY <2>1, <2>2 DEF NothingLostUnderWay, Carries, Live, Fresh
<1>2. ASSUME NEW k \in Key, Remove(k)
      PROVE  Inv'
  <2>1. TypeOK' /\ pc' = "idle"
    BY <1>2, <1>t, RowsStayRows DEF Remove, call, TypeOK
  <2> QED BY <2>1 DEF NothingLostUnderWay, Carries
<1>3. ASSUME NEW k \in Key, NEW e \in Time, Put(k, e)
      PROVE  Inv'
  <2>1. item' = [key |-> k, cas |-> 1, expires |-> e] /\ item' \in Item
    BY <1>3, SqliteAssumption DEF Put, Item
  <2>2. item' # NoItem
    BY <2>1, RowIsItem
  <2>3. /\ pc' = "insert" /\ rows' = rows /\ now' = now /\ key' = k
        /\ before' = rows[k] /\ other' = other /\ answer' = answer
    BY <1>3 DEF Put, Calls, Goes
  <2>4. TypeOK'
    BY <2>1, <2>3, <1>t DEF TypeOK
  <2> QED BY <2>1, <2>2, <2>3, <2>4 DEF NothingLostUnderWay, Carries, Live, Fresh
<1>4. CASE Update
  <2>1. item \in Item /\ item.cas < MaxCas
    BY <1>4, <1>t DEF Update, TypeOK
  <2>2. item' = [item EXCEPT !.cas = item.cas + 1] /\ item' \in Item /\ item'.key = item.key
    BY <1>4, <2>1, SqliteAssumption DEF Update, Item
  <2>3. item' # NoItem
    BY <2>2, RowIsItem
  <2>4. /\ pc' = "update" /\ rows' = rows /\ now' = now /\ key' = item.key
        /\ before' = rows[item.key] /\ other' = other /\ answer' = answer
    BY <1>4 DEF Update, Calls, Goes
  <2>5. TypeOK'
    BY <2>1, <2>2, <2>4, <1>t DEF TypeOK, Item
  <2> QED BY <2>2, <2>3, <2>4, <2>5 DEF NothingLostUnderWay, Carries, Live, Fresh
<1>5. CASE SelectFresh
  <2>1. rows[key] \in Row
    BY <1>5, <1>r DEF SelectFresh, Live
  <2>2. item' \in Item /\ pc' = "idle"
    BY <1>5, <1>r, <2>1, ItemIsRow DEF SelectFresh, Answers
  <2>3. TypeOK'
    BY <1>5, <1>t, <2>2 DEF SelectFresh, Steps, Answers, TypeOK
  <2> QED BY <2>2, <2>3 DEF NothingLostUnderWay, Carries
<1>6. CASE SelectExpired
  <2>1. TypeOK'
    BY <1>6, <1>t DEF SelectExpired, Steps, Goes, TypeOK
  <2>2. /\ pc = "select" /\ pc' = "expire" /\ rows' = rows /\ now' = now
        /\ key' = key /\ before' = before /\ Live(rows[key]) = NoItem
    BY <1>6 DEF SelectExpired, Steps, Goes
  <2> QED BY <2>1, <2>2 DEF NothingLostUnderWay, Carries, Live, Fresh
<1>7. CASE SelectNothing \/ Expire
  <2>1. TypeOK' /\ pc' = "idle"
    BY <1>7, <1>t, <1>r, RowsStayRows DEF SelectNothing, Expire, Steps, Answers, TypeOK
  <2> QED BY <2>1 DEF NothingLostUnderWay, Carries
<1>8. CASE Insert
  <2>1. item \in Item
    BY <1>8, <1>t DEF Insert, TypeOK, Carries
  <2>2. TypeOK' /\ pc' = "idle"
    BY <1>8, <1>t, <1>r, <2>1, RowIsItem, RowsStayRows DEF Insert, Steps, Answers, TypeOK
  <2> QED BY <2>2 DEF NothingLostUnderWay, Carries
<1>9. CASE UpdateDone
  <2>1. item \in Item
    BY <1>9, <1>t DEF UpdateDone, Steps, TypeOK, Carries
  <2>2. TypeOK' /\ pc' = "idle"
    BY <1>9, <1>t, <1>r, <2>1, RowIsItem, RowsStayRows DEF UpdateDone, Steps, Answers, TypeOK
  <2> QED BY <2>2 DEF NothingLostUnderWay, Carries
<1>10. CASE PutFails
  <2>1. TypeOK'
    BY <1>10, <1>t DEF PutFails, Steps, Goes, TypeOK
  <2>2. /\ pc \in {"insert", "update"} /\ pc' = "look" /\ rows' = rows /\ now' = now
        /\ key' = key /\ before' = before /\ item' = item
    BY <1>10 DEF PutFails, Steps, Goes
  <2> QED BY <2>1, <2>2 DEF NothingLostUnderWay, Carries, Live, Fresh
<1>11. CASE LookFresh
  <2>1. rows[key] \in Row
    BY <1>11, <1>r DEF LookFresh, Live
  <2>2. item' \in Item \cup {NoItem} /\ pc' = "idle"
    BY <1>11, <1>t, <1>r, <2>1, ItemIsRow DEF LookFresh, Answers, Own, TypeOK
  <2>3. TypeOK'
    BY <1>11, <1>t, <2>2 DEF LookFresh, Steps, Answers, TypeOK
  <2> QED BY <2>2, <2>3 DEF NothingLostUnderWay, Carries
<1>12. CASE LookExpired
  <2>1. TypeOK'
    BY <1>12, <1>t DEF LookExpired, Steps, Goes, TypeOK
  <2>2. /\ pc = "look" /\ pc' = "lookexpire" /\ rows' = rows /\ now' = now
        /\ key' = key /\ before' = before /\ item' = item /\ Live(rows[key]) = NoItem
    BY <1>12 DEF LookExpired, Steps, Goes
  <2> QED BY <2>1, <2>2 DEF NothingLostUnderWay, Carries, Live, Fresh
<1>13. CASE LookNothing
  <2>1. TypeOK'
    BY <1>13, <1>t DEF LookNothing, GoesOn, Steps, Goes, Answers, TypeOK
  <2>2. /\ pc = "look" /\ (pc' = "idle" \/ (pc' = "reinsert" /\ item.cas = 1))
        /\ rows' = rows /\ now' = now /\ key' = key /\ before' = before /\ item' = item
    BY <1>13 DEF LookNothing, GoesOn, Steps, Goes, Answers
  <2> QED BY <2>1, <2>2 DEF NothingLostUnderWay, Carries, Live, Fresh
<1>14. CASE LookExpire
  <2>1. TypeOK'
    BY <1>14, <1>t, <1>r, RowsStayRows
    DEF LookExpire, GoesOn, Steps, Goes, Answers, TypeOK
  <2>2. /\ pc = "lookexpire" /\ (pc' = "idle" \/ (pc' = "reinsert" /\ item.cas = 1))
        /\ now' = now /\ key' = key /\ before' = before /\ item' = item
    BY <1>14 DEF LookExpire, GoesOn, Steps, Goes, Answers
  <2>3. Live(rows[key]) = NoItem /\ Live(before) = NoItem
    BY <2>2 DEF NothingLostUnderWay, Carries
  <2>4. rows'[key] \in {rows[key], NoItem}
    BY <1>14, <1>r, RowsStayRows, <1>t DEF LookExpire, Deletes
  <2>5. Live(rows[key])' = NoItem /\ Live(before)' = NoItem
    BY <2>2, <2>3, <2>4 DEF Live, Fresh
  <2> QED BY <2>1, <2>2, <2>5 DEF NothingLostUnderWay, Carries
<1>15. CASE ReinsertFails \/ ReturnItem \/ DuplicateItem \/ Exchange \/ Crash
  <2>1. TypeOK' /\ pc' = "idle"
    BY <1>15, <1>t DEF ReinsertFails, ReturnItem, DuplicateItem, Exchange, Crash, Steps,
                       Answers, TypeOK
  <2> QED BY <2>1 DEF NothingLostUnderWay, Carries
<1>16. ASSUME NEW e \in Time, ItemChangeData(e)
       PROVE  Inv'
  <2>1. item \in Item
    BY <1>16, <1>t DEF ItemChangeData, TypeOK
  <2>2. item' \in Item
    BY <1>16, <2>1 DEF ItemChangeData, Item
  <2>3. TypeOK' /\ pc' = "idle"
    BY <1>16, <1>t, <2>2 DEF ItemChangeData, TypeOK
  <2> QED BY <2>3 DEF NothingLostUnderWay, Carries
<1>17. CASE Tick
  <2>1. now' \in 1..MaxTime /\ now' = now + 1 /\ now \in 1..MaxTime
    BY <1>17, <1>t, SqliteAssumption DEF Tick, TypeOK
  <2>2. /\ rows' = rows /\ pc' = pc /\ key' = key /\ item' = item /\ other' = other
        /\ before' = before /\ answer' = answer
    BY <1>17 DEF Tick, call
  <2>3. TypeOK'
    BY <2>1, <2>2, <1>t DEF TypeOK
  <2>4. before \in Row \cup {NoItem} /\ NoItem \in Row \cup {NoItem}
    BY <1>t DEF TypeOK
  <2>5. pc # "idle" => Live(rows[key])' = Live(before)'
    BY <1>r, <2>1, <2>2, <2>4, ExpiredStays DEF NothingLostUnderWay, Live, Fresh
  <2>6. Live(NoItem) = NoItem /\ Live(NoItem)' = NoItem
    BY DEF Live
  <2>7. pc \in {"expire", "lookexpire"} => Live(rows[key])' = NoItem
    BY <1>r, <2>1, <2>2, <2>4, <2>6, ExpiredStays DEF Carries, Live, Fresh
  <2> QED BY <2>2, <2>3, <2>5, <2>7 DEF NothingLostUnderWay, Carries
<1>18. CASE UNCHANGED vars
  BY <1>18 DEF vars, call, NothingLostUnderWay, TypeOK, Carries, Live, Fresh
<1> QED
  BY <1>1, <1>2, <1>3, <1>4, <1>5, <1>6, <1>7, <1>8, <1>9, <1>10, <1>11, <1>12, <1>13,
     <1>14, <1>15, <1>16, <1>17, <1>18 DEF Next

\* The invariant, with the types, for every set of keys and all bounds.
THEOREM InvHolds == Spec => []Inv
BY InitInv, NextInv, PTL DEF Spec

\* A put that fails or stops between its INSERT, the removal of an expired row
\* and the second INSERT (privateSqlitePut) has lost nothing: for any keys.
THEOREM NothingLost == Spec => []NothingLostUnderWay
<1>1. Inv => NothingLostUnderWay
  BY DEF Inv
<1> QED BY <1>1, InvHolds, PTL


-----------------------------------------------------------------------------
\* Storing row r under key k is one step of the store: of a new item where
\* there is none alive, or of the next version of what is there.
LEMMA StoresNext ==
  ASSUME TypeOK, NEW k \in Key, NEW r \in Row, now' = now,
         rows' = [rows EXCEPT ![k] = r],
         \/ Store!Missing(k) /\ r.cas = 1
         \/ rows[k] # NoItem /\ r.cas = rows[k].cas + 1
  PROVE  Store!Insert(k) \/ Store!Update(k)
<1>1. rows'[k] = r /\ r # NoItem
  BY SqliteAssumption DEF TypeOK, Row, Time
<1>2. rows' = [rows EXCEPT ![k] = rows'[k]]
  BY <1>1
<1>3. Store!Becomes(k, r.cas)
  BY <1>1, <1>2 DEF Store!Becomes
<1> QED BY <1>3 DEF Store!Insert, Store!Update

LEMMA DeletesRemoves ==
  ASSUME NEW k \in Key, now' = now, Deletes(k)
  PROVE  Store!Remove(k) \/ UNCHANGED <<rows, now>>
BY DEF Deletes, Store!Remove

LEMMA NextRefines ==
  ASSUME Inv, [Next]_vars
  PROVE  [Store!Next]_<<rows, now>>
<1> USE DEF Inv
<1>t. TypeOK /\ key \in Key /\ rows[key] \in Row \cup {NoItem}
  BY DEF NothingLostUnderWay, TypeOK
<1>1. ASSUME NEW k \in Key, Remove(k)
      PROVE  [Store!Next]_<<rows, now>>
  BY <1>1, DeletesRemoves DEF Remove, Store!Next
<1>2. CASE Expire \/ LookExpire
  BY <1>2, <1>t, DeletesRemoves DEF Expire, LookExpire, Steps, Store!Next
<1>3. CASE Insert
  <2>1. item \in Item /\ item.cas = 1
    BY <1>3, <1>t DEF Insert, TypeOK, Carries
  <2>2. RowOf(item) \in Row /\ RowOf(item).cas = 1
    BY <2>1, RowIsItem DEF RowOf
  <2>3. Store!Missing(key) /\ now' = now /\ rows' = [rows EXCEPT ![key] = RowOf(item)]
    BY <1>3 DEF Insert, Steps, Store!Missing
  <2>4. Store!Insert(key) \/ Store!Update(key)
    BY <1>t, <2>2, <2>3, StoresNext
  <2> QED BY <1>t, <2>4 DEF Store!Next
<1>4. CASE UpdateDone /\ Matches
  <2>1. item \in Item /\ rows[key] \in Row /\ rows[key].cas = item.cas - 1
    BY <1>4, <1>t DEF UpdateDone, Steps, TypeOK, Carries, Matches
  <2>2. RowOf(item) \in Row /\ RowOf(item).cas = rows[key].cas + 1
    BY <2>1, RowIsItem DEF RowOf, Item, Row
  <2>3. now' = now /\ rows' = [rows EXCEPT ![key] = RowOf(item)] /\ rows[key] # NoItem
    BY <1>4 DEF UpdateDone, Steps, Matches
  <2>4. Store!Insert(key) \/ Store!Update(key)
    BY <1>t, <2>2, <2>3, StoresNext
  <2> QED BY <1>t, <2>4 DEF Store!Next
<1>5. CASE Tick
  <2>1. now' \in Nat /\ now' > now /\ rows' = rows
    BY <1>5, <1>t, SqliteAssumption DEF Tick, TypeOK
  <2> QED BY <2>1 DEF Store!Next, Store!Tick
<1>6. CASE \/ SelectFresh \/ SelectExpired \/ SelectNothing \/ Update \/ PutFails
           \/ LookFresh \/ LookExpired \/ LookNothing \/ ReinsertFails
           \/ ReturnItem \/ (\E e \in Time : ItemChangeData(e)) \/ DuplicateItem
           \/ Exchange \/ Crash \/ UNCHANGED vars
           \/ (\E k \in Key : Get(k) \/ \E e \in Time : Put(k, e))
           \/ (UpdateDone /\ ~Matches)
  <2>1. UNCHANGED <<rows, now>>
    BY <1>6 DEF SelectFresh, SelectExpired, SelectNothing, Update, PutFails, LookFresh,
       LookExpired, LookNothing, ReinsertFails, ReturnItem, ItemChangeData, DuplicateItem,
       Exchange, Crash, vars, Get, Put, UpdateDone, Steps, Calls
  <2> QED BY <2>1
<1> QED
  BY <1>1, <1>2, <1>3, <1>4, <1>5, <1>6 DEF Next

\* The table is a versioned store (include/crankshaft/storage.h) for any keys,
\* whatever statement fails and wherever the program crashes: an item that is
\* alive is replaced by its next version only.
THEOREM ImplementsVersionedStore == Spec => ImplementsStore
<1>1. Init => Store!Init
  BY DEF Init, Store!Init
<1>2. Inv /\ [Next]_vars => [Store!Next]_<<rows, now>>
  BY NextRefines
<1> QED BY <1>1, <1>2, InvHolds, PTL DEF Spec, ImplementsStore, Store!Spec
=============================================================================
