--------------------------- MODULE OutboxRelayProofs ---------------------------
(***************************************************************************)
(* What the outbox and its relays guarantee, for every number of sources,  *)
(* keys, replicas, rows and failures and every batch size.                 *)
(***************************************************************************)
EXTENDS OutboxRelay, TLAPS

\* What Kafka stores for a key after one more message.
LEMMA ElementsAppend ==
    ASSUME NEW S, NEW s \in Seq(S), NEW x \in S
    PROVE  Elements(Append(s, x)) = Elements(s) \cup {x}
  <1>1. /\ Len(Append(s, x)) = Len(s) + 1
        /\ Append(s, x)[Len(s) + 1] = x
        /\ \A i \in 1 .. Len(s) : Append(s, x)[i] = s[i]
    OBVIOUS
  <1>2. 1 .. (Len(s) + 1) = 1 .. Len(s) \cup {Len(s) + 1}
    OBVIOUS
  <1> QED
    BY <1>1, <1>2 DEF Elements

\* A claimed batch is not empty, at most BatchSize long, in order, and leaves out no
\* claimable row older than one it takes.
LEMMA OldestProperties ==
    ASSUME NEW S \in SUBSET Ids, NEW s \in Oldest(S)
    PROVE  /\ s \in Seq(S) /\ Len(s) \in 1 .. BatchSize
           /\ \A i, j \in 1 .. Len(s) : i < j => s[i] < s[j]
           /\ \A x \in S, y \in Elements(s) : x < y => x \in Elements(s)
  <1> USE RelayAssumption
  <1>1. PICK n \in 1 .. BatchSize : s \in [1 .. n -> S]
    BY DEF Oldest
  <1>2. s \in Seq(S) /\ Len(s) = n
    BY <1>1
  <1>3. /\ \A i, j \in 1 .. Len(s) : i < j => s[i] < s[j]
        /\ \A x \in S : x \in Elements(s) \/ (Len(s) = BatchSize /\ s[Len(s)] < x)
    BY DEF Oldest
  <1>4. ASSUME NEW x \in S, NEW y \in Elements(s), x < y PROVE x \in Elements(s)
    <2>1. PICK i \in 1 .. Len(s) : y = s[i]
      BY DEF Elements
    <2>2. \A z \in S : z \in Int
      BY DEF Ids
    <2>3. s[i] \in S /\ s[Len(s)] \in S
      BY <1>1, <1>2, <2>1
    <2>4. s[i] < s[Len(s)] \/ i = Len(s)
      BY <1>2, <1>3, <2>1
    <2> QED
      BY <1>3, <1>4, <2>1, <2>2, <2>3, <2>4
  <1> QED
    BY <1>1, <1>2, <1>3, <1>4

-----------------------------------------------------------------------------
(* The initial state *)

LEMMA InitInv == Init => IInv
  <1> SUFFICES ASSUME Init PROVE IInv
    OBVIOUS
  <1> USE RelayAssumption DEF Init
  <1>1. \A r \in Relays : Elements(batch[r]) = {} /\ Sent(r) = {}
    BY DEF Elements, Sent
  <1>2. \A k \in Keys : Elements(log[k]) = {} /\ Len(log[k]) = 0
    BY DEF Elements
  <1>3. Locked = {} /\ Pending = {}
    BY <1>1 DEF Locked, Pending
  <1>4. source \in [Ids -> Sources] /\ key \in [Ids -> Keys] /\ sees \in [Ids -> SUBSET Ids]
    <2>1. Keys # {}
      OBVIOUS
    <2> QED
      BY <2>1
  <1>5. TypeOK
    <2>1. batch \in [Relays -> Seq(Ids)] /\ log \in [Keys -> Seq(Ids)]
      OBVIOUS
    <2>2. \A r \in Relays : Len(batch[r]) = 0
      OBVIOUS
    <2>3. \A r \in Relays : Len(batch[r]) <= BatchSize /\ pos[r] \in 0 .. Len(batch[r])
      BY <2>2
    <2>4. /\ lastId \in 0 .. MaxRows
          /\ faults \in 0 .. MaxFaults
      OBVIOUS
    <2>5. pc \in [Relays -> {"idle", "send", "mark", "commit"}]
      OBVIOUS
    <2> QED
      BY <1>3, <1>4, <2>1, <2>3, <2>4, <2>5 DEF TypeOK
  <1>6. NothingLostNothingInvented /\ ClaimsAreExclusive /\ SentInv
    BY <1>1, <1>2 DEF NothingLostNothingInvented, ClaimsAreExclusive, SentInv
  <1>7. \A r \in Relays : PassInv(r)
    BY DEF PassInv
  <1>8. SeesInv /\ LockInv /\ OrderInv
    BY <1>3 DEF SeesInv, LockInv, OrderInv
  <1>9. FirstDeliveriesInOrder
    BY DEF FirstDeliveriesInOrder
  <1> QED
    BY <1>5, <1>6, <1>7, <1>8, <1>9 DEF IInv

-----------------------------------------------------------------------------
(* Units of work *)

\* What a relay has claimed is visible, and what it has sent it has claimed.
LEMMA BatchFacts ==
    ASSUME IInv, NEW r \in Relays
    PROVE  /\ batch[r] \in Seq(Ids)
           /\ Elements(batch[r]) \subseteq committed
           /\ Sent(r) \subseteq Elements(batch[r])
           /\ Marked(r) \subseteq Sent(r)
           /\ pos[r] \in Nat
  <1>1. Elements(batch[r]) \subseteq committed /\ batch[r] \in Seq(Ids) /\ pos[r] \in 0 .. Len(batch[r])
    BY DEF IInv, TypeOK, Locked
  <1>2. Len(batch[r]) \in Nat /\ pos[r] \in Nat
    BY <1>1
  <1>3. pc[r] = "mark" => pos[r] + 1 <= Len(batch[r])
    BY <1>1, <1>2 DEF IInv, PassInv
  <1>4. Sent(r) \subseteq Elements(batch[r])
    BY <1>1, <1>2, <1>3 DEF Sent, Elements
  <1>5. Marked(r) \subseteq Sent(r)
    BY <1>2 DEF Sent, Marked
  <1> QED
    BY <1>1, <1>2, <1>4, <1>5

\* What a row is before is older, under the same key, and no row of an open transaction.
LEMMA BeforeFacts ==
    ASSUME TypeOK, SeesInv, LockInv,
           NEW old \in committed \cup Pending, NEW new \in committed, Before(old, new)
    PROVE  old \in committed /\ old < new /\ key[old] = key[new]
  <1>1. key[old] = key[new]
    BY DEF Before
  <1>2. CASE old \in sees[new]
    BY <1>1, <1>2 DEF SeesInv
  <1>3. CASE old < new /\ Ordered(key[new])
    <2>1. old \in Ids /\ new \in Ids
      BY RelayAssumption DEF TypeOK, Ids
    <2>2. source[old] \in Sources /\ source[new] \in Sources
      BY <2>1 DEF TypeOK
    <2>3. key[new] \in KeysOf(source[old]) /\ key[new] \in KeysOf(source[new])
      BY <1>1 DEF SeesInv
    <2>4. source[old] = source[new] /\ source[new] \in Aggregates
      BY <1>3, <2>2, <2>3 DEF Ordered
    <2> QED
      BY <1>1, <1>3, <2>4 DEF LockInv
  <1> QED
    BY <1>2, <1>3 DEF Before

\* A step that changes no table changes no order of rows.
LEMMA OrderIsOfTheTables ==
    ASSUME UNCHANGED table
    PROVE  /\ \A x, y : Before(x, y)' = Before(x, y)
           /\ Alone' = Alone
           /\ Pending' = Pending
  BY DEF table, Before, Ordered, Alone, Pending

LEMMA InsertInv ==
    ASSUME IInv, NEW g \in Sources, NEW k \in KeysOf(g), NEW u \in open \cup {{}}, Insert(g, k, u)
    PROVE  IInv'
  <1> USE RelayAssumption DEF IInv, Insert, MayInsert
  <1> DEFINE n == lastId + 1
  <1>1. /\ lastId \in Nat /\ n \in Ids /\ n \in 1 .. lastId' /\ lastId' \in 0 .. MaxRows
        /\ committed \subseteq 1 .. lastId /\ Pending \subseteq 1 .. lastId
        /\ u \subseteq Pending
    BY DEF TypeOK, Ids, Pending
  <1>2. /\ \A id \in committed \cup Pending :
              /\ id \in Ids /\ id # n /\ id < n
              /\ source'[id] = source[id] /\ key'[id] = key[id] /\ sees'[id] = sees[id]
        /\ source'[n] = g /\ key'[n] = k /\ sees'[n] = committed \cup u
    BY <1>1 DEF TypeOK, Ids
  <1>3. Pending' \subseteq Pending \cup {n}
    BY <1>1 DEF Pending
  <1>4. \A r \in Relays : Sent(r)' = Sent(r) /\ Sent(r) \subseteq committed
    <2>1. \A r \in Relays : Sent(r) \subseteq committed
      BY BatchFacts
    <2> QED
      BY <2>1 DEF Sent
  <1>5. TypeOK'
    <2>1. k \in Keys
      OBVIOUS
    <2>2. source' \in [Ids -> Sources] /\ key' \in [Ids -> Keys]
      BY <2>1 DEF TypeOK
    <2>3. sees' \in [Ids -> SUBSET Ids]
      <3>1. committed \cup u \subseteq Ids
        BY <1>1, <1>2
      <3> QED
        BY <3>1 DEF TypeOK
    <2>4. Pending' \subseteq (1 .. lastId') \ committed /\ committed \subseteq 1 .. lastId'
      BY <1>1, <1>2, <1>3 DEF TypeOK
    <2>5. Locked' = Locked
      BY DEF Locked
    <2> QED
      BY <1>1, <2>2, <2>3, <2>4, <2>5 DEF TypeOK
  <1>6. \A id \in committed : Delivered(id)' = Delivered(id)
    BY <1>2 DEF Delivered
  <1>7. NothingLostNothingInvented'
    BY <1>2, <1>6 DEF NothingLostNothingInvented, TypeOK
  <1>8. ClaimsAreExclusive' /\ \A r \in Relays : PassInv(r)'
    BY DEF ClaimsAreExclusive, PassInv
  <1>9. SentInv'
    BY <1>4, <1>6 DEF SentInv
  <1>10. SeesInv'
    <2>1. ASSUME NEW v \in open', NEW id \in v PROVE sees'[id] \subseteq (committed \cup v)
      <3>1. CASE v \in open
        BY <1>2, <3>1 DEF SeesInv, Pending
      <3>2. CASE v = u \cup {n}
        <4>1. CASE id = n
          BY <1>2, <3>2, <4>1
        <4>2. CASE id \in u
          <5>1. u \in open /\ id \in Pending
            BY <1>1, <4>2
          <5> QED
            BY <1>2, <3>2, <4>2, <5>1 DEF SeesInv
        <4> QED
          BY <2>1, <3>2, <4>1, <4>2
      <3> QED
        BY <3>1, <3>2
    <2>2. \A id \in committed : sees'[id] \subseteq committed
      BY <1>2 DEF SeesInv
    <2>3. \A id \in committed \cup Pending' : key'[id] \in KeysOf(source'[id])
      BY <1>2, <1>3 DEF SeesInv
    <2>4. \A id \in committed \cup Pending' : \A old \in sees'[id] : old < id
      <3>1. \A old \in sees'[n] : old < n
        BY <1>1, <1>2
      <3>2. \A id \in committed \cup Pending : \A old \in sees'[id] : old < id
        BY <1>2 DEF SeesInv
      <3> QED
        BY <1>3, <3>1, <3>2
    <2>5. ASSUME NEW v \in open', NEW w \in open', v # w PROVE v \cap w = {}
      <3>1. \A x \in open : x \subseteq Pending /\ n \notin x
        BY <1>2 DEF Pending
      <3>2. \A x \in open \ {u} : x \cap u = {}
        BY DEF SeesInv
      <3>3. CASE v \in open /\ w \in open
        BY <2>5, <3>3 DEF SeesInv
      <3>4. CASE v = u \cup {n} /\ w \in open \ {u}
        BY <3>1, <3>2, <3>4
      <3>5. CASE w = u \cup {n} /\ v \in open \ {u}
        BY <3>1, <3>2, <3>5
      <3> QED
        BY <2>5, <3>3, <3>4, <3>5
    <2> QED
      BY <2>1, <2>2, <2>3, <2>4, <2>5 DEF SeesInv
  <1>11. LockInv'
    <2> SUFFICES ASSUME NEW old \in committed \cup Pending', NEW new \in committed \cup Pending',
                        old < new, source'[old] = source'[new], source'[new] \in Aggregates
                 PROVE  old \in committed /\ old \in sees'[new]
      BY DEF LockInv
    <2>1. CASE old \in committed \cup Pending /\ new \in committed \cup Pending
      BY <1>2, <2>1 DEF LockInv
    <2>2. CASE old \in committed \cup Pending /\ new = n
      BY <1>2, <2>2
    <2>3. old # n
      BY <1>1, <1>2, <1>3
    <2> QED
      BY <1>3, <2>1, <2>2, <2>3
  <1>12. /\ \A x, y \in committed : Before(x, y)' = Before(x, y)
         /\ \A x, y \in committed : Follows(x, y)' = Follows(x, y)
         /\ Alone' = Alone
    BY <1>2 DEF Before, Ordered, Follows, Alone
  <1>13. Alone => OrderInv'
    BY <1>4, <1>12 DEF OrderInv
  <1>14. FirstDeliveriesInOrder'
    BY <1>2, <1>12 DEF FirstDeliveriesInOrder
  <1> QED
    BY <1>5, <1>7, <1>8, <1>9, <1>10, <1>11, <1>12, <1>13, <1>14

LEMMA EndTransactionInv == ASSUME IInv, NEW u \in open, EndTransaction(u) PROVE IInv'
  <1> USE RelayAssumption DEF EndTransaction
  <1>1. /\ committed \subseteq committed' /\ committed' \subseteq committed \cup u
        /\ u \subseteq Pending /\ Pending' \subseteq Pending /\ Pending' \cap u = {}
    BY DEF IInv, SeesInv, Pending
  <1>2. committed' \cup Pending' \subseteq committed \cup Pending
    BY <1>1
  <1>3. /\ \A id : Delivered(id)' = Delivered(id)
        /\ \A r \in Relays : Sent(r)' = Sent(r) /\ Elements(batch'[r]) = Elements(batch[r])
        /\ \A x, y : Before(x, y)' = Before(x, y) /\ Follows(x, y)' = Follows(x, y)
        /\ Alone' = Alone
    BY DEF Delivered, Sent, Before, Ordered, Follows, Alone
  <1>4. ASSUME NEW old \in committed', NEW new \in committed, Before(old, new)
        PROVE  old \in committed
    <2>1. old \in committed \cup Pending
      BY <1>1
    <2> QED
      BY <1>4, <2>1, BeforeFacts DEF IInv
  <1>5. \A id \in u : id \notin published /\ \A r \in Relays : id \notin Elements(batch[r])
    <2>1. \A id \in u : id \notin committed
      BY <1>1 DEF IInv, TypeOK
    <2> QED
      BY <2>1, BatchFacts DEF IInv, TypeOK
  <1>6. TypeOK'
    <2>1. Pending' \subseteq (1 .. lastId) \ committed' /\ committed' \subseteq 1 .. lastId
      BY <1>1 DEF IInv, TypeOK
    <2>2. Locked' = Locked
      BY DEF Locked
    <2> QED
      BY <1>1, <2>1, <2>2 DEF IInv, TypeOK
  <1>7. NothingLostNothingInvented'
    BY <1>1, <1>3 DEF IInv, NothingLostNothingInvented
  <1>8. ClaimsAreExclusive' /\ SentInv'
    BY <1>3 DEF IInv, ClaimsAreExclusive, SentInv
  <1>9. \A r \in Relays : PassInv(r)'
    BY DEF IInv, PassInv
  <1>10. SeesInv'
    <2>1. \A v \in open' : \A id \in v : sees[id] \subseteq (committed' \cup v)
      BY <1>1 DEF IInv, SeesInv
    <2>2. \A id \in committed' : sees[id] \subseteq committed'
      BY <1>1 DEF IInv, SeesInv
    <2> QED
      BY <1>2, <2>1, <2>2 DEF IInv, SeesInv
  <1>11. LockInv'
    BY <1>1, <1>2 DEF IInv, LockInv
  <1>12. ASSUME Alone PROVE OrderInv'
    <2> SUFFICES ASSUME NEW old \in committed', NEW new \in committed', Before(old, new)
                 PROVE  /\ new \in published => old \in published
                        /\ \A r \in Relays : new \in Elements(batch[r]) =>
                              old \in published \cup Elements(batch[r])
                        /\ new \in published \cup UNION {Sent(r) : r \in Relays} =>
                              Follows(old, new)
      BY <1>3 DEF OrderInv
    <2>1. CASE new \in u
      BY <1>5, <2>1, BatchFacts
    <2>2. CASE new \in committed
      <3>1. old \in committed
        BY <1>4, <2>2
      <3> QED
        BY <1>12, <2>2, <3>1 DEF IInv, OrderInv
    <2> QED
      BY <1>1, <2>1, <2>2
  <1>13. FirstDeliveriesInOrder'
    <2> SUFFICES ASSUME Alone, NEW old \in committed', NEW new \in committed', Before(old, new),
                        NEW n \in 1 .. Len(log[key[new]]), log[key[new]][n] = new
                 PROVE  \E m \in 1 .. n - 1 : log[key[new]][m] = old
      BY <1>3 DEF FirstDeliveriesInOrder
    <2>1. key[new] \in Keys
      BY <1>6 DEF TypeOK, Ids
    <2>2. new \in committed
      BY <2>1 DEF IInv, NothingLostNothingInvented, Elements
    <2>3. old \in committed
      BY <1>4, <2>2
    <2> QED
      BY <2>2, <2>3 DEF IInv, FirstDeliveriesInOrder
  <1> QED
    BY <1>3, <1>6, <1>7, <1>8, <1>9, <1>10, <1>11, <1>12, <1>13 DEF IInv

-----------------------------------------------------------------------------
(* Relays *)

\* The rows of a claim are visible, unpublished and in no other relay's hands.
LEMMA ClaimInv == ASSUME IInv, NEW r \in running, r \in Relays, Claim(r) PROVE IInv'
  <1> USE RelayAssumption DEF Claim, table
  <1>1. PICK s \in Oldest(Claimable) : batch' = [batch EXCEPT ![r] = s]
    OBVIOUS
  <1>2. Claimable \in SUBSET Ids /\ Claimable \subseteq committed
    BY DEF IInv, TypeOK, Ids, Claimable
  <1>3. /\ s \in Seq(Claimable) /\ Len(s) \in 1 .. BatchSize
        /\ \A i, j \in 1 .. Len(s) : i < j => s[i] < s[j]
        /\ \A x \in Claimable, y \in Elements(s) : x < y => x \in Elements(s)
    BY <1>2, OldestProperties
  <1>4. s \in Seq(Ids) /\ Elements(s) \subseteq Claimable
    BY <1>2, <1>3 DEF Elements
  <1>5. batch \in [Relays -> Seq(Ids)] /\ pc \in [Relays -> {"idle", "send", "mark", "commit"}]
    BY DEF IInv, TypeOK
  <1>6. batch'[r] = s /\ pc'[r] = "send" /\ pos[r] = 0 /\ batch[r] = << >>
    BY <1>1, <1>5 DEF IInv, PassInv
  <1>7. \A q \in Relays \ {r} : batch'[q] = batch[q] /\ pc'[q] = pc[q]
    BY <1>1, <1>5
  <1>8. /\ \A id : Delivered(id)' = Delivered(id)
        /\ \A x, y : Before(x, y)' = Before(x, y) /\ Follows(x, y)' = Follows(x, y)
        /\ Alone' = Alone /\ Pending' = Pending
    BY OrderIsOfTheTables DEF Delivered, Follows
  <1>9. Sent(r)' = {} /\ \A q \in Relays \ {r} : Sent(q)' = Sent(q)
    BY <1>6, <1>7 DEF Sent
  <1>10. \A q \in Relays \ {r} : Elements(batch[q]) \cap Elements(s) = {}
    BY <1>4 DEF Claimable, Locked
  <1>11. TypeOK'
    <2>1. batch' \in [Relays -> Seq(Ids)]
      BY <1>1, <1>4, <1>5
    <2>2. pc' \in [Relays -> {"idle", "send", "mark", "commit"}]
      BY <1>5
    <2>3. Locked' \subseteq committed
      <3>1. \A q \in Relays : Elements(batch'[q]) \subseteq committed
        BY <1>2, <1>4, <1>6, <1>7, BatchFacts
      <3> QED
        BY <3>1 DEF Locked
    <2>4. \A q \in Relays : Len(batch'[q]) <= BatchSize /\ pos[q] \in 0 .. Len(batch'[q])
      BY <1>3, <1>6, <1>7 DEF IInv, TypeOK
    <2>5. \A q \in Relays \ running : pc'[q] = "idle"
      BY <1>7 DEF IInv, TypeOK
    <2> QED
      BY <1>8, <2>1, <2>2, <2>3, <2>4, <2>5 DEF IInv, TypeOK
  <1>12. NothingLostNothingInvented'
    BY <1>8 DEF IInv, NothingLostNothingInvented
  <1>13. ClaimsAreExclusive'
    <2>1. ClaimsAreExclusive
      BY DEF IInv
    <2>2. Elements(batch'[r]) = Elements(s) /\ Elements(s) \cap published = {}
      BY <1>4, <1>6 DEF Claimable
    <2>3. \A q \in Relays \ {r} : Elements(batch'[q]) = Elements(batch[q])
      BY <1>7
    <2>4. published' = published
      OBVIOUS
    <2>5. ASSUME NEW p \in Relays, NEW q \in Relays, p # q
          PROVE  Elements(batch'[p]) \cap Elements(batch'[q]) = {}
      <3>1. CASE p = r
        BY <1>10, <2>2, <2>3, <2>5, <3>1
      <3>2. CASE q = r
        BY <1>10, <2>2, <2>3, <2>5, <3>2
      <3>3. CASE p # r /\ q # r
        BY <2>1, <2>3, <2>5, <3>3 DEF ClaimsAreExclusive
      <3> QED
        BY <3>1, <3>2, <3>3
    <2>6. \A q \in Relays : Elements(batch'[q]) \cap published' = {}
      BY <2>1, <2>2, <2>3, <2>4 DEF ClaimsAreExclusive
    <2>7. \A q \in Relays : Elements(batch[q])' = Elements(batch'[q])
      BY DEF Elements
    <2> QED
      BY <2>5, <2>6, <2>7 DEF ClaimsAreExclusive
  <1>14. \A q \in Relays : PassInv(q)'
    BY <1>3, <1>6, <1>7 DEF IInv, PassInv
  <1>15. SentInv'
    BY <1>8, <1>9 DEF IInv, SentInv
  <1>16. SeesInv' /\ LockInv'
    BY <1>8 DEF IInv, SeesInv, LockInv
  <1>17. ASSUME Alone PROVE OrderInv'
    <2>1. Claimable = committed \ published
      <3>1. \A q \in Relays : batch[q] = << >>
        BY <1>6, <1>17 DEF Alone, IInv, TypeOK, PassInv
      <3> QED
        BY <3>1 DEF Claimable, Locked, Elements
    <2>2. OrderInv
      BY <1>17 DEF IInv
    <2> SUFFICES ASSUME NEW old \in committed, NEW new \in committed, Before(old, new)
                 PROVE  /\ new \in published => old \in published
                        /\ \A q \in Relays : new \in Elements(batch'[q]) =>
                              old \in published \cup Elements(batch'[q])
                        /\ new \in published \cup UNION {Sent(q)' : q \in Relays} =>
                              Follows(old, new)
      BY <1>8 DEF OrderInv
    <2>3. old < new
      BY BeforeFacts DEF IInv
    <2>4. ASSUME NEW q \in Relays, new \in Elements(batch'[q])
          PROVE  old \in published \cup Elements(batch'[q])
      BY <1>3, <1>6, <1>7, <2>1, <2>2, <2>3, <2>4 DEF OrderInv
    <2> QED
      BY <1>9, <2>2, <2>4 DEF OrderInv
  <1>18. FirstDeliveriesInOrder'
    BY <1>8 DEF IInv, FirstDeliveriesInOrder
  <1> QED
    BY <1>8, <1>11, <1>12, <1>13, <1>14, <1>15, <1>16, <1>17, <1>18 DEF IInv

\* What a pass may do to the log in one step.
Delivers(r) == pc[r] = "send" /\ Deliver(Current(r))
LogStep(r) == UNCHANGED log \/ Delivers(r)

\* A delivery keeps what was delivered and is of a committed row under its key.  With one
\* relay it is the first one of no row that follows an undelivered one, and the messages
\* of what is published or sent, or just delivered, follow those of the rows before it.
LEMMA LogStepFacts ==
    ASSUME IInv, NEW r \in running, r \in Relays, LogStep(r), UNCHANGED table
    PROVE  /\ log' \in [Keys -> Seq(Ids)]
           /\ \A id \in committed : Delivered(id) => Delivered(id)'
           /\ \A id \in committed : Delivers(r) /\ id = Current(r) => Delivered(id)'
           /\ \A k \in Keys : \A id \in Elements(log'[k]) : id \in committed /\ key[id] = k
           /\ Alone => \A old, new \in committed : Before(old, new) =>
                /\ new \in published \cup UNION {Sent(q) : q \in Relays} => Follows(old, new)'
                /\ Delivers(r) /\ new = Current(r) => Follows(old, new)'
           /\ FirstDeliveriesInOrder'
  <1> USE RelayAssumption
  <1>1. /\ \A x, y : Before(x, y)' = Before(x, y)
        /\ Alone' = Alone /\ key' = key /\ committed' = committed
    BY OrderIsOfTheTables DEF table
  <1>2. log \in [Keys -> Seq(Ids)]
    BY DEF IInv, TypeOK
  <1>3. CASE log' = log /\ ~Delivers(r)
    <2>1. \A x, y : Follows(x, y)' = Follows(x, y)
      BY <1>1, <1>3 DEF Follows
    <2>2. FirstDeliveriesInOrder'
      BY <1>1, <1>3 DEF IInv, FirstDeliveriesInOrder
    <2>3. \A id : Delivered(id)' = Delivered(id)
      BY <1>1, <1>3 DEF Delivered
    <2> QED
      BY <1>2, <1>3, <2>1, <2>2, <2>3 DEF IInv, NothingLostNothingInvented, OrderInv
  <1>4. CASE Delivers(r)
    <2> DEFINE c == Current(r)
               kc == key[c]
    <2>0. \A id \in published \cup Sent(r) : Delivered(id)
      BY DEF IInv, NothingLostNothingInvented, SentInv
    <2>1. /\ batch[r] \in Seq(Ids) /\ pos[r] \in Nat /\ pos[r] + 1 \in 1 .. Len(batch[r])
          /\ c \in Elements(batch[r]) /\ c \in committed /\ c \in Ids /\ c \notin published
      <3>1. batch[r] \in Seq(Ids) /\ pos[r] \in Nat /\ Elements(batch[r]) \subseteq committed
        BY BatchFacts
      <3>2. pos[r] + 1 \in 1 .. Len(batch[r])
        BY <1>4, <3>1 DEF IInv, PassInv, Delivers
      <3>3. c \in Elements(batch[r])
        BY <3>2 DEF Elements, Current
      <3>4. c \notin published
        BY <3>3 DEF IInv, ClaimsAreExclusive
      <3>5. committed \subseteq Ids
        BY DEF IInv, TypeOK, Ids
      <3> QED
        BY <3>1, <3>2, <3>3, <3>4, <3>5
    <2>2. kc \in Keys
      BY <2>1 DEF IInv, TypeOK
    <2>3. /\ log'[kc] = Append(log[kc], c)
          /\ \A k \in Keys \ {kc} : log'[k] = log[k]
          /\ log' \in [Keys -> Seq(Ids)]
      BY <1>2, <1>4, <2>1, <2>2 DEF Deliver, Delivers
    <2>4. Elements(log'[kc]) = Elements(log[kc]) \cup {c}
      BY <1>2, <2>1, <2>2, <2>3, ElementsAppend
    <2>5. /\ Len(log'[kc]) = Len(log[kc]) + 1 /\ Len(log[kc]) \in Nat
          /\ log'[kc][Len(log[kc]) + 1] = c
          /\ \A i \in 1 .. Len(log[kc]) : log'[kc][i] = log[kc][i]
      BY <1>2, <2>1, <2>2, <2>3
    <2>6. \A id \in committed : key[id] \in Keys
      BY DEF IInv, TypeOK, Ids
    <2>7. \A id \in committed : Delivered(id) => Delivered(id)'
      BY <1>1, <2>3, <2>4, <2>6 DEF Delivered
    <2>8. \A id \in committed : id = c => Delivered(id)'
      BY <1>1, <2>4 DEF Delivered
    <2>9. \A k \in Keys : \A id \in Elements(log'[k]) : id \in committed /\ key[id] = k
      <3>1. \A k \in Keys : \A id \in Elements(log[k]) : id \in committed /\ key[id] = k
        BY DEF IInv, NothingLostNothingInvented
      <3>2. \A id \in Elements(log'[kc]) : id \in committed /\ key[id] = kc
        BY <2>1, <2>2, <2>4, <3>1
      <3> QED
        BY <2>3, <3>1, <3>2
    <2>10. \A id \in committed : id \in Nat
      BY DEF IInv, TypeOK, Ids
    <2>11. ASSUME Alone, NEW old \in committed, Before(old, c)
           PROVE  old < c /\ key[old] = kc /\ Delivered(old)
      <3>1. old < c /\ key[old] = kc
        BY <2>1, <2>11, BeforeFacts DEF IInv
      <3>2. old \in published \cup Elements(batch[r])
        BY <2>1, <2>11 DEF IInv, OrderInv
      <3>3. CASE old \in published
        BY <2>0, <3>1, <3>3
      <3>4. CASE old \in Elements(batch[r])
        <4>1. PICK i \in 1 .. Len(batch[r]) : old = batch[r][i]
          BY <3>4 DEF Elements
        <4>2. i <= pos[r]
          <5>1. ~(pos[r] + 1 < i)
            BY <2>1, <2>10, <3>1, <4>1 DEF IInv, PassInv, Current
          <5>2. i # pos[r] + 1
            BY <2>1, <2>10, <3>1, <4>1 DEF Current
          <5> QED
            BY <2>1, <4>1, <5>1, <5>2
        <4>3. old \in Sent(r)
          BY <1>4, <2>1, <4>1, <4>2 DEF Sent, Delivers
        <4> QED
          BY <2>0, <3>1, <4>3
      <3> QED
        BY <3>1, <3>2, <3>3, <3>4
    <2>12. ASSUME Alone, NEW new \in committed, Before(c, new)
           PROVE  new \notin published /\ \A q \in Relays : new \notin Sent(q)
      <3>1. c < new
        BY <2>1, <2>12, BeforeFacts DEF IInv
      <3>2. new \notin published
        BY <2>1, <2>12 DEF IInv, OrderInv
      <3>3. ASSUME NEW q \in Relays, new \in Sent(q) PROVE FALSE
        <4>1. q = r
          <5>1. batch[q] # << >>
            BY <3>3, BatchFacts DEF Elements
          <5> QED
            BY <2>12, <5>1 DEF Alone, IInv, TypeOK, PassInv
        <4>2. PICK i \in 1 .. pos[r] : new = batch[r][i]
          BY <1>4, <3>3, <4>1 DEF Sent, Delivers
        <4>3. i < pos[r] + 1 /\ i \in 1 .. Len(batch[r])
          BY <2>1, <4>2
        <4>4. new < c
          BY <2>1, <4>2, <4>3 DEF IInv, PassInv, Current
        <4> QED
          BY <2>1, <2>10, <3>1, <4>4
      <3> QED
        BY <3>2, <3>3
    <2>13. ASSUME Alone, NEW old \in committed, NEW new \in committed, Before(old, new)
           PROVE  /\ new \in published \cup UNION {Sent(q) : q \in Relays} => Follows(old, new)'
                  /\ new = c => Follows(old, new)'
      <3>1. CASE key[new] # kc
        <4>1. log'[key[new]] = log[key[new]]
          BY <2>3, <2>6, <3>1
        <4>2. Follows(old, new)' = Follows(old, new)
          BY <1>1, <4>1 DEF Follows
        <4> QED
          BY <2>13, <3>1, <4>2 DEF IInv, OrderInv
      <3>2. CASE key[new] = kc /\ new = c
        <4>1. old # c
          BY <2>1, <2>10, <2>11, <2>13, <3>2
        <4>2. Follows(old, new)'
          BY <1>1, <2>5, <3>2, <4>1 DEF Follows
        <4> QED
          BY <4>2
      <3>3. CASE key[new] = kc /\ new # c
        <4> SUFFICES ASSUME new \in published \cup UNION {Sent(q) : q \in Relays}
                     PROVE  Follows(old, new)'
          BY <3>3
        <4>1. old # c
          BY <2>12, <2>13
        <4>2. Follows(old, new)
          BY <2>13 DEF IInv, OrderInv
        <4>3. ASSUME NEW n \in 1 .. Len(log'[kc]), log'[kc][n] = old
              PROVE  \E m \in n + 1 .. Len(log'[kc]) : log'[kc][m] = new
          <5>1. n \in 1 .. Len(log[kc]) /\ log[kc][n] = old
            BY <2>5, <4>1, <4>3
          <5>2. PICK m \in n + 1 .. Len(log[kc]) : log[kc][m] = new
            BY <3>3, <4>2, <5>1 DEF Follows
          <5> QED
            BY <2>5, <5>1, <5>2
        <4> QED
          BY <1>1, <3>3, <4>3 DEF Follows
      <3> QED
        BY <3>1, <3>2, <3>3
    <2>14. FirstDeliveriesInOrder'
      <3> SUFFICES ASSUME Alone, NEW old \in committed, NEW new \in committed, Before(old, new),
                          NEW n \in 1 .. Len(log'[key[new]]), log'[key[new]][n] = new
                   PROVE  \E m \in 1 .. n - 1 : log'[key[new]][m] = old
        BY <1>1 DEF FirstDeliveriesInOrder
      <3>1. CASE key[new] # kc
        <4>1. log'[key[new]] = log[key[new]]
          BY <2>3, <2>6, <3>1
        <4> QED
          BY <4>1 DEF IInv, FirstDeliveriesInOrder
      <3>2. CASE key[new] = kc /\ n \in 1 .. Len(log[kc])
        <4>1. PICK m \in 1 .. n - 1 : log[kc][m] = old
          BY <3>2, <2>2, <2>5 DEF IInv, FirstDeliveriesInOrder
        <4> QED
          BY <3>2, <4>1, <2>5
      <3>3. CASE key[new] = kc /\ n = Len(log[kc]) + 1
        <4>1. new = c
          BY <2>5, <3>3
        <4>2. Delivered(old) /\ key[old] = kc
          BY <2>11, <4>1
        <4>3. PICK m \in 1 .. Len(log[kc]) : log[kc][m] = old
          BY <4>2 DEF Delivered, Elements
        <4> QED
          BY <2>5, <3>3, <4>3
      <3> QED
        BY <2>5, <3>1, <3>2, <3>3
    <2> QED
      BY <2>3, <2>7, <2>8, <2>9, <2>13, <2>14
  <1> QED
    BY <1>3, <1>4 DEF LogStep

\* The end of a pass, committed (the marks of what it has sent stay) or rolled back.
LEMMA EndPassInv ==
    ASSUME IInv, NEW r \in running, r \in Relays, NEW marks,
           marks = Marked(r) \/ marks = {}, LogStep(r), EndPass(r, marks),
           UNCHANGED table, faults' \in 0 .. MaxFaults
    PROVE  IInv'
  <1> USE RelayAssumption DEF table
  <1> DEFINE ok == {"idle", "send", "mark", "commit"}
  <1>1. /\ published' = published \cup marks
        /\ batch'[r] = << >> /\ pos'[r] = 0 /\ pc'[r] = "idle"
        /\ \A q \in Relays \ {r} : batch'[q] = batch[q] /\ pos'[q] = pos[q] /\ pc'[q] = pc[q]
        /\ batch' \in [Relays -> Seq(Ids)] /\ pos' \in [Relays -> Nat] /\ pc' \in [Relays -> ok]
    BY DEF IInv, TypeOK, EndPass
  <1>2. marks \subseteq Sent(r) /\ marks \subseteq Elements(batch[r]) /\ marks \subseteq committed
    BY BatchFacts
  <1>3. Elements(batch'[r]) = {} /\ Sent(r)' = {}
    BY <1>1 DEF Elements, Sent
  <1>4. \A q \in Relays \ {r} : Elements(batch'[q]) = Elements(batch[q]) /\ Sent(q)' = Sent(q)
    BY <1>1 DEF Sent
  <1>5. /\ \A x, y : Before(x, y)' = Before(x, y)
        /\ Alone' = Alone /\ Pending' = Pending
    BY OrderIsOfTheTables DEF table
  <1>6. /\ log' \in [Keys -> Seq(Ids)]
        /\ \A id \in committed : Delivered(id) => Delivered(id)'
        /\ \A k \in Keys : \A id \in Elements(log'[k]) : id \in committed /\ key[id] = k
        /\ FirstDeliveriesInOrder'
    BY LogStepFacts
  <1>7. Alone => \A old, new \in committed : Before(old, new) =>
          (new \in published \cup UNION {Sent(q) : q \in Relays} => Follows(old, new)')
    BY LogStepFacts
  <1>8. TypeOK'
    <2>1. Locked' \subseteq committed
      BY <1>3, <1>4, BatchFacts DEF Locked
    <2>2. \A q \in Relays : Len(batch'[q]) <= BatchSize /\ pos'[q] \in 0 .. Len(batch'[q])
      <3>1. Len(batch'[r]) = 0 /\ pos'[r] = 0
        BY <1>1
      <3>2. \A q \in Relays \ {r} : Len(batch'[q]) <= BatchSize /\ pos'[q] \in 0 .. Len(batch'[q])
        BY <1>1 DEF IInv, TypeOK
      <3> QED
        BY <3>1, <3>2
    <2>3. \A q \in Relays \ running : pc'[q] = "idle"
      BY <1>1 DEF IInv, TypeOK
    <2> QED
      BY <1>1, <1>2, <1>5, <1>6, <2>1, <2>2, <2>3 DEF IInv, TypeOK
  <1>9. NothingLostNothingInvented'
    <2>1. \A id \in published' : Delivered(id)'
      BY <1>1, <1>2, <1>6 DEF IInv, TypeOK, NothingLostNothingInvented, SentInv
    <2> QED
      BY <1>5, <1>6, <2>1 DEF NothingLostNothingInvented
  <1>10. ClaimsAreExclusive'
    BY <1>1, <1>2, <1>3, <1>4 DEF IInv, ClaimsAreExclusive
  <1>11. \A q \in Relays : PassInv(q)'
    <2>1. Len(batch'[r]) = 0
      BY <1>1
    <2>2. PassInv(r)'
      BY <1>1, <2>1 DEF PassInv
    <2>3. \A q \in Relays \ {r} : PassInv(q)'
      BY <1>1 DEF IInv, PassInv
    <2> QED
      BY <2>2, <2>3
  <1>12. SentInv'
    <2> SUFFICES ASSUME NEW q \in Relays, NEW id \in Sent(q)' PROVE Delivered(id)'
      BY DEF SentInv
    <2>1. id \in Sent(q) /\ id \in committed
      BY <1>3, <1>4, BatchFacts
    <2> QED
      BY <1>6, <2>1 DEF IInv, SentInv
  <1>13. SeesInv' /\ LockInv'
    BY <1>5 DEF IInv, SeesInv, LockInv
  <1>14. ASSUME Alone PROVE OrderInv'
    <2>1. OrderInv
      BY <1>14 DEF IInv
    <2> SUFFICES ASSUME NEW old \in committed, NEW id \in committed, Before(old, id)
                 PROVE  /\ id \in published' => old \in published'
                        /\ \A q \in Relays : id \in Elements(batch'[q]) =>
                              old \in published' \cup Elements(batch'[q])
                        /\ id \in published' \cup UNION {Sent(q)' : q \in Relays} =>
                              Follows(old, id)'
      BY <1>5 DEF OrderInv
    <2>0. old < id
      BY BeforeFacts DEF IInv
    <2>2. ASSUME id \in published' PROVE old \in published'
      <3>1. CASE id \in published
        BY <1>1, <2>1, <2>2, <3>1 DEF OrderInv
      <3>2. CASE id \in marks
        <4>1. old \in published \cup Elements(batch[r]) /\ marks = Marked(r)
          BY <1>2, <2>1, <2>2, <3>2 DEF OrderInv
        <4>2. ASSUME old \in Elements(batch[r]) PROVE old \in Marked(r)
          <5>1. PICK i \in 1 .. pos[r] : id = batch[r][i]
            BY <3>2, <4>1 DEF Marked
          <5>2. PICK j \in 1 .. Len(batch[r]) : old = batch[r][j]
            BY <4>2 DEF Elements
          <5>3. pos[r] \in 0 .. Len(batch[r]) /\ Len(batch[r]) \in Nat /\ id \in Nat /\ old \in Nat
            BY DEF IInv, TypeOK, Ids
          <5>4. j <= i
            BY <2>0, <5>1, <5>2, <5>3 DEF IInv, PassInv
          <5> QED
            BY <5>1, <5>2, <5>3, <5>4 DEF Marked
        <4> QED
          BY <1>1, <4>1, <4>2
      <3> QED
        BY <1>1, <2>2, <3>1, <3>2
    <2>3. ASSUME NEW q \in Relays, id \in Elements(batch'[q])
          PROVE  old \in published' \cup Elements(batch'[q])
      <3>1. q # r
        BY <1>3, <2>3
      <3> QED
        BY <1>1, <1>4, <2>1, <2>3, <3>1 DEF OrderInv
    <2>4. ASSUME id \in published' \cup UNION {Sent(q)' : q \in Relays}
          PROVE  id \in published \cup UNION {Sent(q) : q \in Relays}
      <3>1. CASE id \in published
        BY <3>1
      <3>2. CASE id \in marks
        BY <1>2, <3>2
      <3>3. ASSUME NEW q \in Relays, id \in Sent(q)'
            PROVE  id \in Sent(q)
        <4>1. q # r
          BY <1>3, <3>3
        <4> QED
          BY <1>4, <3>3, <4>1
      <3> QED
        BY <1>1, <2>4, <3>1, <3>2, <3>3
    <2> QED
      BY <1>7, <1>14, <2>2, <2>3, <2>4
  <1> QED
    BY <1>5, <1>6, <1>8, <1>9, <1>10, <1>11, <1>12, <1>13, <1>14 DEF IInv

\* The steps within a pass: the claim stays, and what counts as sent grows by no more than
\* the row just delivered.
LEMMA AdvanceInv ==
    ASSUME IInv, NEW r \in running, r \in Relays, LogStep(r),
           UNCHANGED <<table, published, batch, faults>>,
           pc' \in [Relays -> {"idle", "send", "mark", "commit"}], pos' \in [Relays -> Nat],
           \A q \in Relays \ {r} : pc'[q] = pc[q] /\ pos'[q] = pos[q],
           pos'[r] <= Len(batch[r]), PassInv(r)',
           \A id \in Sent(r)' : id \in Sent(r) \/ (Delivers(r) /\ id = Current(r))
    PROVE  IInv'
  <1> USE RelayAssumption DEF table
  <1>1. /\ \A x, y : Before(x, y)' = Before(x, y)
        /\ Alone' = Alone /\ Pending' = Pending
    BY OrderIsOfTheTables DEF table
  <1>2. \A q \in Relays \ {r} : Sent(q)' = Sent(q)
    BY DEF Sent
  <1>3. /\ log' \in [Keys -> Seq(Ids)]
        /\ \A id \in committed : Delivered(id) => Delivered(id)'
        /\ \A id \in committed : Delivers(r) /\ id = Current(r) => Delivered(id)'
        /\ \A k \in Keys : \A id \in Elements(log'[k]) : id \in committed /\ key[id] = k
        /\ FirstDeliveriesInOrder'
    BY LogStepFacts
  <1>4. TypeOK'
    <2>1. Locked' = Locked
      BY DEF Locked
    <2>2. \A q \in Relays : pos'[q] \in 0 .. Len(batch[q])
      <3>1. pos'[r] \in 0 .. Len(batch[r])
        <4>1. Len(batch[r]) \in Nat
          BY BatchFacts
        <4>2. pos'[r] \in Nat
          OBVIOUS
        <4> QED
          BY <4>1, <4>2
      <3>2. \A q \in Relays \ {r} : pos'[q] \in 0 .. Len(batch[q])
        BY DEF IInv, TypeOK
      <3> QED
        BY <3>1, <3>2
    <2>3. \A q \in Relays \ running : pc'[q] = "idle"
      BY DEF IInv, TypeOK
    <2> QED
      BY <1>1, <1>3, <2>1, <2>2, <2>3 DEF IInv, TypeOK
  <1>5. NothingLostNothingInvented'
    <2>1. \A id \in published : Delivered(id)'
      BY <1>3 DEF IInv, TypeOK, NothingLostNothingInvented
    <2> QED
      BY <1>1, <1>3, <2>1 DEF NothingLostNothingInvented
  <1>6. ClaimsAreExclusive' /\ SeesInv' /\ LockInv'
    BY <1>1 DEF IInv, ClaimsAreExclusive, SeesInv, LockInv
  <1>7. \A q \in Relays : PassInv(q)'
    BY DEF IInv, PassInv
  <1>8. \A q \in Relays : Sent(q)' \subseteq committed
    <2>1. \A q \in Relays : PassInv(q)' /\ pos'[q] \in Nat
      BY <1>7
    <2> SUFFICES ASSUME NEW q \in Relays PROVE Sent(q)' \subseteq Elements(batch[q])
      BY BatchFacts
    <2>2. batch[q] \in Seq(Ids) /\ Len(batch[q]) \in Nat /\ pos'[q] <= Len(batch[q])
      BY <1>4 DEF TypeOK
    <2>3. pc'[q] = "mark" => pos'[q] + 1 <= Len(batch[q])
      BY <2>1, <2>2 DEF PassInv
    <2> QED
      BY <2>1, <2>2, <2>3 DEF Sent, Elements
  <1>9. SentInv'
    <2> SUFFICES ASSUME NEW q \in Relays, NEW id \in Sent(q)' PROVE Delivered(id)'
      BY DEF SentInv
    <2>1. id \in committed
      BY <1>8
    <2>2. CASE id \in Sent(q)
      BY <1>3, <2>1, <2>2 DEF IInv, SentInv
    <2>3. CASE q = r /\ Delivers(r) /\ id = Current(r)
      BY <1>3, <2>1, <2>3
    <2> QED
      BY <1>2, <2>2, <2>3
  <1>10. ASSUME Alone PROVE OrderInv'
    <2>1. OrderInv
      BY <1>10 DEF IInv
    <2>2. ASSUME NEW old \in committed, NEW new \in committed, Before(old, new),
                 new \in published \cup UNION {Sent(q)' : q \in Relays}
          PROVE  Follows(old, new)'
      <3>1. \/ new \in published \cup UNION {Sent(q) : q \in Relays}
            \/ Delivers(r) /\ new = Current(r)
        BY <1>2, <2>2
      <3> QED
        BY <1>10, <2>2, <3>1, LogStepFacts
    <2> QED
      BY <1>1, <2>1, <2>2 DEF OrderInv
  <1> QED
    BY <1>1, <1>3, <1>4, <1>5, <1>6, <1>7, <1>9, <1>10 DEF IInv

LEMMA SendInv == ASSUME IInv, NEW r \in running, r \in Relays, Send(r) PROVE IInv'
  <1> USE DEF Send
  <1>1. /\ pc' \in [Relays -> {"idle", "send", "mark", "commit"}] /\ pos' \in [Relays -> Nat]
        /\ \A q \in Relays \ {r} : pc'[q] = pc[q] /\ pos'[q] = pos[q]
        /\ pc'[r] = "mark" /\ pos'[r] = pos[r] /\ pos[r] \in 0 .. Len(batch[r])
    BY DEF IInv, TypeOK
  <1>2. PassInv(r)'
    BY <1>1 DEF IInv, PassInv
  <1>3. Delivers(r)
    BY DEF Delivers
  <1>4. \A id \in Sent(r)' : id \in Sent(r) \/ id = Current(r)
    BY <1>1 DEF Sent, Current
  <1> QED
    BY <1>1, <1>2, <1>3, <1>4, AdvanceInv DEF LogStep, table

LEMMA MarkInv == ASSUME IInv, NEW r \in running, r \in Relays, Mark(r) PROVE IInv'
  <1> USE DEF Mark
  <1>1. /\ pc' \in [Relays -> {"idle", "send", "mark", "commit"}] /\ pos' \in [Relays -> Nat]
        /\ \A q \in Relays \ {r} : pc'[q] = pc[q] /\ pos'[q] = pos[q]
        /\ pc'[r] = IF pos[r] + 1 = Len(batch[r]) THEN "commit" ELSE "send"
        /\ pos'[r] = pos[r] + 1 /\ pos[r] \in 0 .. Len(batch[r]) /\ Len(batch[r]) \in Nat
    BY DEF IInv, TypeOK
  <1>2. pos[r] < Len(batch[r])
    BY DEF IInv, PassInv
  <1>3. PassInv(r)'
    BY <1>1, <1>2 DEF IInv, PassInv
  <1>4. \A id \in Sent(r)' : id \in Sent(r)
    BY <1>1 DEF Sent
  <1> QED
    BY <1>1, <1>2, <1>3, <1>4, AdvanceInv DEF LogStep, table

LEMMA EndInv ==
    ASSUME IInv, NEW r \in running, r \in Relays, SendFails(r) \/ CommitPass(r) \/ AbortPass(r)
    PROVE  IInv'
  <1> USE RelayAssumption
  <1>1. CASE SendFails(r)
    <2>1. faults' \in 0 .. MaxFaults
      BY <1>1 DEF SendFails, IInv, TypeOK
    <2>2. LogStep(r)
      BY <1>1 DEF SendFails, LogStep, Delivers
    <2> QED
      BY <1>1, <2>1, <2>2, EndPassInv DEF SendFails
  <1>2. CASE CommitPass(r)
    <2>1. faults' \in 0 .. MaxFaults
      BY <1>2 DEF CommitPass, IInv, TypeOK
    <2>2. LogStep(r)
      BY <1>2 DEF CommitPass, LogStep
    <2> QED
      BY <1>2, <2>1, <2>2, EndPassInv DEF CommitPass
  <1>3. CASE AbortPass(r)
    <2>1. faults' \in 0 .. MaxFaults
      BY <1>3 DEF AbortPass, IInv, TypeOK
    <2>2. LogStep(r)
      BY <1>3 DEF AbortPass, LogStep
    <2> QED
      BY <1>3, <2>1, <2>2, EndPassInv DEF AbortPass
  <1> QED
    BY <1>1, <1>2, <1>3

-----------------------------------------------------------------------------
(* The theorems *)

LEMMA NextInv == IInv /\ [Next]_vars => IInv'
  <1> SUFFICES ASSUME IInv, [Next]_vars PROVE IInv'
    OBVIOUS
  <1>1. running \subseteq Relays
    BY RelayAssumption DEF IInv, TypeOK
  <1>2. CASE UNCHANGED vars
    <2> USE <1>2 DEF vars, table
    <2>1. /\ \A id : Delivered(id)' = Delivered(id)
          /\ \A r : Sent(r)' = Sent(r) /\ PassInv(r)' = PassInv(r)
          /\ \A x, y : Before(x, y)' = Before(x, y) /\ Follows(x, y)' = Follows(x, y)
          /\ Alone' = Alone /\ Locked' = Locked /\ Pending' = Pending
      BY OrderIsOfTheTables DEF Delivered, Sent, PassInv, Follows, Locked
    <2>2. TypeOK'
      BY <2>1 DEF IInv, TypeOK
    <2>3. NothingLostNothingInvented' /\ ClaimsAreExclusive' /\ SentInv' /\ SeesInv' /\ LockInv'
      BY <2>1 DEF IInv, NothingLostNothingInvented, ClaimsAreExclusive, SentInv, SeesInv, LockInv
    <2>4. Alone => OrderInv'
      BY <2>1 DEF IInv, OrderInv
    <2>5. FirstDeliveriesInOrder'
      BY <2>1 DEF IInv, FirstDeliveriesInOrder
    <2> QED
      BY <2>1, <2>2, <2>3, <2>4, <2>5 DEF IInv
  <1>3. ASSUME \/ \E g \in Sources : \E k \in KeysOf(g), u \in open \cup {{}} : Insert(g, k, u)
               \/ \E u \in open : EndTransaction(u)
        PROVE  IInv'
    BY <1>3, InsertInv, EndTransactionInv
  <1>4. ASSUME NEW r \in running, Pass(r) \/ SendFails(r) \/ AbortPass(r) PROVE IInv'
    BY <1>1, <1>4, ClaimInv, SendInv, MarkInv, EndInv DEF Pass
  <1> QED
    BY <1>2, <1>3, <1>4 DEF Next

\* (IInv) The invariant behind the theorems of this module: it is inductive.
THEOREM Invariance == Spec => []IInv
  BY InitInv, NextInv, PTL DEF Spec

\* (TypeOK) Whatever relays do, the tables and the relays keep their types, and only
\* visible rows are claimed or published.
THEOREM TypeCorrect == Spec => []TypeOK
  <1>1. IInv => TypeOK
    BY DEF IInv
  <1> QED
    BY <1>1, Invariance, PTL

\* (RelayOnce, failRow) No crash, failed send or lost acknowledgement loses a committed
\* row or delivers an uncommitted one.
THEOREM OutboxIsFaithful == Spec => []NothingLostNothingInvented
  <1>1. IInv => NothingLostNothingInvented
    BY DEF IInv
  <1> QED
    BY <1>1, Invariance, PTL

\* (claim, FOR UPDATE SKIP LOCKED) Two relays never hold the same row, and none holds a
\* published one.
THEOREM ClaimsExclude == Spec => []ClaimsAreExclusive
  <1>1. IInv => ClaimsAreExclusive
    BY DEF IInv
  <1> QED
    BY <1>1, Invariance, PTL

\* (ADR 0016) With one relay, Kafka receives a row for the first time after every row
\* before it, whatever fails: of a key that one lock orders all older rows, of any key
\* the rows of the transactions that had ended and the earlier rows of its own.
THEOREM KeysAreOrdered == Spec => []FirstDeliveriesInOrder
  <1>1. IInv => FirstDeliveriesInOrder
    BY DEF IInv
  <1> QED
    BY <1>1, Invariance, PTL

\* (ADR 0023) ... and once every row is published each message, redeliveries included, is
\* followed by one of every row that came after it, under the key of a shift plan too:
\* only of commits that overlap may the older row be the last.
THEOREM LastMessageIsLatest == Spec => []SettledOnTheLatest
  <1>1. IInv => SettledOnTheLatest
    BY DEF IInv, OrderInv, SettledOnTheLatest
  <1> QED
    BY <1>1, Invariance, PTL

=============================================================================
