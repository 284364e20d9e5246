----------------------- MODULE MessageDeduplicator_proof -----------------------
(***************************************************************************)
(* What the operations of the LRU cache keep, for any keys and any size.   *)
(***************************************************************************)
EXTENDS MessageDeduplicator, SequenceTheorems, TLAPS

Entries(K) == [key : K, defined : BOOLEAN]

(* A Map has one entry for a key. *)
Distinct(cache) == \A i, j \in DOMAIN cache : cache[i].key = cache[j].key => i = j

HasKey(cache, key) == \E i \in DOMAIN cache : cache[i].key = key

(* Whatever longer holds, shorter does, in a place of its own. *)
Keeps(shorter, longer, i) == \E j \in DOMAIN shorter : shorter[j] = longer[i]

-------------------------------------------------------------------------------
(* cache.delete() removes the entry of the key, and no other. *)
LEMMA WithoutProperties ==
  ASSUME NEW K, NEW cache \in Seq(Entries(K)), Distinct(cache), NEW key
  PROVE  /\ Without(cache, key) \in Seq(Entries(K))
         /\ Distinct(Without(cache, key))
         /\ Len(Without(cache, key)) =
              IF HasKey(cache, key) THEN Len(cache) - 1 ELSE Len(cache)
         /\ \A i \in DOMAIN Without(cache, key) :
              /\ Without(cache, key)[i].key # key
              /\ Keeps(cache, Without(cache, key), i)
         /\ \A i \in DOMAIN cache :
              cache[i].key # key => Keeps(Without(cache, key), cache, i)
<1> DEFINE w == Without(cache, key)
<1>1. DOMAIN cache = 1..Len(cache) /\ Len(cache) \in Nat
  OBVIOUS
<1>2. CASE ~ HasKey(cache, key)
  <2>1. w = cache
    BY <1>2 DEF Without, HasKey
  <2>2. QED
    BY <1>2, <2>1 DEF HasKey, Keeps
<1>3. CASE HasKey(cache, key)
  <2> DEFINE at == CHOOSE i \in DOMAIN cache : cache[i].key = key
             n == Len(cache) - 1
             From(i) == IF i < at THEN i ELSE i + 1
  <2>1. at \in DOMAIN cache /\ cache[at].key = key
    BY <1>3 DEF HasKey
  <2>2. w = [i \in 1..n |-> cache[From(i)]]
    BY <1>3 DEF Without, HasKey
  <2>3. n \in Nat
    BY <1>1, <2>1
  <2> HIDE DEF at
  <2>4. \A i \in 1..n : From(i) \in DOMAIN cache /\ From(i) # at
    BY <1>1, <2>1, <2>3
  <2>5. \A i, j \in 1..n : From(i) = From(j) => i = j
    BY <1>1, <2>1, <2>3
  <2>6. \A i \in 1..n : cache[From(i)] \in Entries(K)
    BY <2>4, ElementOfSeq
  <2>7. w \in [1..n -> Entries(K)]
    BY <2>2, <2>6
  <2>8. w \in Seq(Entries(K)) /\ Len(w) = n /\ DOMAIN w = 1..n
    BY <2>3, <2>7
  <2>9. Distinct(w)
    BY <2>2, <2>4, <2>5, <2>8 DEF Distinct
  <2>10. \A i \in DOMAIN w : w[i].key # key /\ Keeps(cache, w, i)
    BY <2>1, <2>2, <2>4, <2>8 DEF Distinct, Keeps
  <2>11. ASSUME NEW i \in DOMAIN cache, cache[i].key # key
         PROVE  Keeps(w, cache, i)
    <3>1. i # at
      BY <2>1, <2>11
    <3>2. CASE i < at
      <4>1. i \in 1..n /\ From(i) = i
        BY <1>1, <2>1, <3>2
      <4>2. QED
        BY <2>2, <2>8, <4>1 DEF Keeps
    <3>3. CASE i > at
      <4>1. i - 1 \in 1..n /\ From(i - 1) = i
        BY <1>1, <2>1, <3>3
      <4>2. QED
        BY <2>2, <2>8, <4>1 DEF Keeps
    <3>4. QED
      BY <1>1, <2>1, <3>1, <3>2, <3>3
  <2>12. QED
    BY <1>3, <2>8, <2>9, <2>10, <2>11
<1>4. QED
  BY <1>2, <1>3

(* An entry that is used or set becomes the last. *)
LEMMA MovedToEndProperties ==
  ASSUME NEW K, NEW cache \in Seq(Entries(K)), Distinct(cache),
         NEW key \in K, NEW defined \in BOOLEAN
  PROVE  LET moved == MovedToEnd(cache, key, defined) IN
         /\ moved \in Seq(Entries(K))
         /\ Distinct(moved)
         /\ Len(moved) = IF HasKey(cache, key) THEN Len(cache) ELSE Len(cache) + 1
         /\ moved[Len(moved)] = Entry(key, defined)
         /\ \A i \in DOMAIN moved : moved[i].key = key \/ Keeps(cache, moved, i)
         /\ \A i \in DOMAIN cache : cache[i].key # key => Keeps(moved, cache, i)
<1> DEFINE w == Without(cache, key)
           moved == MovedToEnd(cache, key, defined)
<1>1. /\ w \in Seq(Entries(K))
      /\ Distinct(w)
      /\ Len(w) = IF HasKey(cache, key) THEN Len(cache) - 1 ELSE Len(cache)
      /\ \A i \in DOMAIN w : w[i].key # key /\ Keeps(cache, w, i)
      /\ \A i \in DOMAIN cache : cache[i].key # key => Keeps(w, cache, i)
  BY WithoutProperties
<1>2. moved = Append(w, Entry(key, defined))
  BY DEF MovedToEnd
<1>3. Entry(key, defined) \in Entries(K) /\ Entry(key, defined).key = key
  BY DEF Entry, Entries
<1> HIDE DEF w, moved
<1>4. /\ moved \in Seq(Entries(K))
      /\ Len(moved) = Len(w) + 1
      /\ \A i \in 1..Len(w) : moved[i] = w[i]
      /\ moved[Len(w) + 1] = Entry(key, defined)
  BY <1>1, <1>2, <1>3, AppendProperties
<1>5. /\ DOMAIN w = 1..Len(w) /\ Len(w) \in Nat
      /\ DOMAIN moved = 1..(Len(w) + 1)
  BY <1>1, <1>4
<1>6. Distinct(moved)
  BY <1>1, <1>3, <1>4, <1>5 DEF Distinct
<1>7. \A i \in DOMAIN moved : moved[i].key = key \/ Keeps(cache, moved, i)
  BY <1>1, <1>3, <1>4, <1>5 DEF Keeps
<1>8. ASSUME NEW i \in DOMAIN cache, cache[i].key # key
      PROVE  Keeps(moved, cache, i)
  <2>1. PICK j \in DOMAIN w : w[j] = cache[i]
    BY <1>1, <1>8 DEF Keeps
  <2>2. j \in DOMAIN moved /\ moved[j] = cache[i]
    BY <1>4, <1>5, <2>1
  <2>3. QED
    BY <2>2 DEF Keeps
<1>9. Len(moved) = IF HasKey(cache, key) THEN Len(cache) ELSE Len(cache) + 1
  BY <1>1, <1>4
<1>10. QED
  BY <1>4, <1>5, <1>6, <1>7, <1>8, <1>9 DEF moved

(* set() keeps the cache within its size and one entry for a key, and what *)
(* it puts there is the last.                                              *)
THEOREM SetKeepsCache ==
  ASSUME NEW K, NEW cache \in Seq(Entries(K)), Distinct(cache),
         NEW maxSize \in Nat, Len(cache) <= maxSize,
         NEW key \in K, NEW defined \in BOOLEAN
  PROVE  LET set == Set(cache, key, defined, maxSize) IN
         /\ set \in Seq(Entries(K))
         /\ Distinct(set)
         /\ Len(set) <= maxSize
         /\ maxSize > 0 => set[Len(set)] = Entry(key, defined)
         /\ \A i \in DOMAIN set : set[i].key = key \/ Keeps(cache, set, i)
<1> DEFINE moved == MovedToEnd(cache, key, defined)
           set == Set(cache, key, defined, maxSize)
<1>1. /\ moved \in Seq(Entries(K))
      /\ Distinct(moved)
      /\ Len(moved) = IF HasKey(cache, key) THEN Len(cache) ELSE Len(cache) + 1
      /\ moved[Len(moved)] = Entry(key, defined)
      /\ \A i \in DOMAIN moved : moved[i].key = key \/ Keeps(cache, moved, i)
  BY MovedToEndProperties
<1>2. set = IF Len(moved) > maxSize THEN Tail(moved) ELSE moved
  BY DEF Set
<1>3. Len(cache) \in Nat
  OBVIOUS
<1> HIDE DEF moved, set
<1>4. CASE Len(moved) > maxSize
  <2>1. set = Tail(moved) /\ moved # << >>
    BY <1>1, <1>2, <1>3, <1>4
  <2>2. /\ set \in Seq(Entries(K))
        /\ Len(set) = Len(moved) - 1
        /\ \A i \in 1..Len(set) : set[i] = moved[i + 1]
    BY <1>1, <2>1, HeadTailProperties
  <2>3. /\ DOMAIN set = 1..Len(set) /\ DOMAIN moved = 1..(Len(set) + 1) /\ Len(set) \in Nat
        /\ \A i \in DOMAIN set : i + 1 \in DOMAIN moved /\ set[i] = moved[i + 1]
    <3>1. DOMAIN set = 1..Len(set) /\ Len(set) \in Nat
      BY <2>2
    <3>2. DOMAIN moved = 1..Len(moved) /\ Len(moved) \in Nat
      BY <1>1
    <3>3. Len(moved) = Len(set) + 1
      BY <2>2, <3>1, <3>2
    <3>4. \A i \in 1..Len(set) : i + 1 \in 1..(Len(set) + 1)
      BY <3>1
    <3>5. QED
      BY <2>2, <3>1, <3>2, <3>3, <3>4
  <2>4. Distinct(set)
    <3>1. \A i, j \in DOMAIN set : moved[i + 1].key = moved[j + 1].key => i + 1 = j + 1
      BY <1>1, <2>3 DEF Distinct
    <3>2. \A i, j \in DOMAIN set : i + 1 = j + 1 => i = j
      BY <2>3
    <3>3. QED
      BY <2>3, <3>1, <3>2 DEF Distinct
  <2>5. ASSUME NEW i \in DOMAIN set
        PROVE  set[i].key = key \/ Keeps(cache, set, i)
    <3>1. moved[i + 1].key = key \/ Keeps(cache, moved, i + 1)
      BY <1>1, <2>3
    <3>2. QED
      BY <2>3, <3>1 DEF Keeps
  <2>6. Len(set) <= maxSize /\ (maxSize > 0 => set[Len(set)] = Entry(key, defined))
    BY <1>1, <1>3, <1>4, <2>2, <2>3
  <2>7. QED
    BY <2>2, <2>4, <2>5, <2>6 DEF set
<1>5. CASE ~ (Len(moved) > maxSize)
  <2>1. set = moved
    BY <1>2, <1>5
  <2>2. Len(moved) <= maxSize
    BY <1>1, <1>5
  <2>3. QED
    BY <1>1, <2>1, <2>2 DEF set
<1>6. QED
  BY <1>4, <1>5

(* set() evicts the entry that was used least recently, when the cache is  *)
(* full and the key is not in it, and nothing else.                        *)
THEOREM SetEvictsOldest ==
  ASSUME NEW K, NEW cache \in Seq(Entries(K)), Distinct(cache),
         NEW maxSize \in Nat, Len(cache) <= maxSize,
         NEW key \in K, NEW defined \in BOOLEAN,
         NEW i \in DOMAIN cache, cache[i].key # key,
         i # 1 \/ Len(cache) < maxSize \/ HasKey(cache, key)
  PROVE  Keeps(Set(cache, key, defined, maxSize), cache, i)
<1> DEFINE moved == MovedToEnd(cache, key, defined)
           set == Set(cache, key, defined, maxSize)
<1>1. /\ moved \in Seq(Entries(K))
      /\ Len(moved) = IF HasKey(cache, key) THEN Len(cache) ELSE Len(cache) + 1
      /\ Keeps(moved, cache, i)
  BY MovedToEndProperties
<1>2. set = IF Len(moved) > maxSize THEN Tail(moved) ELSE moved
  BY DEF Set
<1>3. Len(cache) \in Nat /\ DOMAIN cache = 1..Len(cache)
  OBVIOUS
<1>4. CASE ~ (Len(moved) > maxSize)
  BY <1>1, <1>2, <1>4
<1>5. CASE Len(moved) > maxSize
  <2>1. ~ HasKey(cache, key) /\ Len(moved) = Len(cache) + 1 /\ i # 1
    BY <1>1, <1>3, <1>5
  <2>2. moved = Append(cache, Entry(key, defined))
    BY <2>1 DEF MovedToEnd, Without, HasKey
  <2>3. moved[i] = cache[i]
    BY <1>3, <2>2, AppendProperties
  <2> HIDE DEF moved, set
  <2>4. set = Tail(moved) /\ moved # << >>
    BY <1>1, <1>2, <1>3, <1>5, <2>1
  <2>5. /\ set \in Seq(Entries(K))
        /\ Len(set) = Len(moved) - 1
        /\ \A j \in 1..Len(set) : set[j] = moved[j + 1]
    BY <1>1, <2>4, HeadTailProperties
  <2>6. i - 1 \in 1..Len(set) /\ DOMAIN set = 1..Len(set) /\ (i - 1) + 1 = i
    BY <1>3, <2>1, <2>5
  <2>7. set[i - 1] = cache[i]
    BY <2>3, <2>5, <2>6
  <2>8. QED
    BY <2>6, <2>7 DEF Keeps, set
<1>6. QED
  BY <1>4, <1>5

(* A key that is looked up is found where it was put; finding it, or not,  *)
(* adds no key.                                                            *)
LEMMA LookupProperties ==
  ASSUME NEW K, NEW cache \in Seq(Entries(K)), Distinct(cache), NEW key \in K,
         NEW after, after \in Hits(cache, key) \/ after \in Misses(cache, key)
  PROVE  /\ after \in Seq(Entries(K))
         /\ Distinct(after)
         /\ Len(after) <= Len(cache)
         /\ \A i \in DOMAIN after : \E j \in DOMAIN cache : after[i].key = cache[j].key
         /\ after \in Hits(cache, key) => HasKey(cache, key)
<1>1. Len(cache) \in Nat
  OBVIOUS
<1>2. ASSUME NEW defined \in BOOLEAN, Has(cache, key, defined)
      PROVE  HasKey(cache, key)
  BY <1>2 DEF Has, HasKey, Entry
<1>3. ASSUME NEW defined \in BOOLEAN, Has(cache, key, defined),
             after = MovedToEnd(cache, key, defined)
      PROVE  /\ after \in Seq(Entries(K)) /\ Distinct(after) /\ Len(after) = Len(cache)
             /\ \A i \in DOMAIN after : \E j \in DOMAIN cache : after[i].key = cache[j].key
  <2>1. HasKey(cache, key)
    BY <1>2, <1>3
  <2>2. /\ after \in Seq(Entries(K)) /\ Distinct(after) /\ Len(after) = Len(cache)
        /\ \A i \in DOMAIN after : after[i].key = key \/ Keeps(cache, after, i)
    BY <1>3, <2>1, MovedToEndProperties
  <2>3. QED
    BY <2>1, <2>2 DEF HasKey, Keeps
<1>4. ASSUME after = Without(cache, key)
      PROVE  /\ after \in Seq(Entries(K)) /\ Distinct(after) /\ Len(after) <= Len(cache)
             /\ \A i \in DOMAIN after : \E j \in DOMAIN cache : after[i].key = cache[j].key
  <2>1. /\ after \in Seq(Entries(K)) /\ Distinct(after)
        /\ Len(after) = IF HasKey(cache, key) THEN Len(cache) - 1 ELSE Len(cache)
        /\ \A i \in DOMAIN after : Keeps(cache, after, i)
    BY <1>4, WithoutProperties
  <2>2. \A i \in DOMAIN after : \E j \in DOMAIN cache : after[i].key = cache[j].key
    BY <2>1 DEF Keeps
  <2>3. QED
    BY <1>1, <2>1, <2>2
<1>5. after \in Hits(cache, key) => HasKey(cache, key)
  BY <1>2 DEF Hits
<1>6. CASE after = Without(cache, key)
  BY <1>4, <1>5, <1>6
<1>7. CASE \E defined \in BOOLEAN :
             Has(cache, key, defined) /\ after = MovedToEnd(cache, key, defined)
  BY <1>1, <1>3, <1>5, <1>7
<1>8. QED
  BY <1>6, <1>7 DEF Hits, Misses
=============================================================================
