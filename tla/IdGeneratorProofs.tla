------------------------- MODULE IdGeneratorProofs -------------------------
(***************************************************************************)
(* What the id generator guarantees for every number and size of blocks    *)
(* and every length of run: that it implements IdPool, and that a freed id *)
(* rests, unless its block got the id of a user marker last.               *)
(***************************************************************************)
EXTENDS IdGenerator, FiniteSetTheorems, SequenceTheorems, TLAPS

(* An offset in a block stands for an id, also in the last block.          *)
OnlyIds == \A b \in Blocks : \A n \in DOMAIN free[b] : Value(b, free[b][n]) \in Ids

Owning == TypeOK /\ EachIdOnce /\ OnlyIds

(* What has been free for longer lies in a block with an older time.       *)
Rested ==
    /\ \A b \in Blocks : stamp[b] <= clock
    /\ \A x \in Ids \ held : \A y \in ahead[x] :
          /\ IsFree(y)
          /\ stamp[BlockOf(y)] < clock
          /\ BlockOf(x) \notin hurried => stamp[BlockOf(y)] < stamp[BlockOf(x)]

NonEmpty == {b \in Blocks : free[b] # <<>>}
-----------------------------------------------------------------------------
(* An id and its place in its block determine each other.                  *)
LEMMA Place ==
    ASSUME NEW id \in Ids
    PROVE  /\ BlockOf(id) \in Blocks
           /\ OffsetOf(id) \in Offsets
           /\ Value(BlockOf(id), OffsetOf(id)) = id
<1>1. \A m, s : m \in Nat /\ s \in Nat \ {0} =>
          m \div s \in Nat /\ m % s \in 0 .. s - 1 /\ (m % s) + (m \div s) * s = m
  OBVIOUS
<1>2. \A m, k, s : m \in Nat /\ k \in Nat /\ m <= k /\ s \in Nat \ {0} => m \div s <= k \div s
  OBVIOUS
<1>3. id \in Nat /\ id <= MaxValue /\ MaxValue \in Nat /\ BlockSize \in Nat \ {0}
  BY GeneratorAssumption DEF Ids
<1>4. id \div BlockSize \in Nat /\ MaxValue \div BlockSize \in Nat
  BY <1>1, <1>3
<1> QED
  BY <1>1, <1>2, <1>3, <1>4 DEF Blocks, Offsets, BlockOf, OffsetOf, Value

LEMMA PlaceOfValue ==
    ASSUME NEW b \in Blocks, NEW o \in Offsets
    PROVE  BlockOf(Value(b, o)) = b /\ OffsetOf(Value(b, o)) = o
<1>1. \A m, s : \A r \in 0 .. s - 1 : m \in Nat /\ s \in Nat \ {0} =>
          (r + m * s) \div s = m /\ (r + m * s) % s = r
  OBVIOUS
<1>2. b \in Nat /\ o \in 0 .. BlockSize - 1 /\ BlockSize \in Nat \ {0}
  BY GeneratorAssumption DEF Blocks, Offsets
<1> QED
  BY <1>1, <1>2 DEF BlockOf, OffsetOf, Value

(* Taking one id out of a block leaves the others, each once.              *)
LEMMA RemovedOne ==
    ASSUME NEW S, NEW s \in Seq(S), NEW n \in DOMAIN s,
           \A j, k \in DOMAIN s : s[j] = s[k] => j = k
    PROVE  /\ Removed(s, n) \in Seq(S)
           /\ Len(Removed(s, n)) = Len(s) - 1
           /\ \A j, k \in DOMAIN Removed(s, n) :
                 Removed(s, n)[j] = Removed(s, n)[k] => j = k
           /\ \A e : (\E k \in DOMAIN Removed(s, n) : Removed(s, n)[k] = e)
                        <=> e # s[n] /\ \E k \in DOMAIN s : s[k] = e
<1> DEFINE r == Removed(s, n)
<1>1. Len(s) \in Nat \ {0} /\ DOMAIN s = 1..Len(s) /\ n \in 1..Len(s)
  OBVIOUS
<1>2. r \in Seq(S) /\ Len(r) = Len(s) - 1 /\ DOMAIN r = 1 .. Len(s) - 1
  BY <1>1 DEF Removed
<1>3. \A k \in 1 .. Len(s) - 1 : r[k] = IF k = n THEN s[Len(s)] ELSE s[k]
  BY <1>1 DEF Removed
<1>4. \A j, k \in DOMAIN r : r[j] = r[k] => j = k
  BY <1>1, <1>2, <1>3
<1>5. ASSUME NEW e, NEW k \in DOMAIN r, r[k] = e
      PROVE  e # s[n] /\ \E j \in DOMAIN s : s[j] = e
  BY <1>1, <1>2, <1>3, <1>5
<1>6. ASSUME NEW k \in DOMAIN s, s[k] # s[n]
      PROVE  \E j \in DOMAIN r : r[j] = s[k]
  <2>1. CASE k = Len(s)
    BY <1>1, <1>2, <1>3, <1>6, <2>1
  <2>2. CASE k # Len(s)
    BY <1>1, <1>2, <1>3, <1>6, <2>2
  <2> QED
    BY <2>1, <2>2
<1> QED
  BY <1>2, <1>4, <1>5, <1>6
-----------------------------------------------------------------------------
(* Who calls gets a free id, and the blocks keep the others.               *)
LEMMA Taking ==
    ASSUME Owning, NEW b \in Blocks, NEW n \in DOMAIN free[b], GetFromBlock(b, n)
    PROVE  /\ Value(b, free[b][n]) \in Ids \ held
           /\ held' = held \cup {Value(b, free[b][n])}
           /\ free' \in [Blocks -> Seq(Offsets)]
           /\ EachIdOnce' /\ OnlyIds'
           /\ \A y \in Ids : IsFree(y)' <=> IsFree(y) /\ y # Value(b, free[b][n])
<1> DEFINE o == free[b][n]
           id == Value(b, o)
           r == Removed(free[b], n)
<1>1. free[b] \in Seq(Offsets) /\ o \in Offsets
  BY DEF Owning, TypeOK
<1>2. id \in Ids /\ BlockOf(id) = b /\ OffsetOf(id) = o
  BY <1>1, PlaceOfValue DEF Owning, OnlyIds
<1>3. IsFree(id)
  BY <1>2 DEF IsFree
<1>4. id \notin held
  BY <1>2, <1>3 DEF Owning, EachIdOnce
<1>5. held' = held \cup {id} /\ free' = [free EXCEPT ![b] = r]
  BY DEF GetFromBlock
<1>6. /\ r \in Seq(Offsets)
      /\ \A j, k \in DOMAIN r : r[j] = r[k] => j = k
      /\ \A e : (\E k \in DOMAIN r : r[k] = e) <=> e # o /\ \E k \in DOMAIN free[b] : free[b][k] = e
  <2> HIDE DEF r
  <2>1. \A j, k \in DOMAIN free[b] : free[b][j] = free[b][k] => j = k
    BY DEF Owning, EachIdOnce
  <2> QED
    BY <1>1, <2>1, RemovedOne DEF r
<1>7. free' \in [Blocks -> Seq(Offsets)] /\ free'[b] = r /\ \A c \in Blocks : c # b => free'[c] = free[c]
  BY <1>5, <1>6 DEF Owning, TypeOK
<1> HIDE DEF r
<1>8. ASSUME NEW y \in Ids
      PROVE  IsFree(y)' <=> IsFree(y) /\ y # id
  <2>1. BlockOf(y) \in Blocks /\ Value(BlockOf(y), OffsetOf(y)) = y
    BY Place
  <2>2. CASE BlockOf(y) # b
    BY <1>2, <1>7, <2>1, <2>2 DEF IsFree
  <2>3. CASE BlockOf(y) = b
    <3>1. IsFree(y) <=> \E k \in DOMAIN free[b] : free[b][k] = OffsetOf(y)
      BY <2>3 DEF IsFree
    <3>2. IsFree(y)' <=> \E k \in DOMAIN r : r[k] = OffsetOf(y)
      BY <1>7, <2>3 DEF IsFree
    <3>3. y # id <=> OffsetOf(y) # o
      BY <1>2, <2>1, <2>3
    <3> QED
      BY <1>6, <3>1, <3>2, <3>3
  <2> QED
    BY <2>2, <2>3
<1>9. EachIdOnce'
  <2>1. \A y \in Ids : IsFree(y)' <=> y \notin held'
    BY <1>5, <1>8 DEF Owning, EachIdOnce
  <2>2. \A c \in Blocks : \A j, k \in DOMAIN free'[c] : free'[c][j] = free'[c][k] => j = k
    BY <1>6, <1>7 DEF Owning, EachIdOnce
  <2> QED
    BY <2>1, <2>2 DEF EachIdOnce, IsFree
<1>10. OnlyIds'
  <2> SUFFICES ASSUME NEW c \in Blocks, NEW k \in DOMAIN free'[c]
               PROVE  Value(c, free'[c][k]) \in Ids
    BY DEF OnlyIds, Value
  <2>1. \E j \in DOMAIN free[c] : free[c][j] = free'[c][k]
    <3>1. CASE c = b
      <4>1. k \in DOMAIN r /\ free'[c][k] = r[k]
        BY <1>7, <3>1
      <4> QED
        BY <1>6, <3>1, <4>1
    <3>2. CASE c # b
      BY <1>7, <3>2
    <3> QED
      BY <3>1, <3>2
  <2> QED
    BY <2>1 DEF Owning, OnlyIds
<1> QED
  BY <1>2, <1>4, <1>5, <1>7, <1>8, <1>9, <1>10

(* An id that is given back lies in its block again, once.                 *)
LEMMA Giving ==
    ASSUME Owning, NEW id \in Ids, NEW time \in 0..MaxTime, Free(id, time)
    PROVE  /\ id \in held /\ held' = held \ {id}
           /\ free' \in [Blocks -> Seq(Offsets)]
           /\ stamp' \in [Blocks -> 0..MaxTime]
           /\ EachIdOnce' /\ OnlyIds'
           /\ \A y \in Ids : IsFree(y)' <=> IsFree(y) \/ y = id
<1> DEFINE b == BlockOf(id)
           o == OffsetOf(id)
           s == free[b]
<1>1. b \in Blocks /\ o \in Offsets /\ Value(b, o) = id
  BY Place
<1>2. s \in Seq(Offsets)
  BY <1>1 DEF Owning, TypeOK
<1>3. id \in held /\ held' = held \ {id} /\ free' = [free EXCEPT ![b] = Append(s, o)]
      /\ stamp' = [stamp EXCEPT ![b] = time]
  BY DEF Free
<1>4. \A k \in DOMAIN s : s[k] # o
  BY <1>1, <1>3 DEF Owning, EachIdOnce, IsFree
<1> HIDE DEF b, o
<1>5. /\ Append(s, o) \in Seq(Offsets)
      /\ DOMAIN Append(s, o) = 1 .. Len(s) + 1
      /\ DOMAIN s = 1 .. Len(s) /\ Len(s) \in Nat
      /\ \A k \in DOMAIN s : Append(s, o)[k] = s[k]
      /\ Append(s, o)[Len(s) + 1] = o
  BY <1>1, <1>2
<1>6. free' \in [Blocks -> Seq(Offsets)] /\ free'[b] = Append(s, o)
      /\ \A c \in Blocks : c # b => free'[c] = free[c]
  BY <1>1, <1>3, <1>5 DEF Owning, TypeOK
<1>7. ASSUME NEW y \in Ids
      PROVE  IsFree(y)' <=> IsFree(y) \/ y = id
  <2>1. BlockOf(y) \in Blocks /\ Value(BlockOf(y), OffsetOf(y)) = y
    BY Place
  <2>2. CASE BlockOf(y) # b
    BY <1>6, <2>1, <2>2 DEF IsFree, b
  <2>3. CASE BlockOf(y) = b
    <3>1. IsFree(y) <=> \E k \in DOMAIN s : s[k] = OffsetOf(y)
      BY <2>3 DEF IsFree
    <3>2. IsFree(y)' <=> \E k \in DOMAIN Append(s, o) : Append(s, o)[k] = OffsetOf(y)
      BY <1>6, <2>3 DEF IsFree
    <3>3. y = id <=> OffsetOf(y) = o
      BY <1>1, <2>1, <2>3 DEF o
    <3>4. (\E k \in DOMAIN Append(s, o) : Append(s, o)[k] = OffsetOf(y))
             <=> (\E k \in DOMAIN s : s[k] = OffsetOf(y)) \/ OffsetOf(y) = o
      <4> DEFINE a == Append(s, o)
      <4>1. \A k \in DOMAIN a : k \in DOMAIN s \/ k = Len(s) + 1
        BY <1>5
      <4>2. Len(s) + 1 \in DOMAIN a /\ DOMAIN s \subseteq DOMAIN a
        BY <1>5
      <4> HIDE DEF a
      <4> QED
        BY <1>5, <4>1, <4>2 DEF a
    <3> QED
      BY <3>1, <3>2, <3>3, <3>4
  <2> QED
    BY <2>2, <2>3
<1>8. EachIdOnce'
  <2>1. \A y \in Ids : IsFree(y)' <=> y \notin held'
    BY <1>3, <1>7 DEF Owning, EachIdOnce
  <2>2. \A j, k \in DOMAIN free'[b] : free'[b][j] = free'[b][k] => j = k
    <3>1. \A j, k \in DOMAIN s : s[j] = s[k] => j = k
      BY <1>1 DEF Owning, EachIdOnce
    <3> QED
      BY <3>1, <1>4, <1>5, <1>6
  <2>3. \A c \in Blocks : \A j, k \in DOMAIN free'[c] : free'[c][j] = free'[c][k] => j = k
    BY <1>6, <2>2 DEF Owning, EachIdOnce
  <2> QED
    BY <2>1, <2>3 DEF EachIdOnce, IsFree
<1>9. OnlyIds'
  <2> SUFFICES ASSUME NEW c \in Blocks, NEW k \in DOMAIN free'[c]
               PROVE  Value(c, free'[c][k]) \in Ids
    BY DEF OnlyIds, Value
  <2>1. CASE c # b
    BY <1>6, <2>1 DEF Owning, OnlyIds
  <2>2. CASE c = b
    <3>1. free'[c][k] = o \/ (k \in DOMAIN s /\ free'[c][k] = s[k])
      BY <1>5, <1>6, <2>2
    <3> QED
      BY <1>1, <2>2, <3>1 DEF Owning, OnlyIds
  <2> QED
    BY <2>1, <2>2
<1>10. stamp' \in [Blocks -> 0..MaxTime]
  BY <1>1, <1>3 DEF Owning, TypeOK
<1> QED
  BY <1>3, <1>6, <1>7, <1>8, <1>9, <1>10

(* The oldest block has a free id as long as any has.                      *)
LEMMA OldestHasOne ==
    ASSUME Owning, AvailableCounts, NEW b \in Blocks, Fresh(b)
    PROVE  /\ Len(free[b]) \in DOMAIN free[b]
           /\ GetFromBlock(b, Len(free[b]))
           /\ \A c \in Blocks : free[c] # <<>> => stamp[b] <= stamp[c]
<1>1. free \in [Blocks -> Seq(Offsets)] /\ stamp \in [Blocks -> 0..MaxTime]
  BY DEF Owning, TypeOK
<1>2. NonEmpty # {}
  <2>1. SUFFICES ASSUME NonEmpty = {} PROVE FALSE
    OBVIOUS
  <2>2. available = 0
    BY <2>1, FS_EmptySet DEF AvailableCounts, NonEmpty
  <2> QED
    BY <2>2 DEF Fresh
<1>3. PICK c \in Blocks : free[c] # <<>>
  BY <1>2 DEF NonEmpty
<1>4. free[b] # <<>>
  BY <1>3 DEF Fresh, Oldest, Older
<1>5. Len(free[b]) \in DOMAIN free[b]
  BY <1>1, <1>4
<1>6. \A d \in Blocks : free[d] # <<>> => stamp[b] <= stamp[d]
  BY <1>1, GeneratorAssumption DEF Fresh, Oldest, Older
<1> QED
  BY <1>5, <1>6 DEF Fresh
-----------------------------------------------------------------------------
LEMMA OwningInit == Init => Owning
<1> SUFFICES ASSUME Init PROVE Owning
  OBVIOUS
<1> USE GeneratorAssumption
<1>1. \A b \in Blocks : b \in Nat /\ b * BlockSize <= MaxValue
  <2>1. \A m, s : m \in Nat /\ s \in Nat \ {0} => m \div s \in Nat /\ (m \div s) * s <= m
    OBVIOUS
  <2>2. \A j, k, s : j \in Nat /\ k \in Nat /\ s \in Nat /\ j <= k => j * s <= k * s
    OBVIOUS
  <2> QED
    BY <2>1, <2>2 DEF Blocks
<1>2. \A b \in Blocks : Size(b) \in Nat /\ Size(b) <= BlockSize /\ b * BlockSize \in Nat
                      /\ b * BlockSize + Size(b) <= MaxValue + 1
  <2> SUFFICES ASSUME NEW b \in Blocks
               PROVE  Size(b) \in Nat /\ Size(b) <= BlockSize /\ b * BlockSize \in Nat
                      /\ b * BlockSize + Size(b) <= MaxValue + 1
    OBVIOUS
  <2>1. b * BlockSize \in Nat /\ (b + 1) * BlockSize = b * BlockSize + BlockSize
    BY <1>1
  <2> QED
    BY <1>1, <2>1 DEF Size
<1>3. \A b \in Blocks : DOMAIN free[b] = 1..Size(b) /\ \A k \in 1..Size(b) : free[b][k] = Size(b) - k
  BY DEF Init
<1>4. free \in [Blocks -> Seq(Offsets)]
  <2>1. \A b \in Blocks : [k \in 1..Size(b) |-> Size(b) - k] \in Seq(Offsets)
    BY <1>2 DEF Offsets
  <2> QED
    BY <2>1 DEF Init
<1>5. \A b \in Blocks : \A m, n \in DOMAIN free[b] : free[b][m] = free[b][n] => m = n
  <2> TAKE b \in Blocks
  <2>1. Size(b) \in Nat /\ DOMAIN free[b] = 1..Size(b)
    BY <1>2, <1>3
  <2> QED
    BY <1>3, <2>1
<1>6. ASSUME NEW id \in Ids
      PROVE  IsFree(id)
  <2> DEFINE b == BlockOf(id)
             o == OffsetOf(id)
  <2>1. b \in Blocks /\ o \in Offsets /\ o + b * BlockSize = id
    BY Place DEF Value
  <2>2. o \in Nat /\ o < Size(b)
    BY <1>1, <2>1 DEF Size, Offsets, Ids
  <2>3. Size(b) - o \in 1..Size(b) /\ Size(b) - (Size(b) - o) = o
    BY <1>2, <2>1, <2>2
  <2> QED
    BY <1>3, <2>1, <2>3 DEF IsFree
<1>7. OnlyIds
  <2> SUFFICES ASSUME NEW b \in Blocks, NEW k \in 1..Size(b)
               PROVE  (Size(b) - k) + b * BlockSize \in Ids
    BY <1>3 DEF OnlyIds, Value
  <2> QED
    BY <1>2 DEF Ids
<1>8. TypeOK
  <2>1. MaxValue \div BlockSize + 1 \in Nat
    OBVIOUS
  <2> QED
    BY <1>4, <2>1 DEF Init, TypeOK
<1> QED
  BY <1>5, <1>6, <1>7, <1>8 DEF Owning, EachIdOnce, Init

LEMMA BlocksFinite ==
    /\ IsFiniteSet(Blocks)
    /\ Cardinality(Blocks) = MaxValue \div BlockSize + 1
<1>1. MaxValue \div BlockSize \in Nat
  BY GeneratorAssumption
<1>2. 0 \in Int /\ MaxValue \div BlockSize \in Int
  BY <1>1
<1> QED
  BY <1>1, <1>2, FS_Interval DEF Blocks

LEMMA CountInit == Init => AvailableCounts
<1> SUFFICES ASSUME Init PROVE AvailableCounts
  OBVIOUS
<1>1. ASSUME NEW b \in Blocks
      PROVE  free[b] # <<>>
  <2>1. \A m, s : m \in Nat /\ s \in Nat \ {0} => m \div s \in Nat /\ (m \div s) * s <= m
    OBVIOUS
  <2>2. \A j, k, s : j \in Nat /\ k \in Nat /\ s \in Nat /\ j <= k => j * s <= k * s
    OBVIOUS
  <2>3. b \in Nat /\ b * BlockSize <= MaxValue /\ b * BlockSize \in Nat
    BY <2>1, <2>2, GeneratorAssumption DEF Blocks
  <2>4. Size(b) \in Nat \ {0}
    BY <2>3, GeneratorAssumption DEF Size
  <2> QED
    BY <2>4 DEF Init
<1>2. {b \in Blocks : free[b] # <<>>} = Blocks
  BY <1>1
<1> QED
  BY <1>2, BlocksFinite DEF AvailableCounts, Init

LEMMA CountTaking ==
    ASSUME Owning, AvailableCounts, NEW b \in Blocks, NEW n \in DOMAIN free[b],
           GetFromBlock(b, n)
    PROVE  AvailableCounts' /\ available' \in Nat
<1> DEFINE r == Removed(free[b], n)
<1>1. free[b] \in Seq(Offsets) /\ free[b] # <<>> /\ Len(free[b]) \in Nat \ {0}
  BY DEF Owning, TypeOK
<1>2. r \in Seq(Offsets) /\ Len(r) = Len(free[b]) - 1
  <2> HIDE DEF r
  <2>1. \A j, k \in DOMAIN free[b] : free[b][j] = free[b][k] => j = k
    BY DEF Owning, EachIdOnce
  <2> QED
    BY <1>1, <2>1, RemovedOne DEF r
<1> HIDE DEF r
<1>3. r = <<>> <=> Len(free[b]) = 1
  <2>1. r = <<>> <=> Len(r) = 0
    BY <1>2, EmptySeq
  <2> QED
    BY <1>1, <1>2, <2>1
<1>4. free'[b] = r /\ \A c \in Blocks : c # b => free'[c] = free[c]
  BY DEF GetFromBlock, Owning, TypeOK, r
<1>5. NonEmpty' = IF Len(free[b]) = 1 THEN NonEmpty \ {b} ELSE NonEmpty
  BY <1>1, <1>3, <1>4 DEF NonEmpty
<1>6. IsFiniteSet(NonEmpty) /\ b \in NonEmpty
  BY <1>1, BlocksFinite, FS_Subset DEF NonEmpty
<1>7. Cardinality(NonEmpty \ {b}) = Cardinality(NonEmpty) - 1 /\ Cardinality(NonEmpty \ {b}) \in Nat
  BY <1>6, FS_RemoveElement, FS_CardinalityType
<1>8. available = Cardinality(NonEmpty) /\ available \in Nat
  BY DEF AvailableCounts, NonEmpty, Owning, TypeOK
<1>9. available' = IF Len(free[b]) = 1 THEN available - 1 ELSE available
  BY DEF GetFromBlock
<1>10. available' = Cardinality(NonEmpty') /\ available' \in Nat
  BY <1>5, <1>7, <1>8, <1>9
<1> QED
  BY <1>10 DEF AvailableCounts, NonEmpty

LEMMA CountGiving ==
    ASSUME Owning, AvailableCounts, NEW id \in Ids, NEW time, Free(id, time)
    PROVE  AvailableCounts' /\ available' \in Nat
<1> DEFINE b == BlockOf(id)
<1>1. b \in Blocks /\ OffsetOf(id) \in Offsets
  BY Place
<1>2. free[b] \in Seq(Offsets)
  BY <1>1 DEF Owning, TypeOK
<1> HIDE DEF b
<1>3. free'[b] # <<>> /\ \A c \in Blocks : c # b => free'[c] = free[c]
  BY <1>1, <1>2 DEF Free, Owning, TypeOK, b
<1>4. NonEmpty' = NonEmpty \cup {b}
  BY <1>1, <1>3 DEF NonEmpty
<1>5. IsFiniteSet(NonEmpty) /\ (b \in NonEmpty <=> free[b] # <<>>)
  BY <1>1, BlocksFinite, FS_Subset DEF NonEmpty
<1>6. Cardinality(NonEmpty \cup {b}) = IF b \in NonEmpty THEN Cardinality(NonEmpty)
                                       ELSE Cardinality(NonEmpty) + 1
  BY <1>5, FS_AddElement
<1>7. available = Cardinality(NonEmpty) /\ available \in Nat
  BY DEF AvailableCounts, NonEmpty, Owning, TypeOK
<1>8. available' = IF free[b] = <<>> THEN available + 1 ELSE available
  BY DEF Free, Counted, b
<1>9. available' = Cardinality(NonEmpty') /\ available' \in Nat
  BY <1>4, <1>5, <1>6, <1>7, <1>8
<1> QED
  BY <1>9 DEF AvailableCounts, NonEmpty
-----------------------------------------------------------------------------
(* The inductive invariant, and what a step that hands out an id does.     *)
Inv == Owning /\ AvailableCounts

LEMMA TakingKeeps ==
    ASSUME Inv, NEW b \in Blocks, NEW n \in DOMAIN free[b], GetFromBlock(b, n),
           stamp' \in [Blocks -> 0..MaxTime]
    PROVE  Inv'
<1>1. /\ Value(b, free[b][n]) \in Ids
      /\ held' = held \cup {Value(b, free[b][n])}
      /\ free' \in [Blocks -> Seq(Offsets)]
      /\ EachIdOnce' /\ OnlyIds'
  BY Taking DEF Inv
<1>2. AvailableCounts' /\ available' \in Nat
  BY CountTaking DEF Inv
<1>3. clock' = clock /\ hurried' = hurried /\ ahead' = [x \in Ids |-> ahead[x] \ {Value(b, free[b][n])}]
  BY DEF GetFromBlock
<1>4. ahead' \in [Ids -> SUBSET Ids]
  BY <1>3 DEF Inv, Owning, TypeOK
<1> QED
  BY <1>1, <1>2, <1>3, <1>4 DEF Inv, Owning, TypeOK

LEMMA GivingKeeps ==
    ASSUME Inv, NEW id \in Ids, NEW time \in 0..MaxTime, Free(id, time), hurried' \subseteq Blocks
    PROVE  Inv'
<1>1. /\ held' = held \ {id}
      /\ free' \in [Blocks -> Seq(Offsets)]
      /\ stamp' \in [Blocks -> 0..MaxTime]
      /\ EachIdOnce' /\ OnlyIds'
  BY Giving DEF Inv
<1>2. AvailableCounts' /\ available' \in Nat
  BY CountGiving DEF Inv
<1>3. clock' = clock /\ ahead' \in [Ids -> SUBSET Ids]
  BY DEF Free, Inv, Owning, TypeOK
<1> QED
  BY <1>1, <1>2, <1>3 DEF Inv, Owning, TypeOK

(* A new id is the top of the oldest block, and nothing free is older.     *)
LEMMA FreshTakes ==
    ASSUME Inv, NEW b \in Blocks, Fresh(b)
    PROVE  \E n \in DOMAIN free[b] : GetFromBlock(b, n)
BY OldestHasOne DEF Inv

LEMMA InvStep == Inv /\ [Next]_vars => Inv'
<1> SUFFICES ASSUME Inv, [Next]_vars PROVE Inv'
  OBVIOUS
<1>1. /\ stamp \in [Blocks -> 0..MaxTime] /\ clock \in 0..MaxTime /\ 0 \in 0..MaxTime
      /\ hurried \subseteq Blocks
  BY GeneratorAssumption DEF Inv, Owning, TypeOK
<1>2. ASSUME NEW b \in Blocks, GetFresh(b)
      PROVE  Inv'
  <2>1. PICK n \in DOMAIN free[b] : GetFromBlock(b, n)
    BY <1>2, FreshTakes DEF GetFresh
  <2>2. stamp' = stamp
    BY <1>2 DEF GetFresh
  <2> QED
    BY <1>1, <2>1, <2>2, TakingKeeps
<1>3. ASSUME NEW b \in Blocks, SpawnIntoOnline(b)
      PROVE  Inv'
  <2>1. PICK n \in DOMAIN free[b] : GetFromBlock(b, n)
    BY <1>3, FreshTakes DEF SpawnIntoOnline
  <2>2. stamp' \in [Blocks -> 0..MaxTime]
    BY <1>1, <1>3 DEF SpawnIntoOnline
  <2> QED
    BY <2>1, <2>2, TakingKeeps
<1>4. ASSUME NEW id \in Ids, GetGiven(id)
      PROVE  Inv'
  <2>1. BlockOf(id) \in Blocks
    BY Place
  <2>2. PICK n \in DOMAIN free[BlockOf(id)] : GetFromBlock(BlockOf(id), n)
    BY <1>4 DEF GetGiven
  <2>3. stamp' = stamp
    BY <1>4 DEF GetGiven
  <2> QED
    BY <1>1, <2>1, <2>2, <2>3, TakingKeeps
<1>5. ASSUME NEW id \in Ids, FreeObject(id)
      PROVE  Inv'
  <2>1. hurried' \subseteq Blocks
    BY <1>1, <1>5 DEF FreeObject
  <2> QED
    BY <1>1, <1>5, <2>1, GivingKeeps DEF FreeObject
<1>6. ASSUME NEW id \in Ids, FreeMarker(id)
      PROVE  Inv'
  <2>1. hurried' \subseteq Blocks
    BY <1>1, <1>6, Place DEF FreeMarker
  <2> QED
    BY <1>1, <1>6, <2>1, GivingKeeps DEF FreeMarker
<1>7. CASE Tick
  BY <1>1, <1>7, GeneratorAssumption
     DEF Tick, Inv, Owning, TypeOK, EachIdOnce, OnlyIds, IsFree, AvailableCounts
<1>8. CASE UNCHANGED vars
  BY <1>8 DEF vars, Inv, Owning, TypeOK, EachIdOnce, OnlyIds, IsFree, AvailableCounts
<1> QED
  BY <1>2, <1>3, <1>4, <1>5, <1>6, <1>7, <1>8 DEF Next

LEMMA Invariance == Spec => []Inv
<1>1. Init => Inv
  BY OwningInit, CountInit DEF Inv
<1> QED
  BY <1>1, InvStep, PTL DEF Spec

(* The variables of the generator keep their types.                        *)
THEOREM TypeCorrect == Spec => []TypeOK
<1>1. Inv => TypeOK
  BY DEF Inv, Owning
<1> QED
  BY <1>1, Invariance, PTL

(* The generator has exactly the ids that nobody holds, each once.         *)
THEOREM IdsOnce == Spec => []EachIdOnce
<1>1. Inv => EachIdOnce
  BY DEF Inv, Owning
<1> QED
  BY <1>1, Invariance, PTL

(* m_available_count is the number of blocks with a free id.               *)
THEOREM CountKept == Spec => []AvailableCounts
<1>1. Inv => AvailableCounts
  BY DEF Inv
<1> QED
  BY <1>1, Invariance, PTL

(* The generator implements IdPool: no id is ever in two hands.            *)
THEOREM Implementation == Spec => PoolImplemented
<1>1. Inv => Left = Ids \ held /\ held \subseteq Ids
  BY DEF Inv, Owning, EachIdOnce, TypeOK, Left
<1>2. Init => Pool!Init
  BY <1>1, OwningInit, CountInit DEF Init, Inv, Pool!Init
<1>3. Inv /\ Inv' /\ [Next]_vars => [Pool!Next]_(Pool!vars)
  <2> SUFFICES ASSUME Inv, Inv', [Next]_vars PROVE [Pool!Next]_(Pool!vars)
    OBVIOUS
  <2>0. Left = Ids \ held /\ Left' = Ids \ held' /\ held \subseteq Ids
    BY <1>1 DEF Left, IsFree, Inv, Owning, EachIdOnce
  <2>1. ASSUME NEW b \in Blocks, NEW n \in DOMAIN free[b], GetFromBlock(b, n)
        PROVE  Pool!Next
    <3>1. Value(b, free[b][n]) \in Ids \ held /\ held' = held \cup {Value(b, free[b][n])}
      BY <2>1, Taking DEF Inv
    <3> QED
      BY <2>0, <3>1 DEF Pool!Next, Pool!Take
  <2>2. ASSUME NEW b \in Blocks, Fresh(b)
        PROVE  Pool!Next
    BY <2>1, <2>2, FreshTakes
  <2>3. ASSUME NEW id \in Ids, GetGiven(id)
        PROVE  Pool!Next
    BY <2>1, <2>3, Place DEF GetGiven
  <2>4. ASSUME NEW id \in Ids, NEW time, Free(id, time)
        PROVE  Pool!Next
    <3>1. id \in held /\ held' = held \ {id}
      BY <2>4 DEF Free
    <3> QED
      BY <2>0, <3>1 DEF Pool!Next, Pool!Give
  <2>5. Tick \/ UNCHANGED vars => UNCHANGED Pool!vars
    BY DEF Tick, vars, Pool!vars, Left, IsFree
  <2> QED
    BY <2>2, <2>3, <2>4, <2>5 DEF Next, GetFresh, SpawnIntoOnline, FreeObject, FreeMarker
<1> QED
  BY <1>2, <1>3, Invariance, PTL DEF Spec, Pool!Spec, PoolImplemented
-----------------------------------------------------------------------------
(* Resting.  A block gets older only when it already is the oldest.        *)
LEMMA RestedTaking ==
    ASSUME Inv, Rested, NEW b \in Blocks, NEW n \in DOMAIN free[b], GetFromBlock(b, n),
           \/ stamp' = stamp
           \/ Fresh(b) /\ stamp' = [stamp EXCEPT ![b] = 0]
    PROVE  Rested'
<1> DEFINE id == Value(b, free[b][n])
<1>1. /\ id \in Ids \ held /\ held' = held \cup {id}
      /\ \A y \in Ids : IsFree(y)' <=> IsFree(y) /\ y # id
  BY Taking DEF Inv
<1>2. clock' = clock /\ hurried' = hurried /\ ahead' = [x \in Ids |-> ahead[x] \ {id}]
  BY DEF GetFromBlock
<1>3. stamp \in [Blocks -> 0..MaxTime] /\ ahead \in [Ids -> SUBSET Ids] /\ clock \in 0..MaxTime
  BY DEF Inv, Owning, TypeOK
<1>4. \A c \in Blocks : stamp'[c] <= stamp[c] /\ (stamp'[c] # stamp[c] => c = b)
  BY <1>3
<1>5. \A c \in Blocks : stamp'[c] <= clock'
  BY <1>2, <1>3, <1>4, GeneratorAssumption DEF Rested
<1> HIDE DEF id
<1>6. ASSUME NEW x \in Ids \ held', NEW y \in ahead'[x]
      PROVE  /\ IsFree(y)'
             /\ stamp'[BlockOf(y)] < clock'
             /\ BlockOf(x) \notin hurried' => stamp'[BlockOf(y)] < stamp'[BlockOf(x)]
  <2>1. x \in Ids \ held /\ y \in ahead[x] /\ y # id /\ y \in Ids
    BY <1>1, <1>2, <1>3, <1>6
  <2>2. /\ IsFree(y) /\ stamp[BlockOf(y)] < clock
        /\ BlockOf(x) \notin hurried => stamp[BlockOf(y)] < stamp[BlockOf(x)]
    BY <2>1 DEF Rested
  <2>3. BlockOf(x) \in Blocks /\ BlockOf(y) \in Blocks
    BY <2>1, Place
  <2>4. ASSUME BlockOf(x) \notin hurried
        PROVE  stamp'[BlockOf(x)] = stamp[BlockOf(x)]
    <3>1. SUFFICES ASSUME stamp'[BlockOf(x)] # stamp[BlockOf(x)] PROVE FALSE
      OBVIOUS
    <3>2. BlockOf(x) = b /\ Fresh(b)
      BY <1>4, <2>3, <3>1
    <3>3. free[BlockOf(y)] # <<>>
      BY <2>2 DEF IsFree
    <3>4. stamp[b] <= stamp[BlockOf(y)]
      BY <2>3, <3>2, <3>3, OldestHasOne DEF Inv
    <3> QED
      BY <1>3, <2>2, <2>3, <2>4, <3>2, <3>4
  <2>5. IsFree(y)'
    BY <1>1, <2>1, <2>2
  <2>6. stamp'[BlockOf(y)] <= stamp[BlockOf(y)] /\ stamp[BlockOf(y)] \in Int /\ stamp'[BlockOf(y)] \in Int
    BY <1>3, <1>4, <2>3, GeneratorAssumption
  <2>7. stamp[BlockOf(x)] \in Int /\ clock \in Int
    BY <1>3, <2>3
  <2> QED
    BY <1>2, <2>2, <2>4, <2>5, <2>6, <2>7
<1> QED
  BY <1>5, <1>6 DEF Rested, IsFree

LEMMA RestedGiving ==
    ASSUME Inv, Rested, NEW id \in Ids, NEW time \in 0..MaxTime, Free(id, time),
           \/ time = clock /\ hurried' = hurried \ {BlockOf(id)}
           \/ time = 0 /\ hurried' = hurried \cup {BlockOf(id)}
    PROVE  Rested'
<1> DEFINE b == BlockOf(id)
<1>1. stamp \in [Blocks -> 0..MaxTime] /\ ahead \in [Ids -> SUBSET Ids] /\ clock \in 0..MaxTime
      /\ b \in Blocks
  BY Place DEF Inv, Owning, TypeOK
<1>2. /\ held' = held \ {id}
      /\ \A y \in Ids : IsFree(y)' <=> IsFree(y) \/ y = id
  BY <1>1, Giving DEF Inv
<1>3. clock' = clock /\ stamp' = [stamp EXCEPT ![b] = time]
      /\ ahead' = [x \in Ids |->
                     IF x = id
                     THEN {y \in Ids : IsFree(y) /\ BlockOf(y) # b /\ stamp[BlockOf(y)] < clock}
                     ELSE {y \in ahead[x] : BlockOf(y) # b}]
  BY DEF Free
<1>4. /\ \A c \in Blocks : c # b => stamp'[c] = stamp[c]
      /\ stamp'[b] = time
      /\ b \notin hurried' => time = clock
      /\ \A c \in Blocks : c # b => (c \in hurried' <=> c \in hurried)
  BY <1>1, <1>3
<1> HIDE DEF b
<1>5. \A c \in Blocks : stamp'[c] <= clock'
  <2>1. time <= clock
    BY <1>1, GeneratorAssumption
  <2> QED
    BY <1>1, <1>3, <1>4, <2>1 DEF Rested
<1>6. ASSUME NEW x \in Ids \ held', NEW y \in ahead'[x]
      PROVE  /\ IsFree(y)'
             /\ stamp'[BlockOf(y)] < clock'
             /\ BlockOf(x) \notin hurried' => stamp'[BlockOf(y)] < stamp'[BlockOf(x)]
  <2>1. /\ y \in Ids /\ IsFree(y) /\ BlockOf(y) # b /\ stamp[BlockOf(y)] < clock
        /\ x # id => x \in Ids \ held /\ y \in ahead[x]
    <3>1. CASE x = id
      BY <1>3, <1>6, <3>1
    <3>2. CASE x # id
      <4>1. y \in ahead[x] /\ BlockOf(y) # b /\ x \in Ids \ held /\ y \in Ids
        BY <1>1, <1>2, <1>3, <1>6, <3>2
      <4> QED
        BY <3>2, <4>1 DEF Rested
    <3> QED
      BY <3>1, <3>2
  <2>2. BlockOf(y) \in Blocks /\ BlockOf(x) \in Blocks
    BY <2>1, Place
  <2>3. IsFree(y)' /\ stamp'[BlockOf(y)] = stamp[BlockOf(y)]
    BY <1>2, <1>4, <2>1, <2>2
  <2>4. ASSUME BlockOf(x) \notin hurried'
        PROVE  stamp'[BlockOf(y)] < stamp'[BlockOf(x)]
    <3>1. CASE BlockOf(x) = b
      BY <1>4, <2>1, <2>3, <2>4, <3>1
    <3>2. CASE BlockOf(x) # b
      <4>1. x # id /\ BlockOf(x) \notin hurried
        BY <1>4, <2>2, <2>4, <3>2 DEF b
      <4>2. stamp[BlockOf(y)] < stamp[BlockOf(x)]
        BY <2>1, <4>1 DEF Rested
      <4> QED
        BY <1>4, <2>2, <2>3, <3>2, <4>2
    <3> QED
      BY <3>1, <3>2
  <2> QED
    BY <1>3, <2>1, <2>3, <2>4
<1> QED
  BY <1>5, <1>6 DEF Rested, IsFree

LEMMA RestedStep == Inv /\ Rested /\ [Next]_vars => Rested'
<1> SUFFICES ASSUME Inv, Rested, [Next]_vars PROVE Rested'
  OBVIOUS
<1>1. ASSUME NEW b \in Blocks, Fresh(b),
             stamp' = stamp \/ stamp' = [stamp EXCEPT ![b] = 0]
      PROVE  Rested'
  BY <1>1, FreshTakes, RestedTaking
<1>2. ASSUME NEW id \in Ids, GetGiven(id)
      PROVE  Rested'
  BY <1>2, Place, RestedTaking DEF GetGiven
<1>3. stamp \in [Blocks -> 0..MaxTime] /\ clock \in 0..MaxTime /\ 0 \in 0..MaxTime
  BY GeneratorAssumption DEF Inv, Owning, TypeOK
<1>4. ASSUME NEW id \in Ids, FreeObject(id) \/ FreeMarker(id)
      PROVE  Rested'
  BY <1>3, <1>4, RestedGiving DEF FreeObject, FreeMarker
<1>5. CASE Tick
  <2>1. ASSUME NEW x \in Ids \ held, NEW y \in ahead[x]
        PROVE  stamp[BlockOf(y)] \in Int /\ stamp[BlockOf(y)] < clock
    <3>1. y \in Ids
      BY <2>1 DEF Inv, Owning, TypeOK
    <3> QED
      BY <1>3, <2>1, <3>1, Place DEF Rested
  <2> QED
    BY <1>3, <1>5, <2>1 DEF Tick, Rested, IsFree
<1>6. CASE UNCHANGED vars
  BY <1>6 DEF vars, Rested, IsFree
<1> QED
  BY <1>1, <1>2, <1>4, <1>5, <1>6 DEF Next, GetFresh, SpawnIntoOnline

(* A new id is one that rested longest: unless its block got the id of a   *)
(* user marker last, whatever was free for longer has gone or got younger. *)
THEOREM LongestRest == Spec => RestsLongest
<1>1. Init => Rested
  <2> SUFFICES ASSUME Init PROVE Rested
    OBVIOUS
  <2> QED
    BY DEF Init, Rested
<1>2. Inv /\ Rested /\ [Next]_vars => Rested'
  BY RestedStep
<1>3. Inv /\ Rested /\ [Next]_vars
         => [\A b \in Blocks \ hurried, x \in Ids :
                Fresh(b) /\ x \in held' \ held => ahead[x] = {}]_vars
  <2> SUFFICES ASSUME Inv, Rested, NEW b \in Blocks \ hurried, NEW x \in Ids,
                      Fresh(b), x \in held' \ held, NEW y \in ahead[x]
               PROVE  FALSE
    OBVIOUS
  <2>1. /\ Len(free[b]) \in DOMAIN free[b]
        /\ GetFromBlock(b, Len(free[b]))
        /\ \A c \in Blocks : free[c] # <<>> => stamp[b] <= stamp[c]
    BY OldestHasOne DEF Inv
  <2>2. x = Value(b, free[b][Len(free[b])])
    BY <2>1 DEF GetFromBlock
  <2>3. BlockOf(x) = b
    BY <2>1, <2>2, PlaceOfValue DEF Inv, Owning, TypeOK
  <2>4. IsFree(y) /\ stamp[BlockOf(y)] < stamp[b]
    BY <2>3 DEF Rested
  <2>5. BlockOf(y) \in Blocks /\ free[BlockOf(y)] # <<>>
    BY <2>4, Place DEF Inv, Owning, TypeOK, IsFree
  <2>6. stamp \in [Blocks -> 0..MaxTime]
    BY DEF Inv, Owning, TypeOK
  <2> QED
    BY <2>1, <2>4, <2>5, <2>6
<1> QED
  BY <1>1, <1>2, <1>3, Invariance, PTL DEF Spec, RestsLongest
=============================================================================
