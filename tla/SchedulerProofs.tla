---------------------------- MODULE SchedulerProofs ---------------------------
(***************************************************************************)
(* That the scheduler's queues, heap and loop are, for any objects, kinds  *)
(* and periods, one set of registered objects, and each of them in one     *)
(* place.                                                                  *)
(*                                                                         *)
(* The invariant says of the pending registrations what internal_-         *)
(* Registration relies on: those of one object alternate (Alternate), they *)
(* begin with its removal if it is in the loop (GoneFirst), and there is   *)
(* none for what Unregister can take out of a container at once            *)
(* (NothingPending).  NotYet is for the refinement: what is still to come  *)
(* in this frame was not updated in it.  Counted is about the numbers that *)
(* CSheduler::Registered adds up.                                          *)
(***************************************************************************)
EXTENDS Scheduler, FiniteSetTheorems, WellFoundedInduction, TLAPS

(* The kinds are kept apart: what waits in the heap is not updated every   *)
(* frame, and an object is NULL in the heap only.                          *)
KindsApart ==
    /\ \A k \in DOMAIN items : items[k].obj \notin realTime
    /\ \A k \in DOMAIN processed : processed[k].obj \in Objs \ realTime
    /\ pc = "normal" => current \notin realTime

(* What is in a container is there once.                                   *)
Once(seq) == \A m, n \in DOMAIN seq : seq[m] = seq[n] => m = n

OnceByObj(seq) ==
    \A m, n \in DOMAIN seq : seq[m].obj = seq[n].obj /\ seq[m].obj # None => m = n

OneContainer ==
    /\ Once(itemsRT) /\ OnceByObj(items) /\ OnceByObj(processed)
    /\ \A o \in Objs : ~(HasObj(items, o) /\ HasObj(processed, o))
    /\ pc = "normal" /\ current # None => ~HasObj(items, current) /\ ~HasObj(processed, current)

(* Where Update stands.                                                    *)
Phases ==
    /\ current # None => pc \in {"realtime", "normal"}
    /\ pc \in {"idle", "realtime"} => processed = <<>>

Asked(ops, o) == \E k \in DOMAIN ops : ops[k].obj = o

(* An object is registered again only after it was unregistered.           *)
Alternate(ops) ==
    \A k, n \in DOMAIN ops :
        k < n /\ ops[k].reg /\ ops[n].reg /\ ops[k].obj = ops[n].obj =>
            \E m \in k + 1 .. n - 1 : ~ops[m].reg /\ ops[m].obj = ops[k].obj

(* What is asked for an object in the loop begins with its removal, and as *)
(* long as the owners can ask, an object in the containers they can take   *)
(* it from has nothing pending.                                            *)
GoneFirst == \A o \in Objs : InLoop(o) /\ Asked(pending, o) => o \in Gone(pending)

NothingPending ==
    pc \in {"realtime", "normal"} =>
        \A o \in Objs : Contains(itemsRT, o) \/ HasObj(items, o) => ~Asked(pending, o)

(* What is still to be updated in this frame was not updated in it.        *)
NotYet ==
    /\ pc = "realtime" =>
           \A k \in DOMAIN itemsRT :
               k >= (IF current = None THEN it ELSE it + 1) => itemsRT[k] \notin updated
    /\ pc \in {"realtime", "normal"} =>
           \A k \in DOMAIN items : items[k].obj \notin updated

IInv ==
    /\ TypeOK /\ KindsApart /\ OneContainer /\ Phases
    /\ Alternate(pending) /\ GoneFirst /\ NothingPending /\ NotYet
    /\ Effective = owned \ dropped

-----------------------------------------------------------------------------
(* What Kept returns.  The induction over the length of the sequence is by *)
(* the least number for which the claim fails, since a set of such numbers *)
(* is what the library's theorem about minimal elements speaks of.         *)

(* The order of the natural numbers.                                         *)
Less == {p \in Nat \X Nat : p[1] < p[2]}

(* A set of natural numbers that is not empty has a least member.            *)
LEMMA Least ==
  ASSUME NEW T \in SUBSET Nat, T # {}
  PROVE  \E n \in T : \A m \in T : n <= m
<1>1. IsWellFoundedOn(Less, Nat)
  BY NatLessThanWellFounded DEF Less, OpToRel
<1>2. PICK x \in T : \A y \in T : ~ (<<y, x>> \in Less)
  BY <1>1, WFMin
<1>3. ASSUME NEW y \in T PROVE x <= y
  <2>1. <<y, x>> \notin Less
    BY <1>2
  <2>2. y \in Nat /\ x \in Nat
    OBVIOUS
  <2>3. ~(y < x)
    BY <2>1, <2>2 DEF Less
  <2> QED BY <2>2, <2>3
<1> QED BY <1>3

(* f is the table of what is kept of the first n elements.                   *)
Table(f, seq, I, n) ==
    f = [k \in 0 .. n |-> IF k = 0 THEN <<>>
            ELSE IF k \in I THEN Append(f[k - 1], seq[k])
            ELSE f[k - 1]]

(* The recursive definition of Kept has a solution.                          *)
LEMMA TableExists ==
  ASSUME NEW seq, Len(seq) \in Nat, NEW I
  PROVE  \E f : Table(f, seq, I, Len(seq))
<1> DEFINE T == {n \in Nat : ~ \E f : Table(f, seq, I, n)}
<1>1. ASSUME T # {} PROVE FALSE
  <2>1. PICK n \in T : \A m \in T : n <= m
    BY <1>1, Least
  <2>2. n # 0
    <3>1. Table([k \in 0 .. 0 |-> <<>>], seq, I, 0)
      BY DEF Table
    <3> QED BY <3>1
  <2>3. PICK f : Table(f, seq, I, n - 1)
    <3>1. n - 1 \in Nat /\ ~(n <= n - 1)
      BY <2>2
    <3> QED BY <2>1, <3>1
  <2> DEFINE g == [k \in 0 .. n |-> IF k < n THEN f[k]
                        ELSE IF n \in I THEN Append(f[n - 1], seq[n]) ELSE f[n - 1]]
  <2>4. Table(g, seq, I, n)
    <3>1. \A k \in 0 .. n - 1 : g[k] = f[k]
      OBVIOUS
    <3>2. g[n] = IF n \in I THEN Append(f[n - 1], seq[n]) ELSE f[n - 1]
      OBVIOUS
    <3>3. \A k \in 0 .. n : g[k] = IF k = 0 THEN <<>>
            ELSE IF k \in I THEN Append(g[k - 1], seq[k])
            ELSE g[k - 1]
      <4> HIDE DEF g
      <4> SUFFICES ASSUME NEW k \in 0 .. n
                   PROVE  g[k] = IF k = 0 THEN <<>>
                                 ELSE IF k \in I THEN Append(g[k - 1], seq[k])
                                 ELSE g[k - 1]
        OBVIOUS
      <4>1. CASE k = n
        <5>1. g[n - 1] = f[n - 1]
          BY <3>1, <2>2
        <5> QED BY <4>1, <5>1, <3>2, <2>2
      <4>2. CASE k # n /\ k # 0
        <5>1. g[k] = f[k] /\ g[k - 1] = f[k - 1] /\ k \in 0 .. n - 1
          BY <4>2, <3>1
        <5> QED BY <4>2, <5>1, <2>3 DEF Table
      <4>3. CASE k # n /\ k = 0
        <5>1. g[k] = f[k] /\ k \in 0 .. n - 1
          BY <4>3, <3>1
        <5> QED BY <4>3, <5>1, <2>3 DEF Table
      <4> QED BY <4>1, <4>2, <4>3
    <3> HIDE DEF g
    <3>4. g = [k \in 0 .. n |-> g[k]]
      BY DEF g
    <3> QED BY <3>3, <3>4 DEF Table
  <2> QED BY <2>4
<1> QED BY <1>1

(* Kept is the last entry of that table.                                     *)
LEMMA KeptTable ==
  ASSUME NEW seq, Len(seq) \in Nat, NEW I
  PROVE  \E f : Table(f, seq, I, Len(seq)) /\ Kept(seq, I) = f[Len(seq)]
<1> DEFINE K == CHOOSE f : Table(f, seq, I, Len(seq))
<1>1. Table(K, seq, I, Len(seq))
  BY TableExists
<1>2. Kept(seq, I) = K[Len(seq)]
  BY DEF Kept, Table
<1> QED BY <1>1, <1>2

(* What is kept is a sequence over the same set; it keeps the order, each    *)
(* element at most once, and all elements it is to keep: std::remove neither *)
(* leaves an entry it was to remove nor loses or moves another one.          *)
LEMMA KeptIndexes ==
  ASSUME NEW S, NEW seq \in Seq(S), NEW I
  PROVE  /\ Kept(seq, I) \in Seq(S)
         /\ \E h \in [1 .. Len(Kept(seq, I)) -> I \cap 1 .. Len(seq)] :
               /\ \A k \in 1 .. Len(Kept(seq, I)) : Kept(seq, I)[k] = seq[h[k]]
               /\ \A j, k \in 1 .. Len(Kept(seq, I)) : j < k => h[j] < h[k]
               /\ \A n \in I \cap 1 .. Len(seq) : \E k \in 1 .. Len(Kept(seq, I)) : h[k] = n
<1>1. PICK f : Table(f, seq, I, Len(seq)) /\ Kept(seq, I) = f[Len(seq)]
  BY KeptTable
<1> DEFINE Good(n) ==
         /\ f[n] \in Seq(S)
         /\ \E h \in [1 .. Len(f[n]) -> I \cap 1 .. n] :
               /\ \A k \in 1 .. Len(f[n]) : f[n][k] = seq[h[k]]
               /\ \A j, k \in 1 .. Len(f[n]) : j < k => h[j] < h[k]
               /\ \A m \in I \cap 1 .. n : \E k \in 1 .. Len(f[n]) : h[k] = m
<1> DEFINE T == {n \in 0 .. Len(seq) : ~ Good(n)}
<1>2. ASSUME T # {} PROVE FALSE
  <2>1. PICK n \in T : \A m \in T : n <= m
    <3> HIDE DEF Good
    <3>1. T \in SUBSET Nat
      OBVIOUS
    <3> HIDE DEF T
    <3> QED BY <1>2, <3>1, Least
  <2>2. n # 0
    <3>1. f[0] = <<>>
      BY <1>1 DEF Table
    <3>2. f[0] \in Seq(S) /\ Len(f[0]) = 0
      BY <3>1
    <3> DEFINE g == [k \in 1 .. 0 |-> 0]
    <3>3. g \in [1 .. Len(f[0]) -> I \cap 1 .. 0]
      BY <3>2
    <3>4. \A k \in 1 .. Len(f[0]) : FALSE
      BY <3>2
    <3>5. \A m \in I \cap 1 .. 0 : FALSE
      OBVIOUS
    <3> HIDE DEF g
    <3>6. Good(0)
      BY <3>2, <3>3, <3>4, <3>5
    <3> QED BY <3>6
  <2>3. n - 1 \in 0 .. Len(seq) /\ Good(n - 1)
    <3>1. n - 1 \in 0 .. Len(seq) /\ ~(n <= n - 1)
      BY <2>2
    <3> HIDE DEF Good
    <3> QED BY <3>1, <2>1
  <2> DEFINE p == f[n - 1]
  <2>4. PICK h \in [1 .. Len(p) -> I \cap 1 .. n - 1] :
               /\ \A k \in 1 .. Len(p) : p[k] = seq[h[k]]
               /\ \A j, k \in 1 .. Len(p) : j < k => h[j] < h[k]
               /\ \A m \in I \cap 1 .. n - 1 : \E k \in 1 .. Len(p) : h[k] = m
    BY <2>3
  <2>5. p \in Seq(S)
    BY <2>3
  <2>6. f[n] = IF n \in I THEN Append(p, seq[n]) ELSE p
    BY <1>1, <2>2 DEF Table
  <2> HIDE DEF p
  <2>7. CASE n \notin I
    <3>1. f[n] = p /\ I \cap 1 .. n - 1 = I \cap 1 .. n
      BY <2>6, <2>7, <2>2
    <3>2. Good(n)
      BY <3>1, <2>4, <2>5
    <3> QED BY <3>2
  <2>8. CASE n \in I
    <3> DEFINE g == [k \in 1 .. Len(p) + 1 |-> IF k <= Len(p) THEN h[k] ELSE n]
    <3>1. f[n] = Append(p, seq[n]) /\ seq[n] \in S /\ n \in 1 .. Len(seq)
      BY <2>6, <2>8, <2>2
    <3>2. Len(f[n]) = Len(p) + 1 /\ Len(p) \in Nat /\ f[n] \in Seq(S)
      BY <3>1, <2>5
    <3>3. g \in [1 .. Len(f[n]) -> I \cap 1 .. n]
      BY <3>2, <3>1, <2>8, <2>4
    <3>4. \A k \in 1 .. Len(f[n]) : f[n][k] = seq[g[k]]
      BY <3>2, <3>1, <2>4, <2>5
    <3>5. \A j, k \in 1 .. Len(f[n]) : j < k => g[j] < g[k]
      BY <3>2, <3>1, <2>4
    <3>6. \A m \in I \cap 1 .. n : \E k \in 1 .. Len(f[n]) : g[k] = m
      <4> SUFFICES ASSUME NEW m \in I \cap 1 .. n PROVE \E k \in 1 .. Len(f[n]) : g[k] = m
        OBVIOUS
      <4>1. CASE m = n
        BY <4>1, <3>2
      <4>2. CASE m # n
        <5>1. m \in I \cap 1 .. n - 1
          BY <4>2, <3>1
        <5>2. PICK k \in 1 .. Len(p) : h[k] = m
          BY <5>1, <2>4
        <5> QED BY <5>2, <3>2
      <4> QED BY <4>1, <4>2
    <3> HIDE DEF g
    <3>7. Good(n)
      BY <3>2, <3>3, <3>4, <3>5, <3>6
    <3> QED BY <3>7
  <2> QED BY <2>7, <2>8
<1>3. Good(Len(seq))
  <2> HIDE DEF Good
  <2>1. Len(seq) \in 0 .. Len(seq)
    OBVIOUS
  <2> QED BY <1>2, <2>1
<1> QED BY <1>1, <1>3

-----------------------------------------------------------------------------
(* Sequences.                                                              *)

(* What is kept of a sequence, by the indexes it had.                      *)
LEMMA KeptIs ==
  ASSUME NEW S, NEW seq \in Seq(S), NEW I \in SUBSET DOMAIN seq
  PROVE  LET w == Kept(seq, I) IN
         /\ w \in Seq(S)
         /\ \E h \in [DOMAIN w -> I] :
               /\ \A k \in DOMAIN w : w[k] = seq[h[k]] /\ h[k] >= k
               /\ \A j, k \in DOMAIN w : j < k => h[j] < h[k]
               /\ \A n \in I : \E k \in DOMAIN w : h[k] = n
  <1> DEFINE w == Kept(seq, I)
  <1>1. w \in Seq(S) /\ DOMAIN seq = 1 .. Len(seq) /\ Len(seq) \in Nat
    BY KeptIndexes
  <1>2. PICK h \in [1 .. Len(w) -> I \cap 1 .. Len(seq)] :
              /\ \A k \in 1 .. Len(w) : w[k] = seq[h[k]]
              /\ \A j, k \in 1 .. Len(w) : j < k => h[j] < h[k]
              /\ \A n \in I \cap 1 .. Len(seq) : \E k \in 1 .. Len(w) : h[k] = n
    BY KeptIndexes
  <1> HIDE DEF w
  <1>3. DOMAIN w = 1 .. Len(w) /\ Len(w) \in Nat /\ I \cap 1 .. Len(seq) = I
    BY <1>1
  <1> DEFINE T == {k \in 1 .. Len(w) : h[k] < k}
  <1>4. T = {}
    <2> SUFFICES ASSUME T # {} PROVE FALSE
      OBVIOUS
    <2>1. T \in SUBSET Nat
      BY <1>3
    <2>2. PICK k \in T : \A n \in T : k <= n
      <3> HIDE DEF T
      <3> QED
        BY <2>1, Least
    <2>3. k \in 1 .. Len(w) /\ h[k] < k /\ h[k] \in 1 .. Len(seq)
      BY <1>2
    <2>4. k # 1
      BY <1>1, <2>3
    <2>5. k - 1 \in 1 .. Len(w) /\ h[k - 1] \in 1 .. Len(seq) /\ h[k - 1] < h[k]
      <3>1. k - 1 \in 1 .. Len(w) /\ k - 1 < k
        BY <1>3, <2>3, <2>4
      <3> QED
        BY <1>2, <2>3, <3>1
    <2>6. k - 1 \in T
      <3>1. h[k - 1] < k - 1
        BY <1>1, <2>3, <2>5
      <3> QED
        BY <2>5, <3>1
    <2> QED
      BY <1>3, <2>2, <2>3, <2>6
  <1>5. \A k \in DOMAIN w : h[k] >= k
    <2>1. \A k \in 1 .. Len(w) : h[k] \in 1 .. Len(seq) /\ ~(h[k] < k)
      BY <1>2, <1>4
    <2> QED
      BY <1>1, <1>3, <2>1
  <1>6. /\ h \in [DOMAIN w -> I]
        /\ \A k \in DOMAIN w : w[k] = seq[h[k]] /\ h[k] >= k
        /\ \A j, k \in DOMAIN w : j < k => h[j] < h[k]
        /\ \A n \in I : \E k \in DOMAIN w : h[k] = n
    BY <1>2, <1>3, <1>5
  <1> QED
    BY <1>1, <1>6 DEF w

(* Containers lose what is taken out of them, and nothing else.            *)
LEMMA PickedIs ==
  ASSUME NEW S, NEW seq \in Seq(S), NEW I \in SUBSET DOMAIN seq
  PROVE  LET w == Kept(seq, I) IN
         /\ w \in Seq(S)
         /\ \A k \in DOMAIN w : \E n \in I : n >= k /\ w[k] = seq[n]
         /\ \A n \in I : \E k \in DOMAIN w : w[k] = seq[n]
         /\ Once(seq) => Once(w)
  <1> DEFINE w == Kept(seq, I)
  <1>1. PICK h \in [DOMAIN w -> I] :
               /\ \A k \in DOMAIN w : w[k] = seq[h[k]] /\ h[k] >= k
               /\ \A j, k \in DOMAIN w : j < k => h[j] < h[k]
               /\ \A n \in I : \E k \in DOMAIN w : h[k] = n
    BY KeptIs
  <1>2. w \in Seq(S)
    BY KeptIs
  <1> HIDE DEF w
  <1>3. DOMAIN w = 1 .. Len(w) /\ Len(w) \in Nat /\ DOMAIN seq = 1 .. Len(seq) /\ Len(seq) \in Nat
    BY <1>2
  <1>4. ASSUME Once(seq) PROVE Once(w)
    <2> SUFFICES ASSUME NEW m \in DOMAIN w, NEW n \in DOMAIN w, w[m] = w[n]
                 PROVE  m = n
      BY DEF Once
    <2>1. h[m] \in DOMAIN seq /\ h[n] \in DOMAIN seq /\ h[m] = h[n]
      BY <1>1, <1>4 DEF Once
    <2> QED
      BY <1>1, <1>3, <2>1
  <1>5. \A k \in DOMAIN w : \E n \in I : n >= k /\ w[k] = seq[n]
    BY <1>1
  <1>6. \A n \in I : \E k \in DOMAIN w : w[k] = seq[n]
    BY <1>1
  <1> QED
    BY <1>2, <1>4, <1>5, <1>6 DEF w

LEMMA WithoutIs ==
  ASSUME NEW S, NEW seq \in Seq(S), NEW X
  PROVE  LET w == Without(seq, X) IN
         /\ w \in Seq(S)
         /\ \A k \in DOMAIN w : w[k] \in S \ X
         /\ \A o : Contains(w, o) <=> Contains(seq, o) /\ o \notin X
         /\ Once(seq) => Once(w)
         /\ \A k \in DOMAIN w : \E n \in DOMAIN seq : n >= k /\ w[k] = seq[n]
  <1> DEFINE I == {k \in DOMAIN seq : seq[k] \notin X}
             w == Without(seq, X)
  <1>1. /\ w \in Seq(S)
        /\ \A k \in DOMAIN w : \E n \in I : n >= k /\ w[k] = seq[n]
        /\ \A n \in I : \E k \in DOMAIN w : w[k] = seq[n]
        /\ Once(seq) => Once(w)
    <2>1. I \in SUBSET DOMAIN seq /\ w = Kept(seq, I)
      BY DEF Without
    <2> HIDE DEF I, w
    <2> QED
      BY <2>1, PickedIs
  <1> HIDE DEF w
  <1>2. DOMAIN w = 1 .. Len(w) /\ DOMAIN seq = 1 .. Len(seq) /\ \A k \in DOMAIN w : w[k] \in S
    BY <1>1
  <1>3. \A o : Contains(w, o) <=> Contains(seq, o) /\ o \notin X
    BY <1>1, <1>2 DEF Contains
  <1> QED
    BY <1>1, <1>2, <1>3 DEF w

LEMMA OnlyIs ==
  ASSUME NEW S, NEW seq \in Seq(S), NEW X
  PROVE  LET w == Only(seq, X) IN
         /\ w \in Seq(S)
         /\ \A k \in DOMAIN w : w[k] \in S \cap X
         /\ \A o : Contains(w, o) <=> Contains(seq, o) /\ o \in X
         /\ Once(seq) => Once(w)
  <1> DEFINE I == {k \in DOMAIN seq : seq[k] \in X}
             w == Only(seq, X)
  <1>1. /\ w \in Seq(S)
        /\ \A k \in DOMAIN w : \E n \in I : n >= k /\ w[k] = seq[n]
        /\ \A n \in I : \E k \in DOMAIN w : w[k] = seq[n]
        /\ Once(seq) => Once(w)
    <2>1. I \in SUBSET DOMAIN seq /\ w = Kept(seq, I)
      BY DEF Only
    <2> HIDE DEF I, w
    <2> QED
      BY <2>1, PickedIs
  <1> HIDE DEF w
  <1>2. DOMAIN w = 1 .. Len(w) /\ DOMAIN seq = 1 .. Len(seq) /\ \A k \in DOMAIN w : w[k] \in S
    BY <1>1
  <1>3. \A o : Contains(w, o) <=> Contains(seq, o) /\ o \in X
    BY <1>1, <1>2 DEF Contains
  <1> QED
    BY <1>1, <1>2, <1>3 DEF w

(* Joined containers.                                                      *)
LEMMA ConcatIs ==
  ASSUME NEW S, NEW a \in Seq(S), NEW b \in Seq(S)
  PROVE  /\ a \o b \in Seq(S) /\ Len(a \o b) = Len(a) + Len(b)
         /\ Len(a) \in Nat /\ Len(b) \in Nat
         /\ DOMAIN a = 1 .. Len(a) /\ DOMAIN b = 1 .. Len(b)
         /\ DOMAIN (a \o b) = 1 .. Len(a) + Len(b)
         /\ \A k \in DOMAIN (a \o b) :
               IF k \in DOMAIN a THEN (a \o b)[k] = a[k]
               ELSE k - Len(a) \in DOMAIN b /\ (a \o b)[k] = b[k - Len(a)]
         /\ \A k \in DOMAIN a : k \in DOMAIN (a \o b) /\ (a \o b)[k] = a[k]
         /\ \A k \in DOMAIN b : k + Len(a) \in DOMAIN (a \o b) /\ (a \o b)[k + Len(a)] = b[k]
  OBVIOUS

LEMMA JoinedOnce ==
  ASSUME NEW S, NEW a \in Seq(S), NEW b \in Seq(S)
  PROVE  /\ \A o : Contains(a \o b, o) <=> Contains(a, o) \/ Contains(b, o)
         /\ Once(a) /\ Once(b) /\ (\A o : ~(Contains(a, o) /\ Contains(b, o))) => Once(a \o b)
  <1> DEFINE c == a \o b
  <1>1. /\ Len(c) = Len(a) + Len(b)
        /\ Len(a) \in Nat /\ Len(b) \in Nat
        /\ DOMAIN a = 1 .. Len(a) /\ DOMAIN b = 1 .. Len(b)
        /\ DOMAIN c = 1 .. Len(a) + Len(b)
        /\ \A k \in DOMAIN c : IF k \in DOMAIN a THEN c[k] = a[k]
               ELSE k - Len(a) \in DOMAIN b /\ c[k] = b[k - Len(a)]
        /\ \A k \in DOMAIN a : k \in DOMAIN c /\ c[k] = a[k]
        /\ \A k \in DOMAIN b : k + Len(a) \in DOMAIN c /\ c[k + Len(a)] = b[k]
    BY ConcatIs
  <1> HIDE DEF c
  <1>2. ASSUME NEW o PROVE Contains(c, o) <=> Contains(a, o) \/ Contains(b, o)
    <2>1. Contains(c, o) => Contains(a, o) \/ Contains(b, o)
      BY <1>1 DEF Contains
    <2>2. Contains(a, o) => Contains(c, o)
      BY <1>1 DEF Contains
    <2>3. Contains(b, o) => Contains(c, o)
      BY <1>1 DEF Contains
    <2> QED
      BY <2>1, <2>2, <2>3
  <1>3. ASSUME Once(a), Once(b), \A o : ~(Contains(a, o) /\ Contains(b, o))
        PROVE  Once(c)
    <2> SUFFICES ASSUME NEW m \in DOMAIN c, NEW n \in DOMAIN c, c[m] = c[n] PROVE m = n
      BY DEF Once
    <2>1. \A j \in DOMAIN a, k \in DOMAIN b : a[j] # b[k]
      BY <1>1, <1>3 DEF Contains
    <2>2. CASE m \in DOMAIN a /\ n \in DOMAIN a
      BY <1>1, <1>3, <2>2 DEF Once
    <2>3. CASE m \notin DOMAIN a /\ n \notin DOMAIN a
      <3>1. m - Len(a) \in DOMAIN b /\ n - Len(a) \in DOMAIN b /\ b[m - Len(a)] = b[n - Len(a)]
        BY <1>1, <2>3
      <3>2. m - Len(a) = n - Len(a)
        BY <1>3, <3>1 DEF Once
      <3> QED
        BY <1>1, <3>2
    <2>4. CASE m \in DOMAIN a /\ n \notin DOMAIN a
      BY <1>1, <2>1, <2>4
    <2>5. CASE m \notin DOMAIN a /\ n \in DOMAIN a
      BY <1>1, <2>1, <2>5
    <2> QED
      BY <2>2, <2>3, <2>4, <2>5
  <1> QED
    BY <1>2, <1>3 DEF c

LEMMA JoinedByObj ==
  ASSUME NEW a \in Seq(Item), NEW b \in Seq(Item)
  PROVE  /\ \A o : HasObj(a \o b, o) <=> HasObj(a, o) \/ HasObj(b, o)
         /\ OnceByObj(a) /\ OnceByObj(b) /\ (\A o \in Objs : ~(HasObj(a, o) /\ HasObj(b, o)))
                => OnceByObj(a \o b)
  <1> DEFINE c == a \o b
  <1>1. /\ Len(c) = Len(a) + Len(b)
        /\ Len(a) \in Nat /\ Len(b) \in Nat
        /\ DOMAIN a = 1 .. Len(a) /\ DOMAIN b = 1 .. Len(b)
        /\ DOMAIN c = 1 .. Len(a) + Len(b)
        /\ \A k \in DOMAIN c : IF k \in DOMAIN a THEN c[k] = a[k]
               ELSE k - Len(a) \in DOMAIN b /\ c[k] = b[k - Len(a)]
        /\ \A k \in DOMAIN a : k \in DOMAIN c /\ c[k] = a[k]
        /\ \A k \in DOMAIN b : k + Len(a) \in DOMAIN c /\ c[k + Len(a)] = b[k]
    BY ConcatIs
  <1> HIDE DEF c
  <1>2. ASSUME NEW o PROVE HasObj(c, o) <=> HasObj(a, o) \/ HasObj(b, o)
    <2>1. HasObj(c, o) => HasObj(a, o) \/ HasObj(b, o)
      BY <1>1 DEF HasObj
    <2>2. HasObj(a, o) => HasObj(c, o)
      BY <1>1 DEF HasObj
    <2>3. HasObj(b, o) => HasObj(c, o)
      BY <1>1 DEF HasObj
    <2> QED
      BY <2>1, <2>2, <2>3
  <1>3. ASSUME OnceByObj(a), OnceByObj(b), \A o \in Objs : ~(HasObj(a, o) /\ HasObj(b, o))
        PROVE  OnceByObj(c)
    <2> SUFFICES ASSUME NEW m \in DOMAIN c, NEW n \in DOMAIN c,
                        c[m].obj = c[n].obj, c[m].obj # None
                 PROVE  m = n
      BY DEF OnceByObj
    <2>1. \A j \in DOMAIN a, k \in DOMAIN b : a[j].obj # None => a[j].obj # b[k].obj
      <3>1. \A j \in DOMAIN a : a[j].obj \in Objs \cup {None}
        <4>1. \A j \in DOMAIN a : a[j] \in Item
          BY <1>1
        <4> QED
          BY <4>1 DEF Item
      <3> QED
        BY <1>3, <3>1 DEF HasObj
    <2>2. CASE m \in DOMAIN a /\ n \in DOMAIN a
      BY <1>1, <1>3, <2>2 DEF OnceByObj
    <2>3. CASE m \notin DOMAIN a /\ n \notin DOMAIN a
      <3>1. /\ m - Len(a) \in DOMAIN b /\ n - Len(a) \in DOMAIN b
            /\ b[m - Len(a)].obj = b[n - Len(a)].obj /\ b[m - Len(a)].obj # None
        BY <1>1, <2>3
      <3>2. m - Len(a) = n - Len(a)
        BY <1>3, <3>1 DEF OnceByObj
      <3> QED
        BY <1>1, <3>2
    <2>4. CASE m \in DOMAIN a /\ n \notin DOMAIN a
      BY <1>1, <2>1, <2>4
    <2>5. CASE m \notin DOMAIN a /\ n \in DOMAIN a
      BY <1>1, <2>1, <2>5
    <2> QED
      BY <2>2, <2>3, <2>4, <2>5
  <1> QED
    BY <1>2, <1>3 DEF c

-----------------------------------------------------------------------------
(* The pending operations.                                                 *)

(* The last of them for o, and that it is a registration.                  *)
LastAt(ops, o, k) ==
    k \in DOMAIN ops /\ ops[k].obj = o /\ \A n \in DOMAIN ops : n > k => ops[n].obj # o

Wanted(ops, o) == \E k \in DOMAIN ops : LastAt(ops, o, k) /\ ops[k].reg

LEMMA OpsOfIs ==
  ASSUME NEW ops \in Seq(Op), NEW o
  PROVE  LET q == Kept(ops, {k \in DOMAIN ops : ops[k].obj = o}) IN
         /\ q = <<>> <=> ~Asked(ops, o)
         /\ Asked(ops, o) => \E k \in DOMAIN ops : LastAt(ops, o, k) /\ Last(q) = ops[k]
  <1> DEFINE I == {k \in DOMAIN ops : ops[k].obj = o}
             q == Kept(ops, I)
  <1>1. I \in SUBSET DOMAIN ops /\ \A k \in DOMAIN ops : k \in I <=> ops[k].obj = o
    OBVIOUS
  <1> HIDE DEF I
  <1>2. PICK h \in [DOMAIN q -> I] :
               /\ \A k \in DOMAIN q : q[k] = ops[h[k]] /\ h[k] >= k
               /\ \A j, k \in DOMAIN q : j < k => h[j] < h[k]
               /\ \A n \in I : \E k \in DOMAIN q : h[k] = n
    BY <1>1, KeptIs
  <1>3. q \in Seq(Op)
    BY <1>1, KeptIs
  <1> HIDE DEF q
  <1>4. DOMAIN q = 1 .. Len(q) /\ Len(q) \in Nat /\ DOMAIN ops = 1 .. Len(ops) /\ Len(ops) \in Nat
    BY <1>3
  <1>5. q = <<>> <=> ~Asked(ops, o)
    <2>1. q = <<>> <=> DOMAIN q = {}
      BY <1>3
    <2>2. DOMAIN q = {} <=> I = {}
      BY <1>2
    <2> QED
      BY <1>1, <2>1, <2>2 DEF Asked
  <1>6. ASSUME Asked(ops, o) PROVE \E k \in DOMAIN ops : LastAt(ops, o, k) /\ Last(q) = ops[k]
    <2>1. Len(q) \in DOMAIN q
      BY <1>3, <1>4, <1>5, <1>6
    <2>2. h[Len(q)] \in I /\ Last(q) = ops[h[Len(q)]]
      BY <1>2, <2>1 DEF Last
    <2>3. ASSUME NEW n \in DOMAIN ops, n > h[Len(q)], ops[n].obj = o PROVE FALSE
      <3>1. n \in I
        BY <1>1, <2>3
      <3>2. PICK k \in DOMAIN q : h[k] = n
        BY <1>2, <3>1
      <3>3. k = Len(q) \/ k < Len(q)
        BY <1>4, <3>2
      <3>4. h[k] <= h[Len(q)]
        <4>1. h[k] \in DOMAIN ops /\ h[Len(q)] \in DOMAIN ops
          BY <1>1, <1>2, <2>2, <3>1
        <4> QED
          BY <1>2, <1>4, <2>1, <3>3, <4>1
      <3>5. h[Len(q)] \in DOMAIN ops
        BY <1>1, <2>2
      <3> QED
        BY <1>4, <2>3, <3>2, <3>4, <3>5
    <2> QED
      BY <1>1, <2>2, <2>3 DEF LastAt
  <1> QED
    BY <1>5, <1>6 DEF q, I

(* There is only one last operation.                                       *)
LEMMA LastAtOnce ==
  ASSUME NEW ops \in Seq(Op), NEW o, NEW j, NEW k, LastAt(ops, o, j), LastAt(ops, o, k)
  PROVE  j = k
  <1>1. j \in DOMAIN ops /\ k \in DOMAIN ops /\ DOMAIN ops = 1 .. Len(ops) /\ Len(ops) \in Nat
    BY DEF LastAt
  <1>2. ~(j < k) /\ ~(k < j)
    BY <1>1 DEF LastAt
  <1> QED
    BY <1>1, <1>2

(* What Effective is of one object.                                        *)
LEMMA EffectiveIs ==
  ASSUME pending \in Seq(Op), NEW o \in Objs
  PROVE  o \in Effective <=> IF Asked(pending, o) THEN Wanted(pending, o) ELSE InLoop(o)
  <1>1. /\ OpsOf(o) = <<>> <=> ~Asked(pending, o)
        /\ Asked(pending, o) =>
               \E k \in DOMAIN pending : LastAt(pending, o, k) /\ Last(OpsOf(o)) = pending[k]
    BY OpsOfIs DEF OpsOf
  <1>2. CASE ~Asked(pending, o)
    BY <1>1, <1>2 DEF Effective
  <1>3. CASE Asked(pending, o)
    <2>1. PICK k \in DOMAIN pending : LastAt(pending, o, k) /\ Last(OpsOf(o)) = pending[k]
      BY <1>1, <1>3
    <2>2. o \in Effective <=> pending[k].reg
      BY <1>1, <1>3, <2>1 DEF Effective
    <2>3. Wanted(pending, o) <=> pending[k].reg
      BY <2>1, LastAtOnce DEF Wanted
    <2> QED
      BY <1>3, <2>2, <2>3
  <1> QED
    BY <1>2, <1>3

LEMMA EffectiveNext ==
  ASSUME pending' \in Seq(Op), NEW o \in Objs
  PROVE  o \in Effective' <=> IF Asked(pending', o) THEN Wanted(pending', o) ELSE InLoop(o)'
  <1>1. /\ OpsOf(o)' = <<>> <=> ~Asked(pending', o)
        /\ Asked(pending', o) =>
               \E k \in DOMAIN pending' : LastAt(pending', o, k) /\ Last(OpsOf(o)') = pending'[k]
    BY OpsOfIs DEF OpsOf
  <1>2. CASE ~Asked(pending', o)
    BY <1>1, <1>2 DEF Effective
  <1>3. CASE Asked(pending', o)
    <2>1. PICK k \in DOMAIN pending' : LastAt(pending', o, k) /\ Last(OpsOf(o)') = pending'[k]
      BY <1>1, <1>3
    <2>2. o \in Effective' <=> pending'[k].reg
      BY <1>1, <1>3, <2>1 DEF Effective
    <2>3. Wanted(pending', o) <=> pending'[k].reg
      BY <2>1, LastAtOnce DEF Wanted
    <2> QED
      BY <1>3, <2>2, <2>3
  <1> QED
    BY <1>2, <1>3

(* One more operation.                                                     *)
LEMMA AskedMore ==
  ASSUME NEW ops \in Seq(Op), NEW b \in BOOLEAN, NEW o \in Objs,
         b /\ Asked(ops, o) => ~Wanted(ops, o)
  PROVE  LET A == Append(ops, [reg |-> b, obj |-> o]) IN
         /\ A \in Seq(Op)
         /\ Asked(A, o) /\ (Wanted(A, o) <=> b)
         /\ \A x \in Objs \ {o} : /\ Asked(A, x) <=> Asked(ops, x)
                                  /\ Wanted(A, x) <=> Wanted(ops, x)
         /\ Gone(ops) \subseteq Gone(A)
         /\ ~b /\ ~Asked(ops, o) => o \in Gone(A)
         /\ Alternate(ops) => Alternate(A)
  <1> DEFINE e == [reg |-> b, obj |-> o]
             A == Append(ops, e)
             L == Len(ops) + 1
  <1>1. e \in Op /\ e.reg = b /\ e.obj = o
    BY DEF Op
  <1> HIDE DEF e
  <1>2. /\ A \in Seq(Op) /\ A[L] = e /\ Len(ops) \in Nat
        /\ DOMAIN A = 1 .. L /\ DOMAIN ops = 1 .. Len(ops)
        /\ \A k \in DOMAIN ops : A[k] = ops[k]
    BY <1>1
  <1> HIDE DEF A
  <1>3. /\ L \in DOMAIN A /\ L \notin DOMAIN ops
        /\ \A k \in DOMAIN A : k = L \/ (k < L /\ k \in DOMAIN ops)
        /\ \A k \in DOMAIN ops : k < L /\ k \in DOMAIN A
    BY <1>2
  <1>4. LastAt(A, o, L) /\ Asked(A, o)
    BY <1>1, <1>2, <1>3 DEF LastAt, Asked
  <1>5. Wanted(A, o) <=> b
    BY <1>1, <1>2, <1>4, LastAtOnce DEF Wanted
  <1>6. ASSUME NEW x \in Objs \ {o}
        PROVE  (Asked(A, x) <=> Asked(ops, x)) /\ (Wanted(A, x) <=> Wanted(ops, x))
    <2>1. A[L].obj # x
      BY <1>1, <1>2
    <2>2. Asked(A, x) <=> Asked(ops, x)
      BY <1>2, <1>3, <2>1 DEF Asked
    <2>3. ASSUME NEW k PROVE LastAt(A, x, k) <=> LastAt(ops, x, k)
      BY <1>2, <1>3, <2>1 DEF LastAt
    <2>4. Wanted(A, x) <=> Wanted(ops, x)
      <3>1. ASSUME NEW k, LastAt(ops, x, k) PROVE k \in DOMAIN ops /\ A[k] = ops[k] /\ k \in DOMAIN A
        BY <1>2, <1>3, <3>1 DEF LastAt
      <3> QED
        BY <2>3, <3>1 DEF Wanted
    <2> QED
      BY <2>2, <2>4
  <1>7. ASSUME NEW x \in Gone(ops) PROVE x \in Gone(A)
    <2>1. PICK k \in DOMAIN ops : /\ ops[k] = [reg |-> FALSE, obj |-> x]
                                  /\ \A n \in 1 .. k - 1 : ops[n].obj # x
      BY DEF Gone
    <2>2. k \in DOMAIN A /\ A[k] = ops[k]
      BY <1>2, <1>3
    <2>3. \A n \in 1 .. k - 1 : n \in DOMAIN ops /\ A[n] = ops[n]
      BY <1>2
    <2>4. x \in Objs
      BY DEF Gone
    <2> QED
      BY <2>1, <2>2, <2>3, <2>4 DEF Gone
  <1>8. ASSUME ~b, ~Asked(ops, o) PROVE o \in Gone(A)
    <2>1. A[L] = [reg |-> FALSE, obj |-> o]
      BY <1>2, <1>8 DEF e
    <2>2. \A n \in 1 .. L - 1 : A[n].obj # o
      BY <1>2, <1>8 DEF Asked
    <2> QED
      BY <1>3, <2>1, <2>2 DEF Gone
  <1>9. ASSUME Alternate(ops) PROVE Alternate(A)
    <2> SUFFICES ASSUME NEW k \in DOMAIN A, NEW n \in DOMAIN A, k < n, A[k].reg, A[n].reg,
                        A[k].obj = A[n].obj
                 PROVE  \E m \in k + 1 .. n - 1 : ~A[m].reg /\ A[m].obj = A[k].obj
      BY DEF Alternate
    <2>1. k \in DOMAIN ops /\ A[k] = ops[k] /\ k # L
      <3>1. k # L
        BY <1>2, <1>3
      <3> QED
        BY <1>2, <1>3, <3>1
    <2>2. CASE n # L
      <3>1. n \in DOMAIN ops /\ A[n] = ops[n]
        BY <1>2, <1>3, <2>2
      <3>2. PICK m \in k + 1 .. n - 1 : ~ops[m].reg /\ ops[m].obj = ops[k].obj
        BY <1>9, <2>1, <3>1 DEF Alternate
      <3>3. m \in DOMAIN ops
        BY <1>2, <2>1, <3>1
      <3> QED
        BY <1>2, <2>1, <3>2, <3>3
    <2>3. CASE n = L
      <3>1. b /\ ops[k].obj = o /\ Asked(ops, o)
        BY <1>1, <1>2, <2>1, <2>3 DEF Asked
      <3>2. PICK m \in DOMAIN ops : LastAt(ops, o, m)
        BY <3>1, OpsOfIs
      <3>3. ~ops[m].reg /\ ops[m].obj = o
        BY <3>1, <3>2 DEF Wanted, LastAt
      <3>4. m # k /\ ~(k > m)
        BY <2>1, <3>1, <3>2, <3>3 DEF LastAt
      <3>5. m \in k + 1 .. n - 1
        BY <1>2, <2>1, <2>3, <3>4
      <3> QED
        BY <1>2, <2>1, <3>1, <3>3, <3>5
    <2> QED
      BY <2>2, <2>3
  <1> QED
    BY <1>2, <1>4, <1>5, <1>6, <1>7, <1>8, <1>9 DEF A, e

-----------------------------------------------------------------------------
(* internal_Registration.                                                  *)

LEMMA ItemIs ==
  ASSUME NEW seq \in Seq(Item), NEW k \in DOMAIN seq
  PROVE  /\ seq[k] \in Item /\ seq[k].obj \in Objs \cup {None}
         /\ seq[k].wait \in 0 .. MaxWait /\ k \in Nat
  <1>1. seq[k] \in Item /\ k \in Nat
    OBVIOUS
  <1> QED
    BY <1>1 DEF Item

(* Items[k].Object = NULL.                                                 *)
LEMMA NulledIs ==
  ASSUME NEW seq \in Seq(Item), NEW X
  PROVE  LET w == Nulled(seq, X) IN
         /\ w \in Seq(Item) /\ DOMAIN w = DOMAIN seq
         /\ \A k \in DOMAIN seq : w[k].obj = IF seq[k].obj \in X THEN None ELSE seq[k].obj
         /\ \A o \in Objs : HasObj(w, o) <=> HasObj(seq, o) /\ o \notin X
         /\ OnceByObj(seq) => OnceByObj(w)
  <1> DEFINE w == Nulled(seq, X)
  <1>1. ASSUME NEW k \in DOMAIN seq
        PROVE  /\ w[k] \in Item
               /\ w[k].obj = IF seq[k].obj \in X THEN None ELSE seq[k].obj
    <2>1. seq[k] \in Item
      OBVIOUS
    <2>2. w[k] = IF seq[k].obj \in X THEN [seq[k] EXCEPT !.obj = None] ELSE seq[k]
      BY DEF Nulled
    <2> QED
      BY <2>1, <2>2 DEF Item
  <1>2. w = [k \in DOMAIN seq |-> w[k]] /\ DOMAIN seq = 1 .. Len(seq) /\ Len(seq) \in Nat
    BY DEF Nulled
  <1> HIDE DEF w
  <1>3. w \in Seq(Item) /\ DOMAIN w = DOMAIN seq
    BY <1>1, <1>2
  <1>4. ASSUME NEW o \in Objs PROVE HasObj(w, o) <=> HasObj(seq, o) /\ o \notin X
    <2>1. o # None
      BY SchedulerAssumption DEF SchedulerAssumption
    <2> QED
      BY <1>1, <1>3, <2>1 DEF HasObj
  <1>5. OnceByObj(seq) => OnceByObj(w)
    BY <1>1, <1>3 DEF OnceByObj
  <1> QED
    BY <1>1, <1>3, <1>4, <1>5 DEF w

(* What is registered anew: whose last operation is a registration.        *)
LEMMA FreshIs ==
  ASSUME NEW ops \in Seq(Op), Alternate(ops)
  PROVE  /\ Fresh(ops) \in Seq(Objs) /\ Once(Fresh(ops))
         /\ \A o : Contains(Fresh(ops), o) <=> Wanted(ops, o)
  <1> DEFINE I == {k \in DOMAIN ops : ops[k].reg /\ ~Paired(ops, k)}
             q == Carried(ops)
             f == Fresh(ops)
  <1>1. /\ I \in SUBSET DOMAIN ops /\ q = Kept(ops, I)
        /\ \A k \in DOMAIN ops : k \in I <=> ops[k].reg /\ ~Paired(ops, k)
    BY DEF Carried
  <1> HIDE DEF I, q
  <1>2. PICK h \in [DOMAIN q -> I] :
               /\ \A k \in DOMAIN q : q[k] = ops[h[k]] /\ h[k] >= k
               /\ \A j, k \in DOMAIN q : j < k => h[j] < h[k]
               /\ \A n \in I : \E k \in DOMAIN q : h[k] = n
    BY <1>1, KeptIs
  <1>3. q \in Seq(Op)
    BY <1>1, KeptIs
  <1>4. DOMAIN q = 1 .. Len(q) /\ Len(q) \in Nat /\ DOMAIN ops = 1 .. Len(ops) /\ Len(ops) \in Nat
    BY <1>3
  <1>5. \A k \in DOMAIN q : q[k].obj \in Objs
    <2>1. \A k \in DOMAIN q : q[k] \in Op
      BY <1>3
    <2> QED
      BY <2>1 DEF Op
  <1>6. f = [n \in DOMAIN q |-> q[n].obj]
    BY DEF Fresh, q
  <1> HIDE DEF f
  <1>7. f \in Seq(Objs) /\ DOMAIN f = DOMAIN q /\ \A n \in DOMAIN q : f[n] = q[n].obj
    BY <1>4, <1>5, <1>6
  <1>8. \A k \in I : k \in DOMAIN ops /\ ops[k].reg /\ \A n \in DOMAIN ops :
            n > k /\ ops[n].obj = ops[k].obj => ops[n].reg
    BY <1>1, <1>4 DEF Paired
  <1>9. \A j, k \in I : ops[j].obj = ops[k].obj => j = k
    <2>1. ASSUME NEW j \in I, NEW k \in I, ops[j].obj = ops[k].obj, j < k PROVE FALSE
      <3>1. PICK m \in j + 1 .. k - 1 : ~ops[m].reg /\ ops[m].obj = ops[j].obj
        BY <1>8, <2>1 DEF Alternate
      <3>2. m \in DOMAIN ops /\ m > j
        BY <1>4, <1>8
      <3> QED
        BY <1>8, <3>1, <3>2
    <2>2. \A j \in I : j \in Nat
      BY <1>4, <1>8
    <2> QED
      BY <2>1, <2>2
  <1>10. Once(f)
    <2> SUFFICES ASSUME NEW m \in DOMAIN q, NEW n \in DOMAIN q, f[m] = f[n] PROVE m = n
      BY <1>7 DEF Once
    <2>1. h[m] = h[n]
      BY <1>2, <1>7, <1>9
    <2>2. h[m] \in Nat /\ h[n] \in Nat
      BY <1>2, <1>4, <1>8
    <2> QED
      BY <1>2, <1>4, <2>1, <2>2
  <1>11. ASSUME NEW o PROVE Contains(f, o) <=> Wanted(ops, o)
    <2>1. ASSUME Contains(f, o) PROVE Wanted(ops, o)
      <3>1. PICK n \in DOMAIN q : f[n] = o
        BY <1>7, <2>1 DEF Contains
      <3>2. h[n] \in I /\ ops[h[n]].obj = o
        BY <1>2, <1>7, <3>1
      <3>3. PICK k \in DOMAIN ops : LastAt(ops, o, k)
        BY <1>8, <3>2, OpsOfIs DEF Asked
      <3>4. ops[k].reg
        <4>1. h[n] \in DOMAIN ops
          BY <1>8, <3>2
        <4>2. ops[k].obj = o /\ ~(h[n] > k)
          BY <3>2, <3>3, <4>1 DEF LastAt
        <4>3. k = h[n] \/ k > h[n]
          BY <1>4, <4>1, <4>2
        <4> QED
          BY <1>8, <3>2, <4>2, <4>3
      <3> QED
        BY <3>3, <3>4 DEF Wanted
    <2>2. ASSUME Wanted(ops, o) PROVE Contains(f, o)
      <3>1. PICK k \in DOMAIN ops : LastAt(ops, o, k) /\ ops[k].reg
        BY <2>2 DEF Wanted
      <3>2. ~Paired(ops, k)
        BY <1>4, <3>1 DEF Paired, LastAt
      <3>3. k \in I /\ ops[k].obj = o
        BY <1>1, <3>1, <3>2 DEF LastAt
      <3>4. PICK n \in DOMAIN q : h[n] = k
        BY <1>2, <3>3
      <3> QED
        BY <1>2, <1>7, <3>3, <3>4 DEF Contains
    <2> QED
      BY <2>1, <2>2
  <1> QED
    BY <1>7, <1>10, <1>11 DEF f

(* The heap with new items: what is due, these, and what is not.           *)
LEMMA HeapIs ==
  ASSUME NEW seq \in Seq(Item), OnceByObj(seq), NEW new \in Seq(Objs), Once(new),
         \A o \in Objs : ~(HasObj(seq, o) /\ Contains(new, o))
  PROVE  LET w == DuePrefix(seq) \o [n \in DOMAIN new |-> NewItem(new[n])] \o NotDue(seq) IN
         /\ w \in Seq(Item) /\ OnceByObj(w)
         /\ \A o : HasObj(w, o) <=> HasObj(seq, o) \/ Contains(new, o)
  <1> DEFINE I == {k \in DOMAIN seq : seq[k].wait = 0}
             J == {k \in DOMAIN seq : seq[k].wait > 0}
             a == Kept(seq, I)
             b == [n \in DOMAIN new |-> NewItem(new[n])]
             c == Kept(seq, J)
  <1>1. \A k \in DOMAIN seq : seq[k].wait \in Nat /\ seq[k].obj \in Objs \cup {None}
    BY ItemIs, SchedulerAssumption DEF SchedulerAssumption
  <1>2. /\ \A k \in I : k \in DOMAIN seq /\ k \notin J
        /\ \A k \in J : k \in DOMAIN seq
        /\ \A k \in DOMAIN seq : k \in I \/ k \in J
    BY <1>1
  <1>3. I \in SUBSET DOMAIN seq
    OBVIOUS
  <1>4. J \in SUBSET DOMAIN seq
    OBVIOUS
  <1>5. DuePrefix(seq) = a /\ NotDue(seq) = c
    BY DEF DuePrefix, NotDue
  <1> HIDE DEF I, J
  <1>6. PICK g \in [DOMAIN a -> I] :
               /\ \A k \in DOMAIN a : a[k] = seq[g[k]] /\ g[k] >= k
               /\ \A j, k \in DOMAIN a : j < k => g[j] < g[k]
               /\ \A n \in I : \E k \in DOMAIN a : g[k] = n
    BY <1>3, KeptIs, SMTT(30)
  <1>7. PICK h \in [DOMAIN c -> J] :
               /\ \A k \in DOMAIN c : c[k] = seq[h[k]] /\ h[k] >= k
               /\ \A j, k \in DOMAIN c : j < k => h[j] < h[k]
               /\ \A n \in J : \E k \in DOMAIN c : h[k] = n
    BY <1>4, KeptIs, SMTT(30)
  <1>8. a \in Seq(Item) /\ c \in Seq(Item)
    BY <1>3, <1>4, KeptIs
  <1> HIDE DEF a, c
  <1>9. /\ DOMAIN a = 1 .. Len(a) /\ Len(a) \in Nat /\ DOMAIN c = 1 .. Len(c) /\ Len(c) \in Nat
        /\ DOMAIN seq = 1 .. Len(seq) /\ Len(seq) \in Nat
        /\ DOMAIN new = 1 .. Len(new) /\ Len(new) \in Nat /\ \A n \in DOMAIN new : new[n] \in Objs
    BY <1>8
  <1>10. \A n \in DOMAIN new : NewItem(new[n]) \in Item /\ NewItem(new[n]).obj = new[n]
    BY <1>9, SchedulerAssumption DEF NewItem, Item, SchedulerAssumption
  <1>11. b \in Seq(Item) /\ DOMAIN b = DOMAIN new /\ \A n \in DOMAIN b : b[n].obj = new[n]
    BY <1>9, <1>10
  <1> HIDE DEF b
  <1>12. OnceByObj(a)
    <2> SUFFICES ASSUME NEW m \in DOMAIN a, NEW n \in DOMAIN a, a[m].obj = a[n].obj, a[m].obj # None
                 PROVE  m = n
      BY DEF OnceByObj
    <2>1. g[m] \in DOMAIN seq /\ g[n] \in DOMAIN seq /\ a[m] = seq[g[m]] /\ a[n] = seq[g[n]]
      BY <1>2, <1>6
    <2>2. g[m] = g[n] /\ g[m] \in Nat
      BY <1>9, <2>1 DEF OnceByObj
    <2> QED
      BY <1>6, <1>9, <2>2
  <1>13. OnceByObj(c)
    <2> SUFFICES ASSUME NEW m \in DOMAIN c, NEW n \in DOMAIN c, c[m].obj = c[n].obj, c[m].obj # None
                 PROVE  m = n
      BY DEF OnceByObj
    <2>1. h[m] \in DOMAIN seq /\ h[n] \in DOMAIN seq /\ c[m] = seq[h[m]] /\ c[n] = seq[h[n]]
      BY <1>2, <1>7
    <2>2. h[m] = h[n] /\ h[m] \in Nat
      BY <1>9, <2>1 DEF OnceByObj
    <2> QED
      BY <1>7, <1>9, <2>2
  <1>14. OnceByObj(b)
    BY <1>11 DEF OnceByObj, Once
  <1>15. ASSUME NEW o PROVE HasObj(b, o) <=> Contains(new, o)
    BY <1>9, <1>11 DEF HasObj, Contains
  <1>16. ASSUME NEW o PROVE HasObj(a, o) \/ HasObj(c, o) <=> HasObj(seq, o)
    <2>1. ASSUME HasObj(seq, o) PROVE HasObj(a, o) \/ HasObj(c, o)
      <3>1. PICK n \in DOMAIN seq : seq[n].obj = o
        BY <2>1 DEF HasObj
      <3>2. n \in I \/ n \in J
        BY <1>2
      <3>3. CASE n \in I
        BY <1>6, <3>1, <3>3 DEF HasObj
      <3>4. CASE n \in J
        BY <1>7, <3>1, <3>4 DEF HasObj
      <3> QED
        BY <3>2, <3>3, <3>4
    <2>2. HasObj(a, o) => HasObj(seq, o)
      BY <1>2, <1>6 DEF HasObj
    <2>3. HasObj(c, o) => HasObj(seq, o)
      BY <1>2, <1>7 DEF HasObj
    <2> QED
      BY <2>1, <2>2, <2>3
  <1>17. ASSUME NEW o \in Objs PROVE ~(HasObj(a, o) /\ HasObj(c, o))
    <2> SUFFICES ASSUME NEW m \in DOMAIN a, NEW n \in DOMAIN c, a[m].obj = o, c[n].obj = o
                 PROVE  FALSE
      BY DEF HasObj
    <2>1. g[m] \in I /\ h[n] \in J /\ a[m] = seq[g[m]] /\ c[n] = seq[h[n]]
      BY <1>6, <1>7
    <2>2. o # None
      BY SchedulerAssumption DEF SchedulerAssumption
    <2>3. g[m] = h[n]
      BY <1>2, <2>1, <2>2 DEF OnceByObj
    <2> QED
      BY <1>2, <2>1, <2>3
  <1> DEFINE d == a \o b
             w == d \o c
  <1>18. /\ d \in Seq(Item) /\ OnceByObj(d)
         /\ \A o : HasObj(d, o) <=> HasObj(a, o) \/ HasObj(b, o)
    <2>1. d \in Seq(Item)
      BY <1>8, <1>11
    <2>2. \A o \in Objs : ~(HasObj(a, o) /\ HasObj(b, o))
      BY <1>15, <1>16
    <2> QED
      BY <1>8, <1>11, <1>12, <1>14, <2>1, <2>2, JoinedByObj
  <1> HIDE DEF d
  <1>19. /\ w \in Seq(Item) /\ OnceByObj(w)
         /\ \A o : HasObj(w, o) <=> HasObj(d, o) \/ HasObj(c, o)
    <2>1. w \in Seq(Item)
      BY <1>8, <1>18
    <2>2. \A o \in Objs : ~(HasObj(d, o) /\ HasObj(c, o))
      BY <1>15, <1>16, <1>17, <1>18
    <2> QED
      BY <1>8, <1>13, <1>18, <2>1, <2>2, JoinedByObj
  <1> HIDE DEF w
  <1>20. ASSUME NEW o PROVE HasObj(w, o) <=> HasObj(seq, o) \/ Contains(new, o)
    BY <1>15, <1>16, <1>18, <1>19
  <1> QED
    BY <1>5, <1>19, <1>20 DEF w, d, b

LEMMA WantedIsAsked ==
  ASSUME NEW ops \in Seq(Op), NEW o, Wanted(ops, o)
  PROVE  Asked(ops, o)
  BY DEF Wanted, LastAt, Asked

LEMMA GoneIsAsked ==
  ASSUME NEW ops, NEW o \in Gone(ops)
  PROVE  Asked(ops, o)
  <1>1. PICK k \in DOMAIN ops : ops[k] = [reg |-> FALSE, obj |-> o]
    BY DEF Gone
  <1> QED
    BY <1>1 DEF Asked

(* What was pending is carried out: the containers hold what is registered, *)
(* each once.                                                              *)
LEMMA RegistrationIs ==
  ASSUME TypeOK, KindsApart, OneContainer, Alternate(pending), GoneFirst,
         processed = <<>>, current = None,
         NEW queue \in Seq(Item), OnceByObj(queue),
         \A o \in Objs : HasObj(queue, o) <=> HasObj(items, o),
         \A k \in DOMAIN queue : queue[k].obj \notin realTime,
         Registration(queue), UNCHANGED realTime
  PROVE  /\ itemsRT' \in Seq(realTime) /\ Once(itemsRT')
         /\ items' \in Seq(Item) /\ OnceByObj(items')
         /\ \A k \in DOMAIN items' : items'[k].obj \notin realTime
         /\ pending' = <<>>
         /\ \A o \in Objs : o \in Effective <=> Contains(itemsRT', o) \/ HasObj(items', o)
  <1> DEFINE fresh == Fresh(pending)
             rest == Nulled(queue, Gone(pending))
             normal == Without(fresh, realTime)
             fast == Only(fresh, realTime)
             old == Without(itemsRT, Gone(pending))
  <1>1. /\ itemsRT' = old \o fast
        /\ items' = DuePrefix(rest) \o [n \in DOMAIN normal |-> NewItem(normal[n])] \o NotDue(rest)
        /\ pending' = <<>>
    BY DEF Registration, Joined
  <1>2. /\ realTime \subseteq Objs /\ itemsRT \in Seq(realTime) /\ pending \in Seq(Op)
        /\ None \notin Objs /\ Once(itemsRT)
    BY SchedulerAssumption DEF TypeOK, SchedulerAssumption, OneContainer
  <1>3. /\ fresh \in Seq(Objs) /\ Once(fresh)
        /\ \A o : Contains(fresh, o) <=> Wanted(pending, o)
    BY <1>2, FreshIs
  <1> HIDE DEF fresh
  <1>4. /\ normal \in Seq(Objs) /\ Once(normal)
        /\ \A o : Contains(normal, o) <=> Wanted(pending, o) /\ o \notin realTime
        /\ \A k \in DOMAIN normal : normal[k] \notin realTime
    BY <1>3, WithoutIs
  <1>5. /\ fast \in Seq(Objs) /\ Once(fast)
        /\ \A o : Contains(fast, o) <=> Wanted(pending, o) /\ o \in realTime
        /\ \A k \in DOMAIN fast : fast[k] \in realTime
    BY <1>3, OnlyIs
  <1>6. /\ old \in Seq(realTime) /\ Once(old)
        /\ \A o : Contains(old, o) <=> Contains(itemsRT, o) /\ o \notin Gone(pending)
    BY <1>2, WithoutIs
  <1>7. /\ rest \in Seq(Item) /\ OnceByObj(rest) /\ DOMAIN rest = DOMAIN queue
        /\ \A k \in DOMAIN queue : rest[k].obj \in {None, queue[k].obj}
        /\ \A o \in Objs : HasObj(rest, o) <=> HasObj(items, o) /\ o \notin Gone(pending)
    BY NulledIs
  <1> HIDE DEF normal, fast, old, rest
  <1>8. fast \in Seq(realTime)
    <2>1. DOMAIN fast = 1 .. Len(fast) /\ Len(fast) \in Nat /\ fast = [k \in DOMAIN fast |-> fast[k]]
      BY <1>5
    <2> QED
      BY <1>5, <2>1
  <1>9. ASSUME NEW o \in Objs, InLoop(o), Wanted(pending, o) PROVE o \in Gone(pending)
    BY <1>2, <1>9, WantedIsAsked DEF GoneFirst
  <1>10. \A o : ~(Contains(old, o) /\ Contains(fast, o))
    BY <1>2, <1>5, <1>6, <1>9 DEF InLoop, Held
  <1>11. itemsRT' \in Seq(realTime) /\ Once(itemsRT')
    BY <1>1, <1>5, <1>6, <1>8, <1>10, JoinedOnce
  <1>12. \A o : Contains(itemsRT', o) <=> Contains(old, o) \/ Contains(fast, o)
    BY <1>1, <1>6, <1>8, JoinedOnce
  <1>13. \A o \in Objs : ~(HasObj(rest, o) /\ Contains(normal, o))
    BY <1>4, <1>7, <1>9 DEF InLoop, Held
  <1>14. /\ items' \in Seq(Item) /\ OnceByObj(items')
         /\ \A o : HasObj(items', o) <=> HasObj(rest, o) \/ Contains(normal, o)
    BY <1>1, <1>4, <1>7, <1>13, HeapIs
  <1>15. ASSUME NEW k \in DOMAIN items' PROVE items'[k].obj \notin realTime
    <2>1. HasObj(rest, items'[k].obj) \/ Contains(normal, items'[k].obj)
      BY <1>14 DEF HasObj
    <2>2. CASE HasObj(rest, items'[k].obj)
      <3>1. PICK n \in DOMAIN queue : items'[k].obj \in {None, queue[n].obj}
        BY <1>7, <2>2 DEF HasObj
      <3> QED
        BY <1>2, <3>1
    <2>3. CASE Contains(normal, items'[k].obj)
      BY <1>4, <2>3
    <2> QED
      BY <2>1, <2>2, <2>3
  <1>16. ASSUME NEW o \in Objs
         PROVE  o \in Effective <=> Contains(itemsRT', o) \/ HasObj(items', o)
    <2>1. InLoop(o) <=> Contains(itemsRT, o) \/ HasObj(items, o)
      <3>1. ~HasObj(processed, o) /\ current # o
        BY <1>2 DEF HasObj
      <3> QED
        BY <3>1 DEF InLoop, Held
    <2>2. o \in Effective <=> IF Asked(pending, o) THEN Wanted(pending, o) ELSE InLoop(o)
      BY <1>2, EffectiveIs
    <2>3. Contains(itemsRT', o) \/ HasObj(items', o)
            <=> Wanted(pending, o) \/ (InLoop(o) /\ o \notin Gone(pending))
      BY <1>4, <1>5, <1>6, <1>7, <1>12, <1>14, <2>1
    <2>4. CASE Asked(pending, o)
      BY <2>2, <2>3, <2>4 DEF GoneFirst
    <2>5. CASE ~Asked(pending, o)
      BY <1>2, <2>2, <2>3, <2>5, WantedIsAsked, GoneIsAsked
    <2> QED
      BY <2>4, <2>5
  <1> QED
    BY <1>1, <1>11, <1>14, <1>15, <1>16

LEMMA AgedIs ==
  ASSUME NEW seq \in Seq(Item)
  PROVE  LET w == Aged(seq) IN
         /\ w \in Seq(Item) /\ DOMAIN w = DOMAIN seq
         /\ \A k \in DOMAIN seq : w[k].obj = seq[k].obj
  <1> DEFINE w == Aged(seq)
  <1>1. ASSUME NEW k \in DOMAIN seq PROVE w[k] \in Item /\ w[k].obj = seq[k].obj
    <2>1. seq[k] \in Item
      OBVIOUS
    <2>2. w[k] = [seq[k] EXCEPT !.wait = IF @ = 0 THEN 0 ELSE @ - 1]
      BY DEF Aged
    <2>3. seq[k].wait \in 0 .. MaxWait /\ MaxWait \in Nat
      BY <2>1, SchedulerAssumption DEF Item, SchedulerAssumption
    <2>4. (IF seq[k].wait = 0 THEN 0 ELSE seq[k].wait - 1) \in 0 .. MaxWait
      BY <2>3
    <2> QED
      BY <2>1, <2>2, <2>4 DEF Item
  <1>2. w = [k \in DOMAIN seq |-> w[k]] /\ DOMAIN seq = 1 .. Len(seq) /\ Len(seq) \in Nat
    BY DEF Aged
  <1> HIDE DEF w
  <1>3. w \in Seq(Item) /\ DOMAIN w = DOMAIN seq
    BY <1>1, <1>2
  <1> QED
    BY <1>1, <1>3 DEF w

-----------------------------------------------------------------------------
(* The heap and the items that go back to it.                              *)
LEMMA TailIs ==
  ASSUME NEW seq \in Seq(Item), seq # <<>>, OnceByObj(seq)
  PROVE  /\ Tail(seq) \in Seq(Item) /\ Head(seq) \in Item /\ OnceByObj(Tail(seq))
         /\ \A o : HasObj(seq, o) <=> Head(seq).obj = o \/ HasObj(Tail(seq), o)
         /\ Head(seq).obj # None => ~HasObj(Tail(seq), Head(seq).obj)
  <1> DEFINE t == Tail(seq)
  <1>1. /\ DOMAIN seq = 1 .. Len(seq) /\ Len(seq) \in Nat /\ Len(seq) > 0 /\ Head(seq) = seq[1]
        /\ t \in Seq(Item) /\ DOMAIN t = 1 .. Len(seq) - 1
        /\ \A k \in 1 .. Len(seq) - 1 : t[k] = seq[k + 1]
    OBVIOUS
  <1> HIDE DEF t
  <1>2. Head(seq) \in Item
    BY <1>1
  <1>3. \A k \in DOMAIN t : k + 1 \in DOMAIN seq /\ t[k] = seq[k + 1] /\ k + 1 # 1
    BY <1>1
  <1>4. OnceByObj(t)
    <2> SUFFICES ASSUME NEW m \in DOMAIN t, NEW n \in DOMAIN t, t[m].obj = t[n].obj, t[m].obj # None
                 PROVE  m = n
      BY DEF OnceByObj
    <2>1. m + 1 = n + 1
      BY <1>3 DEF OnceByObj
    <2> QED
      BY <1>1, <2>1
  <1>5. ASSUME NEW o PROVE HasObj(seq, o) <=> Head(seq).obj = o \/ HasObj(t, o)
    <2>1. ASSUME NEW k \in DOMAIN seq, k # 1 PROVE k - 1 \in DOMAIN t /\ t[k - 1] = seq[k]
      BY <1>1, <2>1
    <2>2. HasObj(seq, o) => Head(seq).obj = o \/ HasObj(t, o)
      BY <1>1, <2>1 DEF HasObj
    <2>3. HasObj(t, o) => HasObj(seq, o)
      BY <1>3 DEF HasObj
    <2>4. Head(seq).obj = o => HasObj(seq, o)
      BY <1>1 DEF HasObj
    <2> QED
      BY <2>2, <2>3, <2>4
  <1>6. Head(seq).obj # None => ~HasObj(t, Head(seq).obj)
    <2> SUFFICES ASSUME Head(seq).obj # None, NEW k \in DOMAIN t, t[k].obj = Head(seq).obj
                 PROVE  FALSE
      BY DEF HasObj
    <2>1. 1 \in DOMAIN seq /\ k + 1 \in DOMAIN seq /\ seq[1].obj = seq[k + 1].obj /\ k + 1 # 1
      BY <1>1, <1>3
    <2> QED
      BY <1>1, <2>1 DEF OnceByObj
  <1> QED
    BY <1>1, <1>2, <1>4, <1>5, <1>6 DEF t

LEMMA AppendIs ==
  ASSUME NEW seq \in Seq(Item), OnceByObj(seq), NEW e \in Item, ~HasObj(seq, e.obj)
  PROVE  /\ Append(seq, e) \in Seq(Item) /\ OnceByObj(Append(seq, e))
         /\ \A o : HasObj(Append(seq, e), o) <=> HasObj(seq, o) \/ e.obj = o
         /\ \A k \in DOMAIN Append(seq, e) :
               Append(seq, e)[k] = e \/ (k \in DOMAIN seq /\ Append(seq, e)[k] = seq[k])
  <1> DEFINE a == Append(seq, e)
             L == Len(seq) + 1
  <1>1. /\ DOMAIN seq = 1 .. Len(seq) /\ Len(seq) \in Nat
        /\ a \in Seq(Item) /\ DOMAIN a = 1 .. L /\ a[L] = e
        /\ \A k \in DOMAIN seq : a[k] = seq[k]
    OBVIOUS
  <1> HIDE DEF a
  <1>2. /\ L \in DOMAIN a
        /\ \A k \in DOMAIN a : k = L \/ (k \in DOMAIN seq /\ a[k] = seq[k])
        /\ \A k \in DOMAIN seq : k \in DOMAIN a
    BY <1>1
  <1> HIDE DEF L
  <1>3. ASSUME NEW o PROVE HasObj(a, o) <=> HasObj(seq, o) \/ e.obj = o
    BY <1>1, <1>2 DEF HasObj
  <1>4. OnceByObj(a)
    BY <1>1, <1>2 DEF OnceByObj, HasObj
  <1>5. \A k \in DOMAIN a : a[k] = e \/ (k \in DOMAIN seq /\ a[k] = seq[k])
    BY <1>1, <1>2
  <1> QED
    BY <1>1, <1>3, <1>4, <1>5 DEF a

LEMMA FrontIs ==
  ASSUME NEW seq \in Seq(Item), seq # <<>>, OnceByObj(seq)
  PROVE  /\ Front(seq) \in Seq(Item) /\ Last(seq) \in Item /\ OnceByObj(Front(seq))
         /\ \A o : HasObj(seq, o) <=> Last(seq).obj = o \/ HasObj(Front(seq), o)
         /\ Last(seq).obj # None => ~HasObj(Front(seq), Last(seq).obj)
         /\ \A k \in DOMAIN Front(seq) : k \in DOMAIN seq /\ Front(seq)[k] = seq[k]
         /\ \E k \in DOMAIN seq : Last(seq) = seq[k]
  <1> DEFINE f == Front(seq)
             L == Len(seq)
  <1>1. /\ DOMAIN seq = 1 .. L /\ L \in Nat /\ L > 0 /\ Last(seq) = seq[L]
        /\ f \in Seq(Item) /\ DOMAIN f = 1 .. L - 1
        /\ \A k \in 1 .. L - 1 : f[k] = seq[k]
    BY DEF Front, Last
  <1> HIDE DEF f, L
  <1>2. /\ L \in DOMAIN seq /\ Last(seq) \in Item
        /\ \A k \in DOMAIN f : k \in DOMAIN seq /\ f[k] = seq[k] /\ k # L
        /\ \A k \in DOMAIN seq : k = L \/ k \in DOMAIN f
    BY <1>1
  <1>3. ASSUME NEW o PROVE HasObj(seq, o) <=> Last(seq).obj = o \/ HasObj(f, o)
    BY <1>1, <1>2 DEF HasObj
  <1>4. OnceByObj(f)
    BY <1>2 DEF OnceByObj
  <1>5. Last(seq).obj # None => ~HasObj(f, Last(seq).obj)
    BY <1>1, <1>2 DEF HasObj, OnceByObj
  <1> QED
    BY <1>1, <1>2, <1>3, <1>4, <1>5 DEF f

LEMMA InsertIs ==
  ASSUME NEW seq \in Seq(Item), OnceByObj(seq), NEW e \in Item, ~HasObj(seq, e.obj),
         NEW k \in 1 .. Len(seq) + 1
  PROVE  LET w == InsertAt(seq, k, e) IN
         /\ w \in Seq(Item) /\ OnceByObj(w)
         /\ \A o : HasObj(w, o) <=> HasObj(seq, o) \/ e.obj = o
  <1> DEFINE a == SubSeq(seq, 1, k - 1)
             b == <<e>>
             c == SubSeq(seq, k, Len(seq))
  <1>1. DOMAIN seq = 1 .. Len(seq) /\ Len(seq) \in Nat
    OBVIOUS
  <1>2. a \in Seq(Item) /\ DOMAIN a = 1 .. k - 1 /\ \A n \in 1 .. k - 1 : a[n] = seq[n]
    BY <1>1
  <1>3. c \in Seq(Item) /\ DOMAIN c = 1 .. Len(seq) - k + 1
        /\ \A n \in 1 .. Len(seq) - k + 1 : c[n] = seq[k + n - 1]
    BY <1>1
  <1>4. b \in Seq(Item) /\ DOMAIN b = {1} /\ b[1] = e
    OBVIOUS
  <1>5. InsertAt(seq, k, e) = (a \o b) \o c
    BY DEF InsertAt
  <1> HIDE DEF a, b, c
  <1>6. \A n \in DOMAIN a : n \in DOMAIN seq /\ n < k /\ a[n] = seq[n]
    BY <1>1, <1>2
  <1>7. \A n \in DOMAIN c : k + n - 1 \in DOMAIN seq /\ ~(k + n - 1 < k) /\ c[n] = seq[k + n - 1]
    BY <1>1, <1>3
  <1>8. OnceByObj(a) /\ OnceByObj(b) /\ OnceByObj(c)
    <2>1. OnceByObj(c)
      <3> SUFFICES ASSUME NEW m \in DOMAIN c, NEW n \in DOMAIN c, c[m].obj = c[n].obj, c[m].obj # None
                   PROVE  m = n
        BY DEF OnceByObj
      <3>1. k + m - 1 = k + n - 1
        BY <1>7 DEF OnceByObj
      <3> QED
        BY <1>1, <1>3, <3>1
    <2> QED
      BY <1>4, <1>6, <2>1 DEF OnceByObj
  <1>9. ASSUME NEW o PROVE HasObj(b, o) <=> e.obj = o
    BY <1>4 DEF HasObj
  <1>10. ASSUME NEW o PROVE HasObj(seq, o) <=> HasObj(a, o) \/ HasObj(c, o)
    <2>1. HasObj(a, o) \/ HasObj(c, o) => HasObj(seq, o)
      BY <1>6, <1>7 DEF HasObj
    <2>2. ASSUME NEW n \in DOMAIN seq, seq[n].obj = o PROVE HasObj(a, o) \/ HasObj(c, o)
      <3>1. CASE n < k
        <4>1. n \in DOMAIN a /\ a[n] = seq[n]
          BY <1>1, <1>2, <3>1
        <4> QED
          BY <2>2, <4>1 DEF HasObj
      <3>2. CASE ~(n < k)
        <4>1. n - k + 1 \in DOMAIN c /\ c[n - k + 1] = seq[n]
          <5>1. n - k + 1 \in 1 .. Len(seq) - k + 1 /\ k + (n - k + 1) - 1 = n
            BY <1>1, <3>2
          <5> QED
            BY <1>3, <5>1
        <4> QED
          BY <2>2, <4>1 DEF HasObj
      <3> QED
        BY <3>1, <3>2
    <2> QED
      BY <2>1, <2>2 DEF HasObj
  <1>11. ASSUME NEW o \in Objs PROVE ~(HasObj(a, o) /\ HasObj(c, o))
    <2> SUFFICES ASSUME NEW m \in DOMAIN a, NEW n \in DOMAIN c, a[m].obj = o, c[n].obj = o
                 PROVE  FALSE
      BY DEF HasObj
    <2>1. o # None
      BY SchedulerAssumption DEF SchedulerAssumption
    <2>2. m = k + n - 1
      BY <1>6, <1>7, <2>1 DEF OnceByObj
    <2> QED
      BY <1>6, <1>7, <2>2
  <1> DEFINE d == a \o b
             w == d \o c
  <1>12. /\ d \in Seq(Item) /\ OnceByObj(d)
         /\ \A o : HasObj(d, o) <=> HasObj(a, o) \/ HasObj(b, o)
    <2>1. d \in Seq(Item)
      BY <1>2, <1>4
    <2>2. \A o \in Objs : ~(HasObj(a, o) /\ HasObj(b, o))
      BY <1>9, <1>10
    <2> QED
      BY <1>2, <1>4, <1>8, <2>1, <2>2, JoinedByObj
  <1> HIDE DEF d
  <1>13. /\ w \in Seq(Item) /\ OnceByObj(w)
         /\ \A o : HasObj(w, o) <=> HasObj(d, o) \/ HasObj(c, o)
    <2>1. w \in Seq(Item)
      BY <1>3, <1>12
    <2>2. \A o \in Objs : ~(HasObj(d, o) /\ HasObj(c, o))
      BY <1>9, <1>10, <1>11, <1>12
    <2> QED
      BY <1>3, <1>8, <1>12, <2>1, <2>2, JoinedByObj
  <1> HIDE DEF w
  <1>14. ASSUME NEW o PROVE HasObj(w, o) <=> HasObj(seq, o) \/ e.obj = o
    BY <1>9, <1>10, <1>12, <1>13
  <1> QED
    BY <1>5, <1>13, <1>14 DEF w, d

-----------------------------------------------------------------------------
(* What the owners do.                                                     *)

LEMMA Basics ==
  ASSUME IInv
  PROVE  /\ realTime \subseteq Objs /\ None \notin Objs
         /\ pending \in Seq(Op) /\ itemsRT \in Seq(realTime)
         /\ items \in Seq(Item) /\ processed \in Seq(Item)
         /\ current \in Objs \cup {None} /\ needed \subseteq Objs /\ owned \subseteq Objs
         /\ dropped \subseteq owned /\ updated \subseteq Objs
         /\ \A o : Contains(itemsRT, o) => o \in realTime
         /\ \A o \in Objs : HasObj(items, o) \/ HasObj(processed, o) => o \notin realTime
  <1>1. /\ realTime \subseteq Objs /\ None \notin Objs
        /\ pending \in Seq(Op) /\ itemsRT \in Seq(realTime)
        /\ items \in Seq(Item) /\ processed \in Seq(Item)
        /\ current \in Objs \cup {None} /\ needed \subseteq Objs /\ owned \subseteq Objs
        /\ dropped \subseteq owned /\ updated \subseteq Objs
    BY SchedulerAssumption DEF IInv, TypeOK, SchedulerAssumption
  <1>2. \A o : Contains(itemsRT, o) => o \in realTime
    BY <1>1 DEF Contains
  <1>3. \A o \in Objs : HasObj(items, o) \/ HasObj(processed, o) => o \notin realTime
    BY DEF HasObj, IInv, KindsApart
  <1> QED
    BY <1>1, <1>2, <1>3

LEMMA InLoopAsked ==
  ASSUME IInv, NEW o \in Objs, InLoop(o), ~Asked(pending, o)
  PROVE  o \in Effective /\ o \in owned \ dropped
  BY Basics, EffectiveIs DEF IInv

LEMMA RegisterKeeps ==
  ASSUME IInv, NEW o \in Objs, Register(o), UNCHANGED realTime
  PROVE  IInv' /\ Effective' = Effective \cup {o} /\ o \notin Effective /\ UNCHANGED <<current, updated>>
  <1>1. /\ o \notin owned /\ pending' = Append(pending, [reg |-> TRUE, obj |-> o])
        /\ needed' = needed \cup {o} /\ owned' = owned \cup {o}
        /\ UNCHANGED <<realTime, itemsRT, items, processed, loop, dropped, updated>>
    BY DEF Register
  <1>2. o \notin Effective /\ o \notin dropped
    BY <1>1, Basics DEF IInv
  <1>3. Asked(pending, o) => ~Wanted(pending, o)
    BY <1>2, Basics, EffectiveIs
  <1>4. /\ pending' \in Seq(Op)
        /\ Asked(pending', o) /\ Wanted(pending', o)
        /\ \A x \in Objs \ {o} : /\ Asked(pending', x) <=> Asked(pending, x)
                                 /\ Wanted(pending', x) <=> Wanted(pending, x)
        /\ Gone(pending) \subseteq Gone(pending')
        /\ Alternate(pending')
    BY <1>1, <1>3, Basics, AskedMore DEF IInv
  <1>5. ASSUME NEW x \in Objs PROVE InLoop(x)' <=> InLoop(x)
    BY <1>1 DEF InLoop, Held, loop
  <1>6. ~(InLoop(o) /\ ~Asked(pending, o))
    BY <1>2, InLoopAsked
  <1>7. Effective' = Effective \cup {o}
    <2>1. ASSUME NEW x \in Objs PROVE x \in Effective' <=> x \in Effective \/ x = o
      BY <1>4, <1>5, Basics, EffectiveIs, EffectiveNext
    <2> QED
      BY <2>1 DEF Effective
  <1>8. TypeOK'
    BY <1>1, <1>4, Basics DEF IInv, TypeOK, loop
  <1>9. KindsApart' /\ OneContainer' /\ Phases' /\ NotYet'
    BY <1>1 DEF IInv, KindsApart, OneContainer, Phases, NotYet, loop
  <1>10. GoneFirst'
    BY <1>4, <1>5, <1>6 DEF IInv, GoneFirst
  <1>11. NothingPending'
    <2>1. pc \in {"realtime", "normal"} => ~Contains(itemsRT, o) /\ ~HasObj(items, o)
      BY <1>6 DEF IInv, NothingPending, InLoop, Held
    <2> QED
      BY <1>1, <1>4, <2>1 DEF IInv, NothingPending, loop
  <1>12. Effective' = owned' \ dropped'
    BY <1>1, <1>2, <1>7 DEF IInv
  <1> QED
    BY <1>1, <1>2, <1>4, <1>7, <1>8, <1>9, <1>10, <1>11, <1>12 DEF IInv, loop

(* Unregister finds the object and takes it out.                           *)
LEMMA UnregisterFoundKeeps ==
  ASSUME IInv, NEW o \in Objs, Unregister(o), FoundNow(o), UNCHANGED realTime
  PROVE  IInv' /\ Effective' = Effective \ {o} /\ UNCHANGED <<current, updated>>
  <1>1. /\ GameCodeRuns /\ o \in owned
        /\ itemsRT' = Without(itemsRT, {o}) /\ items' = Nulled(items, {o})
        /\ owned' = owned \ {o} /\ dropped' = dropped \ {o}
        /\ UNCHANGED <<realTime, pending, processed, loop, needed, updated>>
    BY DEF Unregister
  <1>2. /\ pc \in {"realtime", "normal"}
        /\ IF o \in realTime THEN Contains(itemsRT, o) ELSE HasObj(items, o)
    BY <1>1 DEF FoundNow, Processing, GameCodeRuns, IInv, Phases
  <1>3. ~Asked(pending, o)
    BY <1>2 DEF IInv, NothingPending
  <1>4. /\ itemsRT' \in Seq(realTime) /\ Once(itemsRT')
        /\ \A x : Contains(itemsRT', x) <=> Contains(itemsRT, x) /\ x # o
        /\ \A k \in DOMAIN itemsRT' : \E n \in DOMAIN itemsRT : n >= k /\ itemsRT'[k] = itemsRT[n]
    <2>1. itemsRT \in Seq(realTime) /\ Once(itemsRT)
      BY Basics DEF IInv, OneContainer
    <2> DEFINE w == Without(itemsRT, {o})
    <2>2. /\ w \in Seq(realTime) /\ Once(w)
          /\ \A x : Contains(w, x) <=> Contains(itemsRT, x) /\ x \notin {o}
          /\ \A k \in DOMAIN w : \E n \in DOMAIN itemsRT : n >= k /\ w[k] = itemsRT[n]
      BY <2>1, WithoutIs
    <2> HIDE DEF w
    <2>3. itemsRT' = w
      BY <1>1 DEF w
    <2> QED
      BY <2>2, <2>3
  <1>5. /\ items' \in Seq(Item) /\ DOMAIN items' = DOMAIN items /\ OnceByObj(items')
        /\ \A k \in DOMAIN items : items'[k].obj \in {None, items[k].obj}
        /\ \A x \in Objs : HasObj(items', x) <=> HasObj(items, x) /\ x # o
    BY <1>1, Basics, NulledIs DEF IInv, OneContainer
  <1>6. ~HasObj(processed, o) /\ ~(current = o /\ pc = "normal")
    <2>1. CASE o \in realTime
      BY <2>1, Basics DEF IInv, KindsApart
    <2>2. CASE o \notin realTime
      BY <1>2, <2>2, Basics DEF IInv, OneContainer
    <2> QED
      BY <2>1, <2>2
  <1>7. ASSUME NEW x \in Objs PROVE InLoop(x)' <=> InLoop(x) /\ x # o
    BY <1>1, <1>4, <1>5, <1>6 DEF InLoop, Held, loop
  <1>8. Effective' = Effective \ {o}
    <2>1. ASSUME NEW x \in Objs PROVE x \in Effective' <=> x \in Effective /\ x # o
      BY <1>1, <1>3, <1>7, Basics, EffectiveIs, EffectiveNext
    <2> QED
      BY <2>1 DEF Effective
  <1>9. TypeOK'
    BY <1>1, <1>4, <1>5, Basics DEF IInv, TypeOK, loop
  <1>10. KindsApart' /\ Phases'
    BY <1>1, <1>5, Basics DEF IInv, KindsApart, Phases, loop
  <1>11. OneContainer'
    BY <1>1, <1>4, <1>5, Basics DEF IInv, OneContainer, loop
  <1>12. Alternate(pending)' /\ GoneFirst' /\ NothingPending'
    BY <1>1, <1>4, <1>5, <1>7 DEF IInv, GoneFirst, NothingPending, loop
  <1>13. NotYet'
    <2>1. ASSUME NEW k \in DOMAIN itemsRT', pc = "realtime",
                 k >= (IF current = None THEN it ELSE it + 1)
          PROVE  itemsRT'[k] \notin updated
      <3>1. PICK n \in DOMAIN itemsRT : n >= k /\ itemsRT'[k] = itemsRT[n]
        BY <1>4
      <3>2. k \in Nat /\ n \in Nat /\ it \in Nat
        BY <1>4, Basics DEF IInv, TypeOK
      <3>3. n >= (IF current = None THEN it ELSE it + 1)
        BY <2>1, <3>1, <3>2
      <3> QED
        BY <2>1, <3>1, <3>3 DEF IInv, NotYet
    <2>2. ASSUME NEW k \in DOMAIN items', pc \in {"realtime", "normal"}
          PROVE  items'[k].obj \notin updated
      BY <1>5, <2>2, Basics DEF IInv, NotYet
    <2> QED
      BY <1>1, <2>1, <2>2 DEF NotYet, loop
  <1>14. Effective' = owned' \ dropped'
    BY <1>1, <1>8 DEF IInv
  <1> QED
    BY <1>1, <1>8, <1>9, <1>10, <1>11, <1>12, <1>13, <1>14 DEF IInv, loop

(* Unregister queues the removal.                                          *)
LEMMA UnregisterQueuedKeeps ==
  ASSUME IInv, NEW o \in Objs, Unregister(o), ~FoundNow(o), UNCHANGED realTime
  PROVE  IInv' /\ Effective' = Effective \ {o} /\ UNCHANGED <<current, updated>>
  <1>1. /\ GameCodeRuns /\ o \in owned
        /\ pending' = Append(pending, [reg |-> FALSE, obj |-> o])
        /\ owned' = owned \ {o} /\ dropped' = dropped \ {o}
        /\ UNCHANGED <<realTime, itemsRT, items, processed, loop, needed, updated>>
    BY DEF Unregister
  <1>2. pc \in {"realtime", "normal"} => ~Contains(itemsRT, o) /\ ~HasObj(items, o)
    BY Basics DEF FoundNow, Processing
  <1>3. /\ pending' \in Seq(Op)
        /\ Asked(pending', o) /\ ~Wanted(pending', o)
        /\ \A x \in Objs \ {o} : /\ Asked(pending', x) <=> Asked(pending, x)
                                 /\ Wanted(pending', x) <=> Wanted(pending, x)
        /\ Gone(pending) \subseteq Gone(pending')
        /\ ~Asked(pending, o) => o \in Gone(pending')
        /\ Alternate(pending')
    BY <1>1, Basics, AskedMore DEF IInv
  <1>4. ASSUME NEW x \in Objs PROVE InLoop(x)' <=> InLoop(x)
    BY <1>1 DEF InLoop, Held, loop
  <1>5. Effective' = Effective \ {o}
    <2>1. ASSUME NEW x \in Objs PROVE x \in Effective' <=> x \in Effective /\ x # o
      BY <1>3, <1>4, Basics, EffectiveIs, EffectiveNext
    <2> QED
      BY <2>1 DEF Effective
  <1>6. TypeOK'
    BY <1>1, <1>3, Basics DEF IInv, TypeOK, loop
  <1>7. KindsApart' /\ OneContainer' /\ Phases' /\ NotYet'
    BY <1>1 DEF IInv, KindsApart, OneContainer, Phases, NotYet, loop
  <1>8. GoneFirst'
    BY <1>3, <1>4 DEF IInv, GoneFirst
  <1>9. NothingPending'
    BY <1>1, <1>2, <1>3 DEF IInv, NothingPending, loop
  <1>10. Effective' = owned' \ dropped'
    BY <1>1, <1>5 DEF IInv
  <1> QED
    BY <1>1, <1>3, <1>5, <1>6, <1>7, <1>8, <1>9, <1>10 DEF IInv, loop

(* Steps that leave the pending operations and the set of what is in the   *)
(* loop as they are.                                                       *)
LEMMA SameLoop ==
  ASSUME IInv, UNCHANGED pending, \A x \in Objs : InLoop(x)' <=> InLoop(x)
  PROVE  Effective' = Effective /\ GoneFirst' /\ Alternate(pending)'
  <1>1. ASSUME NEW x \in Objs PROVE x \in Effective' <=> x \in Effective
    BY Basics, EffectiveIs, EffectiveNext
  <1>2. Effective' = Effective
    BY <1>1 DEF Effective
  <1> QED
    BY <1>2 DEF IInv, GoneFirst

LEMMA StutterKeeps ==
  ASSUME IInv, UNCHANGED <<realTime, itemsRT, items, processed, pending, loop, history>>,
         needed' \subseteq Objs
  PROVE  IInv' /\ Effective' = Effective /\ UNCHANGED <<current, updated>>
  <1>1. \A x \in Objs : InLoop(x)' <=> InLoop(x)
    BY DEF InLoop, Held, loop
  <1>2. Effective' = Effective /\ GoneFirst' /\ Alternate(pending)'
    BY <1>1, SameLoop
  <1>3. TypeOK'
    BY DEF IInv, TypeOK, loop, history
  <1>4. KindsApart' /\ OneContainer' /\ Phases' /\ NotYet' /\ NothingPending'
    BY DEF IInv, KindsApart, OneContainer, Phases, NotYet, NothingPending, loop, history
  <1> QED
    BY <1>2, <1>3, <1>4 DEF IInv, loop, history

-----------------------------------------------------------------------------
(* Update.                                                                 *)

(* Both calls of internal_Registration leave what is registered as it is.  *)
LEMMA RegistrationKeeps ==
  ASSUME IInv, processed = <<>>, current = None, NEW queue \in Seq(Item),
         DOMAIN queue = DOMAIN items, \A k \in DOMAIN items : queue[k].obj = items[k].obj,
         Registration(queue), UNCHANGED <<realTime, processed, current, owned, dropped>>
  PROVE  /\ itemsRT' \in Seq(realTime) /\ items' \in Seq(Item) /\ pending' = <<>>
         /\ KindsApart' /\ OneContainer' /\ Alternate(pending)' /\ GoneFirst' /\ NothingPending'
         /\ Effective' = Effective /\ Effective' = owned' \ dropped'
  <1>1. OnceByObj(queue) /\ \A o : HasObj(queue, o) <=> HasObj(items, o)
    BY DEF IInv, OneContainer, OnceByObj, HasObj
  <1>2. \A k \in DOMAIN queue : queue[k].obj \notin realTime
    BY DEF IInv, KindsApart
  <1>3. /\ itemsRT' \in Seq(realTime) /\ Once(itemsRT')
        /\ items' \in Seq(Item) /\ OnceByObj(items')
        /\ \A k \in DOMAIN items' : items'[k].obj \notin realTime
        /\ pending' = <<>>
        /\ \A o \in Objs : o \in Effective <=> Contains(itemsRT', o) \/ HasObj(items', o)
    BY <1>1, <1>2, RegistrationIs DEF IInv
  <1>4. pending' \in Seq(Op) /\ \A o : ~Asked(pending', o)
    BY <1>3 DEF Asked
  <1>5. \A o : ~HasObj(processed', o)
    BY DEF HasObj
  <1>6. ASSUME NEW o \in Objs PROVE InLoop(o)' <=> o \in Effective
    BY <1>3, <1>5, Basics DEF InLoop, Held
  <1>7. Effective' = Effective
    <2>1. ASSUME NEW o \in Objs PROVE o \in Effective' <=> o \in Effective
      BY <1>4, <1>6, EffectiveNext
    <2> QED
      BY <2>1 DEF Effective
  <1>8. KindsApart'
    <2>1. None \notin realTime
      BY Basics
    <2> QED
      BY <1>3, <2>1 DEF KindsApart
  <1>9. OneContainer'
    BY <1>3, <1>5 DEF OneContainer, OnceByObj
  <1>10. Alternate(pending)' /\ GoneFirst' /\ NothingPending'
    BY <1>3, <1>4 DEF Alternate, GoneFirst, NothingPending
  <1> QED
    BY <1>3, <1>7, <1>8, <1>9, <1>10 DEF IInv

LEMMA BeginFrameKeeps ==
  ASSUME IInv, BeginFrame, UNCHANGED realTime
  PROVE  IInv' /\ Effective' = Effective /\ current = None /\ current' = None /\ updated' = {}
  <1>1. /\ pc = "idle" /\ Registration(Aged(items)) /\ pc' = "realtime" /\ it' = 1 /\ updated' = {}
        /\ UNCHANGED <<realTime, processed, i, current, needed, owned, dropped>>
    BY DEF BeginFrame
  <1>2. current = None /\ processed = <<>>
    BY <1>1 DEF IInv, Phases
  <1>3. /\ Aged(items) \in Seq(Item) /\ DOMAIN Aged(items) = DOMAIN items
        /\ \A k \in DOMAIN items : Aged(items)[k].obj = items[k].obj
    BY AgedIs, Basics
  <1>4. /\ itemsRT' \in Seq(realTime) /\ items' \in Seq(Item) /\ pending' = <<>>
        /\ KindsApart' /\ OneContainer' /\ Alternate(pending)' /\ GoneFirst' /\ NothingPending'
        /\ Effective' = Effective /\ Effective' = owned' \ dropped'
    BY <1>1, <1>2, <1>3, RegistrationKeeps
  <1>5. TypeOK'
    BY <1>1, <1>4 DEF IInv, TypeOK
  <1>6. Phases' /\ NotYet'
    BY <1>1, <1>2 DEF Phases, NotYet
  <1> QED
    BY <1>1, <1>2, <1>4, <1>5, <1>6 DEF IInv

LEMMA EndFrameKeeps ==
  ASSUME IInv, EndFrame, UNCHANGED realTime
  PROVE  IInv' /\ Effective' = Effective /\ UNCHANGED <<current, updated>>
  <1>1. /\ pc = "pushback" /\ processed = <<>> /\ Registration(items) /\ pc' = "idle"
        /\ UNCHANGED <<realTime, processed, it, i, current, needed, owned, dropped, updated>>
    BY DEF EndFrame, history
  <1>2. current = None
    BY <1>1 DEF IInv, Phases
  <1>3. /\ itemsRT' \in Seq(realTime) /\ items' \in Seq(Item) /\ pending' = <<>>
        /\ KindsApart' /\ OneContainer' /\ Alternate(pending)' /\ GoneFirst' /\ NothingPending'
        /\ Effective' = Effective /\ Effective' = owned' \ dropped'
    BY <1>1, <1>2, Basics, RegistrationKeeps
  <1>4. TypeOK'
    BY <1>1, <1>3 DEF IInv, TypeOK
  <1>5. Phases' /\ NotYet'
    BY <1>1, <1>2 DEF Phases, NotYet
  <1> QED
    BY <1>1, <1>3, <1>4, <1>5 DEF IInv

(* An update begins, as ScheduleRegistry sees it.                          *)
Begins(o) ==
    /\ current = None /\ current' = o
    /\ o \in Effective \ updated /\ updated' = updated \cup {o}

LEMMA RealTimeStepKeeps ==
  ASSUME IInv, RealTimeStep, UNCHANGED realTime
  PROVE  /\ IInv' /\ Effective' = Effective
         /\ UNCHANGED <<current, updated>> \/ \E o \in Objs : Begins(o)
  <1> DEFINE o == itemsRT[it]
  <1>1. /\ pc = "realtime" /\ current = None /\ it <= Len(itemsRT)
        /\ UNCHANGED <<realTime, itemsRT, items, processed, pending, pc, i, needed, owned, dropped>>
    BY DEF RealTimeStep
  <1>2. it \in DOMAIN itemsRT /\ it \in Nat /\ DOMAIN itemsRT \subseteq Nat
    BY <1>1, Basics DEF IInv, TypeOK
  <1>3. o \in realTime /\ o \in Objs /\ Contains(itemsRT, o)
    BY <1>2, Basics DEF Contains
  <1> HIDE DEF o
  <1>4. current' \in Objs \cup {None}
    BY <1>1, <1>3 DEF RealTimeStep, BeginUpdate, SkipRealTime, o
  <1>5. ASSUME NEW x \in Objs PROVE InLoop(x)' <=> InLoop(x)
    BY <1>1 DEF InLoop, Held
  <1>6. Effective' = Effective /\ GoneFirst' /\ Alternate(pending)'
    BY <1>1, <1>5, SameLoop
  <1>7. KindsApart' /\ OneContainer' /\ Phases' /\ NothingPending'
    BY <1>1 DEF IInv, KindsApart, OneContainer, Phases, NothingPending
  <1>8. Effective' = owned' \ dropped'
    BY <1>1, <1>6 DEF IInv
  <1>9. CASE o \in needed
    <2>1. current' = o /\ updated' = updated \cup {o} /\ it' = it
      BY <1>9 DEF RealTimeStep, BeginUpdate, o
    <2>2. o \in Effective
      BY <1>1, <1>3, InLoopAsked DEF InLoop, Held, IInv, NothingPending
    <2>3. o \notin updated
      BY <1>1, <1>2 DEF IInv, NotYet, o
    <2>4. TypeOK'
      BY <1>1, <1>3, <2>1 DEF IInv, TypeOK
    <2>5. \A k \in DOMAIN itemsRT : k >= it + 1 => itemsRT[k] \notin updated'
      <3> SUFFICES ASSUME NEW k \in DOMAIN itemsRT, k >= it + 1 PROVE itemsRT[k] \notin updated'
        OBVIOUS
      <3>1. k >= it /\ k # it
        BY <1>2
      <3>2. itemsRT[k] \notin updated
        BY <1>1, <3>1 DEF IInv, NotYet
      <3>3. itemsRT[k] # o
        BY <1>2, <3>1 DEF IInv, OneContainer, Once, o
      <3> QED
        BY <2>1, <3>2, <3>3
    <2>6. \A k \in DOMAIN items : items[k].obj \notin updated'
      BY <1>1, <1>3, <2>1 DEF IInv, NotYet, KindsApart
    <2>7. current' # None
      BY <1>3, <2>1, Basics
    <2>8. NotYet'
      BY <1>1, <2>1, <2>5, <2>6, <2>7 DEF NotYet
    <2> QED
      BY <1>1, <1>3, <1>6, <1>7, <1>8, <2>1, <2>2, <2>3, <2>4, <2>8 DEF IInv, Begins
  <1>10. CASE o \notin needed
    <2>1. it' = it + 1 /\ UNCHANGED <<current, updated>>
      BY <1>10 DEF RealTimeStep, SkipRealTime, o
    <2>2. TypeOK'
      BY <1>1, <1>2, <2>1 DEF IInv, TypeOK
    <2>3. \A k \in DOMAIN itemsRT : k >= it + 1 => itemsRT[k] \notin updated
      <3>1. \A k \in DOMAIN itemsRT : k >= it + 1 => k >= it
        BY <1>2
      <3> QED
        BY <1>1, <3>1 DEF IInv, NotYet
    <2>4. NotYet'
      BY <1>1, <2>1, <2>3 DEF IInv, NotYet
    <2> QED
      BY <1>6, <1>7, <1>8, <2>1, <2>2, <2>4 DEF IInv
  <1> QED
    BY <1>9, <1>10

LEMMA RealTimeReturnKeeps ==
  ASSUME IInv, RealTimeReturn, UNCHANGED realTime
  PROVE  IInv' /\ Effective' = Effective /\ current # None /\ current' = None /\ updated' = updated
  <1>1. /\ pc = "realtime" /\ current # None /\ current' = None /\ it' = it + 1
        /\ UNCHANGED <<realTime, itemsRT, items, processed, pending, pc, i, needed, owned, dropped, updated>>
    BY DEF RealTimeReturn, history
  <1>2. \A x \in Objs : InLoop(x)' <=> InLoop(x)
    BY <1>1 DEF InLoop, Held
  <1>3. Effective' = Effective /\ GoneFirst' /\ Alternate(pending)'
    BY <1>1, <1>2, SameLoop
  <1>4. TypeOK'
    BY <1>1 DEF IInv, TypeOK
  <1>5. KindsApart' /\ OneContainer' /\ Phases' /\ NothingPending' /\ NotYet'
    BY <1>1 DEF IInv, KindsApart, OneContainer, Phases, NothingPending, NotYet
  <1> QED
    BY <1>1, <1>3, <1>4, <1>5 DEF IInv

LEMMA RealTimeDoneKeeps ==
  ASSUME IInv, RealTimeDone, UNCHANGED realTime
  PROVE  IInv' /\ Effective' = Effective /\ UNCHANGED <<current, updated>>
  <1>1. /\ pc = "realtime" /\ current = None /\ pc' = "normal" /\ i' = 0
        /\ UNCHANGED <<realTime, itemsRT, items, processed, pending, it, current, needed, owned, dropped, updated>>
    BY DEF RealTimeDone, history
  <1>2. \A x \in Objs : InLoop(x)' <=> InLoop(x)
    BY <1>1, Basics DEF InLoop, Held
  <1>3. Effective' = Effective /\ GoneFirst' /\ Alternate(pending)'
    BY <1>1, <1>2, SameLoop
  <1>4. TypeOK'
    <2>1. 0 \in 0 .. Period - 1
      BY SchedulerAssumption DEF SchedulerAssumption
    <2> QED
      BY <1>1, <2>1 DEF IInv, TypeOK
  <1>5. None \notin realTime
    BY Basics
  <1>6. KindsApart' /\ OneContainer' /\ Phases' /\ NothingPending' /\ NotYet'
    BY <1>1, <1>5 DEF IInv, KindsApart, OneContainer, Phases, NothingPending, NotYet
  <1> QED
    BY <1>1, <1>3, <1>4, <1>6 DEF IInv

LEMMA Iteration ==
  ASSUME IInv
  PROVE  (i + 1) % Period \in 0 .. Period - 1
  <1>1. Period \in Nat \ {0} /\ i + 1 \in Nat
    BY SchedulerAssumption DEF SchedulerAssumption, IInv, TypeOK
  <1> QED
    BY <1>1

(* Top() is popped.                                                        *)
LEMMA PoppedIs ==
  ASSUME IInv, pc = "normal", current = None, items # <<>>, items' = Tail(items)
  PROVE  LET o == Head(items).obj IN
         /\ items' \in Seq(Item) /\ OnceByObj(items') /\ o \in Objs \cup {None}
         /\ o \notin realTime /\ o \notin updated
         /\ \A x : HasObj(items, x) <=> o = x \/ HasObj(items', x)
         /\ o \in Objs => ~HasObj(items', o) /\ ~HasObj(processed, o) /\ ~Asked(pending, o)
                          /\ o \in Effective
         /\ \A k \in DOMAIN items' : items'[k].obj \notin realTime \cup updated
                                     /\ (o \in Objs => items'[k].obj # o)
  <1> DEFINE o == Head(items).obj
  <1>1. /\ items' \in Seq(Item) /\ OnceByObj(items') /\ Head(items) \in Item
        /\ \A x : HasObj(items, x) <=> o = x \/ HasObj(items', x)
        /\ o # None => ~HasObj(items', o)
    BY Basics, TailIs DEF IInv, OneContainer
  <1>2. \A x : HasObj(items, x) => x \notin realTime /\ x \notin updated
    BY DEF HasObj, IInv, KindsApart, NotYet
  <1>3. o \in Objs \cup {None} /\ (o \in Objs => o # None)
    BY <1>1, Basics DEF Item
  <1> HIDE DEF o
  <1>4. ASSUME o \in Objs PROVE ~HasObj(items', o) /\ ~HasObj(processed, o) /\ ~Asked(pending, o)
                                /\ o \in Effective
    <2>1. HasObj(items, o)
      BY <1>1
    <2>2. ~HasObj(processed, o) /\ ~Asked(pending, o)
      BY <1>4, <2>1 DEF IInv, OneContainer, NothingPending
    <2>3. o \in Effective
      BY <1>4, <2>1, <2>2, InLoopAsked DEF InLoop, Held
    <2> QED
      BY <1>1, <1>3, <1>4, <2>2, <2>3
  <1>5. ASSUME NEW k \in DOMAIN items'
        PROVE  items'[k].obj \notin realTime \cup updated /\ (o \in Objs => items'[k].obj # o)
    <2>1. HasObj(items', items'[k].obj)
      BY DEF HasObj
    <2> QED
      BY <1>1, <1>2, <1>4, <2>1
  <1> QED
    BY <1>1, <1>2, <1>3, <1>4, <1>5 DEF o

LEMMA NormalUpdateKeeps ==
  ASSUME IInv, NormalStep, Head(items).obj \in needed, UNCHANGED realTime
  PROVE  IInv' /\ Effective' = Effective /\ \E o \in Objs : Begins(o)
  <1> DEFINE o == Head(items).obj
  <1>1. /\ pc = "normal" /\ current = None /\ items # <<>> /\ items' = Tail(items)
        /\ current' = o /\ updated' = updated \cup {o}
        /\ UNCHANGED <<realTime, itemsRT, processed, pending, pc, it, i, needed, owned, dropped>>
    BY DEF NormalStep, Due, BeginUpdate
  <1>2. o \in Objs /\ o # None
    BY Basics
  <1>3. /\ items' \in Seq(Item) /\ OnceByObj(items') /\ o \notin realTime /\ o \notin updated
        /\ \A x : HasObj(items, x) <=> o = x \/ HasObj(items', x)
        /\ ~HasObj(items', o) /\ ~HasObj(processed, o) /\ o \in Effective
        /\ \A k \in DOMAIN items' : items'[k].obj \notin realTime \cup updated /\ items'[k].obj # o
    BY <1>1, <1>2, PoppedIs
  <1> HIDE DEF o
  <1>4. ASSUME NEW x \in Objs PROVE InLoop(x)' <=> InLoop(x)
    BY <1>1, <1>2, <1>3, Basics DEF InLoop, Held
  <1>5. Effective' = Effective /\ GoneFirst' /\ Alternate(pending)'
    BY <1>1, <1>4, SameLoop
  <1>6. TypeOK'
    BY <1>1, <1>2, <1>3 DEF IInv, TypeOK
  <1>7. KindsApart' /\ Phases' /\ NothingPending' /\ NotYet'
    BY <1>1, <1>3 DEF IInv, KindsApart, Phases, NothingPending, NotYet
  <1>8. OneContainer'
    BY <1>1, <1>3 DEF IInv, OneContainer
  <1>9. Begins(o)
    BY <1>1, <1>3 DEF Begins
  <1> QED
    BY <1>1, <1>2, <1>5, <1>6, <1>7, <1>8, <1>9 DEF IInv

LEMMA NormalDropKeeps ==
  ASSUME IInv, NormalStep, Head(items).obj \notin needed, UNCHANGED realTime
  PROVE  /\ IInv' /\ current = None /\ UNCHANGED <<current, updated>>
         /\ Effective' = Effective \/ \E o \in Effective : Effective' = Effective \ {o}
  <1> DEFINE o == Head(items).obj
  <1>1. /\ pc = "normal" /\ current = None /\ items # <<>> /\ items' = Tail(items)
        /\ i' = (i + 1) % Period /\ dropped' = dropped \cup ({o} \cap owned)
        /\ UNCHANGED <<realTime, itemsRT, processed, pending, pc, it, current, needed, owned, updated>>
    BY DEF NormalStep, Due
  <1>2. /\ items' \in Seq(Item) /\ OnceByObj(items') /\ o \in Objs \cup {None}
        /\ o \notin realTime
        /\ \A x : HasObj(items, x) <=> o = x \/ HasObj(items', x)
        /\ o \in Objs => ~HasObj(items', o) /\ ~HasObj(processed, o) /\ ~Asked(pending, o)
                         /\ o \in Effective
        /\ \A k \in DOMAIN items' : items'[k].obj \notin realTime \cup updated
    BY <1>1, PoppedIs
  <1> HIDE DEF o
  <1>3. ASSUME NEW x \in Objs PROVE InLoop(x)' <=> InLoop(x) /\ x # o
    BY <1>1, <1>2, Basics DEF InLoop, Held
  <1>4. Effective' = Effective \ {o}
    <2>1. ASSUME NEW x \in Objs PROVE x \in Effective' <=> x \in Effective /\ x # o
      BY <1>1, <1>2, <1>3, Basics, EffectiveIs, EffectiveNext
    <2> QED
      BY <2>1 DEF Effective
  <1>5. TypeOK'
    <2>1. dropped' \subseteq owned
      BY <1>1, Basics
    <2> QED
      BY <1>1, <1>2, <2>1, Iteration DEF IInv, TypeOK
  <1>6. KindsApart' /\ Phases' /\ NothingPending' /\ NotYet' /\ OneContainer'
    BY <1>1, <1>2 DEF IInv, KindsApart, Phases, NothingPending, NotYet, OneContainer
  <1>7. Alternate(pending)' /\ GoneFirst'
    BY <1>1, <1>3 DEF IInv, GoneFirst
  <1>8. Effective' = owned' \ dropped'
    BY <1>1, <1>4 DEF IInv
  <1>9. o \in Objs => o \in Effective
    BY <1>2
  <1>10. o \notin Objs => Effective' = Effective
    BY <1>4 DEF Effective
  <1> QED
    BY <1>1, <1>4, <1>5, <1>6, <1>7, <1>8, <1>9, <1>10 DEF IInv

(* The object that is updated in the loop is in no container.              *)
LEMMA UpdatedIs ==
  ASSUME IInv, pc = "normal", current # None
  PROVE  /\ current \in Objs \ realTime /\ ~Contains(itemsRT, current)
         /\ ~HasObj(items, current) /\ ~HasObj(processed, current)
         /\ InLoop(current)
  BY Basics DEF IInv, KindsApart, OneContainer, InLoop, Held

LEMMA NormalReturnKeeps ==
  ASSUME IInv, NormalReturn, UNCHANGED realTime
  PROVE  IInv' /\ Effective' = Effective /\ current # None /\ current' = None /\ updated' = updated
  <1>1. /\ pc = "normal" /\ current # None /\ current' = None /\ i' = (i + 1) % Period
        /\ pc' \in {"normal", "pushback"}
        /\ UNCHANGED <<realTime, itemsRT, items, pending, it, needed, owned, dropped, updated>>
    BY DEF NormalReturn, Requeued, history
  <1>2. PICK w \in 1 .. MaxWait : processed' = Append(processed, [obj |-> current, wait |-> w])
    BY DEF NormalReturn, Requeued
  <1>3. /\ current \in Objs \ realTime /\ ~Contains(itemsRT, current)
        /\ ~HasObj(items, current) /\ ~HasObj(processed, current)
    BY <1>1, UpdatedIs
  <1> DEFINE e == [obj |-> current, wait |-> w]
  <1>4. e \in Item /\ e.obj = current
    <2>1. w \in 0 .. MaxWait
      BY <1>2, SchedulerAssumption DEF SchedulerAssumption
    <2> QED
      BY <1>3, <2>1 DEF Item
  <1>5. processed' = Append(processed, e)
    BY <1>2
  <1> HIDE DEF e
  <1>6. /\ processed' \in Seq(Item) /\ OnceByObj(processed')
        /\ \A x : HasObj(processed', x) <=> HasObj(processed, x) \/ current = x
        /\ \A k \in DOMAIN processed' :
              processed'[k] = e \/ (k \in DOMAIN processed /\ processed'[k] = processed[k])
    <2>1. OnceByObj(processed) /\ ~HasObj(processed, e.obj)
      BY <1>3, <1>4 DEF IInv, OneContainer
    <2> QED
      BY <1>4, <1>5, <2>1, Basics, AppendIs
  <1>7. \A x \in Objs : InLoop(x)' <=> InLoop(x)
    BY <1>1, <1>6, Basics DEF InLoop, Held
  <1>8. Effective' = Effective /\ GoneFirst' /\ Alternate(pending)'
    BY <1>1, <1>7, SameLoop
  <1>9. TypeOK'
    BY <1>1, <1>6, Iteration DEF IInv, TypeOK
  <1>10. KindsApart'
    <2>1. ASSUME NEW k \in DOMAIN processed' PROVE processed'[k].obj \in Objs \ realTime
      BY <1>3, <1>4, <1>6 DEF IInv, KindsApart
    <2>2. None \notin realTime
      BY Basics
    <2> QED
      BY <1>1, <2>1, <2>2 DEF IInv, KindsApart
  <1>11. OneContainer'
    BY <1>1, <1>3, <1>6 DEF IInv, OneContainer
  <1>12. Phases' /\ NothingPending' /\ NotYet'
    BY <1>1 DEF IInv, Phases, NothingPending, NotYet
  <1> QED
    BY <1>1, <1>8, <1>9, <1>10, <1>11, <1>12 DEF IInv

LEMMA NormalFaultKeeps ==
  ASSUME IInv, NormalFault, UNCHANGED realTime
  PROVE  /\ IInv' /\ current # None /\ current' = None /\ updated' = updated
         /\ Effective' \in {Effective, Effective \ {current}}
  <1>1. /\ pc = "normal" /\ current # None /\ current' = None /\ i' = (i + 1) % Period
        /\ dropped' = dropped \cup Abandoned(current)
        /\ UNCHANGED <<realTime, itemsRT, items, processed, pending, pc, it, needed, owned, updated>>
    BY DEF NormalFault
  <1>2. /\ current \in Objs \ realTime /\ ~Contains(itemsRT, current)
        /\ ~HasObj(items, current) /\ ~HasObj(processed, current) /\ InLoop(current)
    BY <1>1, UpdatedIs
  <1>3. ASSUME NEW x \in Objs PROVE InLoop(x)' <=> InLoop(x) /\ x # current
    BY <1>1, <1>2, Basics DEF InLoop, Held
  <1>4. Abandoned(current) = IF Asked(pending, current) THEN {} ELSE {current} \cap owned
    BY DEF Abandoned, Asked
  <1>5. Effective' = Effective \ Abandoned(current)
    <2>1. ~Asked(pending, current) => current \in owned
      BY <1>2, InLoopAsked
    <2>2. ASSUME NEW x \in Objs PROVE x \in Effective' <=> x \in Effective /\ x \notin Abandoned(current)
      BY <1>1, <1>3, <1>4, <2>1, Basics, EffectiveIs, EffectiveNext
    <2> QED
      BY <2>2 DEF Effective
  <1>6. TypeOK'
    <2>1. dropped' \subseteq owned
      BY <1>1, <1>4, Basics
    <2> QED
      BY <1>1, <2>1, Iteration DEF IInv, TypeOK
  <1>7. KindsApart' /\ OneContainer' /\ Phases' /\ NothingPending' /\ NotYet'
    <2>1. None \notin realTime
      BY Basics
    <2> QED
      BY <1>1, <2>1 DEF IInv, KindsApart, OneContainer, Phases, NothingPending, NotYet
  <1>8. Alternate(pending)' /\ GoneFirst'
    BY <1>1, <1>3 DEF IInv, GoneFirst
  <1>9. Effective' = owned' \ dropped'
    BY <1>1, <1>5 DEF IInv
  <1>10. Effective' \in {Effective, Effective \ {current}}
    <2>1. ~Asked(pending, current) => current \in owned
      BY <1>2, InLoopAsked
    <2>2. Abandoned(current) = {} \/ Abandoned(current) = {current}
      BY <1>4, <2>1
    <2> QED
      BY <1>5, <2>2
  <1> QED
    BY <1>1, <1>6, <1>7, <1>8, <1>9, <1>10 DEF IInv

LEMMA NeededFaultKeeps ==
  ASSUME IInv, NeededFault, UNCHANGED realTime
  PROVE  IInv' /\ Effective' = Effective /\ UNCHANGED <<current, updated>>
  <1>1. /\ i' = (i + 1) % Period
        /\ UNCHANGED <<realTime, itemsRT, items, processed, pending, pc, it, current, needed,
                      owned, dropped, updated>>
    BY DEF NeededFault, history
  <1>2. \A x \in Objs : InLoop(x)' <=> InLoop(x)
    BY <1>1 DEF InLoop, Held
  <1>3. Effective' = Effective /\ GoneFirst' /\ Alternate(pending)'
    BY <1>1, <1>2, SameLoop
  <1>4. TypeOK'
    BY <1>1, Iteration DEF IInv, TypeOK
  <1>5. KindsApart' /\ OneContainer' /\ Phases' /\ NothingPending' /\ NotYet'
    BY <1>1 DEF IInv, KindsApart, OneContainer, Phases, NothingPending, NotYet
  <1> QED
    BY <1>1, <1>3, <1>4, <1>5 DEF IInv

LEMMA NormalDoneKeeps ==
  ASSUME IInv, NormalDone, UNCHANGED realTime
  PROVE  IInv' /\ Effective' = Effective /\ UNCHANGED <<current, updated>>
  <1>1. /\ pc = "normal" /\ current = None /\ pc' = "pushback"
        /\ UNCHANGED <<realTime, itemsRT, items, processed, pending, it, i, current, needed, owned, dropped, updated>>
    BY DEF NormalDone, history
  <1>2. \A x \in Objs : InLoop(x)' <=> InLoop(x)
    BY <1>1, Basics DEF InLoop, Held
  <1>3. Effective' = Effective /\ GoneFirst' /\ Alternate(pending)'
    BY <1>1, <1>2, SameLoop
  <1>4. TypeOK'
    BY <1>1 DEF IInv, TypeOK
  <1>5. KindsApart' /\ OneContainer' /\ Phases' /\ NothingPending' /\ NotYet'
    BY <1>1 DEF IInv, KindsApart, OneContainer, Phases, NothingPending, NotYet
  <1> QED
    BY <1>1, <1>3, <1>4, <1>5 DEF IInv

LEMMA PushBackKeeps ==
  ASSUME IInv, PushBack, UNCHANGED realTime
  PROVE  IInv' /\ Effective' = Effective /\ UNCHANGED <<current, updated>>
  <1> DEFINE e == Last(processed)
  <1>1. /\ pc = "pushback" /\ processed # <<>> /\ processed' = Front(processed)
        /\ UNCHANGED <<realTime, itemsRT, pending, pc, it, i, current, needed, owned, dropped, updated>>
    BY DEF PushBack, loop, history
  <1>2. PICK k \in 1 .. Len(items) + 1 : items' = InsertAt(items, k, e)
    BY DEF PushBack
  <1>3. /\ processed' \in Seq(Item) /\ e \in Item /\ OnceByObj(processed')
        /\ \A x : HasObj(processed, x) <=> e.obj = x \/ HasObj(processed', x)
        /\ e.obj # None => ~HasObj(processed', e.obj)
        /\ \A n \in DOMAIN processed' : n \in DOMAIN processed /\ processed'[n] = processed[n]
        /\ \E n \in DOMAIN processed : e = processed[n]
    BY <1>1, Basics, FrontIs DEF IInv, OneContainer
  <1> HIDE DEF e
  <1>4. e.obj \in Objs \ realTime /\ e.obj # None
    BY <1>3, Basics DEF IInv, KindsApart
  <1>5. ~HasObj(items, e.obj)
    BY <1>3, <1>4 DEF IInv, OneContainer
  <1>6. /\ items' \in Seq(Item) /\ OnceByObj(items')
        /\ \A x : HasObj(items', x) <=> HasObj(items, x) \/ e.obj = x
    BY <1>2, <1>3, <1>5, Basics, InsertIs DEF IInv, OneContainer
  <1>7. current = None
    BY <1>1 DEF IInv, Phases
  <1>8. \A x \in Objs : InLoop(x)' <=> InLoop(x)
    BY <1>1, <1>3, <1>6, <1>7 DEF InLoop, Held
  <1>9. Effective' = Effective /\ GoneFirst' /\ Alternate(pending)'
    BY <1>1, <1>8, SameLoop
  <1>10. TypeOK'
    BY <1>1, <1>3, <1>6 DEF IInv, TypeOK
  <1>11. KindsApart'
    <2>1. ASSUME NEW n \in DOMAIN items' PROVE items'[n].obj \notin realTime
      <3>1. HasObj(items, items'[n].obj) \/ items'[n].obj = e.obj
        BY <1>6 DEF HasObj
      <3>2. \A x : HasObj(items, x) => x \notin realTime
        BY DEF IInv, KindsApart, HasObj
      <3> QED
        BY <1>4, <3>1, <3>2
    <2>2. \A n \in DOMAIN processed' : processed'[n].obj \in Objs \ realTime
      BY <1>3 DEF IInv, KindsApart
    <2> QED
      BY <1>1, <2>1, <2>2 DEF KindsApart
  <1>12. OneContainer'
    BY <1>1, <1>3, <1>4, <1>6 DEF IInv, OneContainer
  <1>13. Phases' /\ NothingPending' /\ NotYet'
    BY <1>1, <1>7 DEF Phases, NothingPending, NotYet
  <1> QED
    BY <1>1, <1>9, <1>10, <1>11, <1>12, <1>13 DEF IInv

-----------------------------------------------------------------------------
(* The VERIFY(!count) of Registered from the invariant.                    *)

ButNone(seq) == \A m, n \in DOMAIN seq : m # n /\ seq[m] = seq[n] => seq[m] = None

LEMMA JoinedButNone ==
  ASSUME NEW S, NEW a \in Seq(S), NEW b \in Seq(S), ButNone(a), ButNone(b),
         \A o : Contains(a, o) /\ Contains(b, o) => o = None
  PROVE  /\ a \o b \in Seq(S) /\ ButNone(a \o b)
         /\ \A o : Contains(a \o b, o) <=> Contains(a, o) \/ Contains(b, o)
  <1> DEFINE c == a \o b
  <1>1. /\ c \in Seq(S) /\ Len(a) \in Nat
        /\ DOMAIN a = 1 .. Len(a) /\ DOMAIN b \subseteq Nat /\ DOMAIN c \subseteq Nat
        /\ \A k \in DOMAIN c : IF k \in DOMAIN a THEN c[k] = a[k]
               ELSE k - Len(a) \in DOMAIN b /\ c[k] = b[k - Len(a)]
    BY ConcatIs
  <1>2. \A o : Contains(c, o) <=> Contains(a, o) \/ Contains(b, o)
    BY JoinedOnce
  <1> HIDE DEF c
  <1>3. ButNone(c)
    <2> SUFFICES ASSUME NEW m \in DOMAIN c, NEW n \in DOMAIN c, m # n, c[m] = c[n]
                 PROVE  c[m] = None
      BY DEF ButNone
    <2>1. \A j \in DOMAIN a, k \in DOMAIN b : a[j] = b[k] => a[j] = None
      BY DEF Contains
    <2>2. CASE m \in DOMAIN a /\ n \in DOMAIN a
      BY <1>1, <2>2 DEF ButNone
    <2>3. CASE m \notin DOMAIN a /\ n \notin DOMAIN a
      <3>1. /\ m - Len(a) \in DOMAIN b /\ n - Len(a) \in DOMAIN b
            /\ m - Len(a) # n - Len(a) /\ b[m - Len(a)] = b[n - Len(a)]
        BY <1>1, <2>3
      <3> QED
        BY <1>1, <2>3, <3>1 DEF ButNone
    <2>4. CASE m \in DOMAIN a /\ n \notin DOMAIN a
      BY <1>1, <2>1, <2>4
    <2>5. CASE m \notin DOMAIN a /\ n \in DOMAIN a
      BY <1>1, <2>1, <2>5
    <2> QED
      BY <2>2, <2>3, <2>4, <2>5
  <1> QED
    BY <1>1, <1>2, <1>3 DEF c

LEMMA ObjsOf ==
  ASSUME NEW seq \in Seq(Item), OnceByObj(seq)
  PROVE  LET a == [k \in DOMAIN seq |-> seq[k].obj] IN
         /\ a \in Seq(Objs \cup {None}) /\ ButNone(a)
         /\ \A o : Contains(a, o) <=> HasObj(seq, o)
  <1> DEFINE a == [k \in DOMAIN seq |-> seq[k].obj]
  <1>1. DOMAIN seq = 1 .. Len(seq) /\ Len(seq) \in Nat
    OBVIOUS
  <1>2. ASSUME NEW k \in DOMAIN seq PROVE a[k] \in Objs \cup {None} /\ a[k] = seq[k].obj
    BY ItemIs
  <1>3. a = [k \in DOMAIN seq |-> a[k]]
    OBVIOUS
  <1> HIDE DEF a
  <1>4. a \in Seq(Objs \cup {None}) /\ DOMAIN a = DOMAIN seq
    BY <1>1, <1>2, <1>3
  <1>5. ButNone(a)
    BY <1>2, <1>4 DEF ButNone, OnceByObj
  <1>6. ASSUME NEW o PROVE Contains(a, o) <=> HasObj(seq, o)
    BY <1>2, <1>4 DEF Contains, HasObj
  <1> QED
    BY <1>4, <1>5, <1>6 DEF a

LEMMA InOneContainer == IInv => InLoopOnce
  <1> SUFFICES ASSUME IInv PROVE InLoopOnce
    OBVIOUS
  <1> DEFINE S == Objs \cup {None}
             a == [k \in DOMAIN items |-> items[k].obj]
             b == [k \in DOMAIN processed |-> processed[k].obj]
             w == itemsRT \o a
             all == w \o b
  <1>1. /\ a \in Seq(S) /\ ButNone(a) /\ \A o : Contains(a, o) <=> HasObj(items, o)
        /\ b \in Seq(S) /\ ButNone(b) /\ \A o : Contains(b, o) <=> HasObj(processed, o)
    BY Basics, ObjsOf DEF IInv, OneContainer
  <1>2. itemsRT \in Seq(S) /\ ButNone(itemsRT)
    <2>1. DOMAIN itemsRT = 1 .. Len(itemsRT) /\ Len(itemsRT) \in Nat
          /\ itemsRT = [k \in DOMAIN itemsRT |-> itemsRT[k]]
          /\ \A k \in DOMAIN itemsRT : itemsRT[k] \in S
      BY Basics
    <2>2. itemsRT \in Seq(S)
      <3> HIDE DEF S
      <3> QED
        BY <2>1
    <2> QED
      BY <2>2 DEF IInv, OneContainer, Once, ButNone
  <1>3. \A o : HasObj(items, o) => o \notin realTime /\ o \in S
    BY Basics, ItemIs DEF IInv, KindsApart, HasObj
  <1>4. \A o : HasObj(processed, o) => o \in Objs \ realTime
    BY DEF IInv, KindsApart, HasObj
  <1> HIDE DEF a, b, S
  <1>5. /\ w \in Seq(S) /\ ButNone(w)
        /\ \A o : Contains(w, o) <=> Contains(itemsRT, o) \/ Contains(a, o)
    <2>1. \A o : Contains(itemsRT, o) /\ Contains(a, o) => o = None
      BY <1>1, <1>3, Basics
    <2> QED
      BY <1>1, <1>2, <2>1, JoinedButNone
  <1> HIDE DEF w
  <1>6. /\ ButNone(all)
        /\ \A o : Contains(all, o) <=> Contains(w, o) \/ Contains(b, o)
    <2>1. \A o : Contains(w, o) /\ Contains(b, o) => o = None
      BY <1>1, <1>4, <1>5, Basics DEF IInv, OneContainer
    <2> QED
      BY <1>1, <1>5, <2>1, JoinedButNone
  <1>7. pc = "normal" => ~Contains(all, current) \/ current = None
    BY <1>1, <1>5, <1>6, UpdatedIs
  <1> QED
    BY <1>6, <1>7 DEF InLoopOnce, ButNone, all, w, a, b

-----------------------------------------------------------------------------
(* The theorems.                                                           *)

LEMMA Initially == Init => IInv /\ Registry!Init
  <1> SUFFICES ASSUME Init PROVE IInv /\ Registry!Init
    OBVIOUS
  <1>1. pending \in Seq(Op) /\ \A o \in Objs : ~InLoop(o) /\ ~Asked(pending, o)
    BY SchedulerAssumption DEF Init, InLoop, Held, Contains, HasObj, Asked, SchedulerAssumption
  <1>2. Effective = {}
    <2>1. \A o \in Objs : o \notin Effective
      BY <1>1, EffectiveIs
    <2> QED
      BY <2>1 DEF Effective
  <1>3. TypeOK
    BY SchedulerAssumption DEF Init, TypeOK, SchedulerAssumption
  <1>4. None \notin realTime
    BY <1>3, SchedulerAssumption DEF TypeOK, SchedulerAssumption
  <1>5. KindsApart /\ OneContainer /\ Phases /\ NothingPending /\ NotYet
    BY DEF Init, KindsApart, OneContainer, Once, OnceByObj, Phases, NothingPending, NotYet, HasObj
  <1>6. Alternate(pending) /\ GoneFirst
    BY <1>1 DEF Init, Alternate, GoneFirst
  <1> QED
    BY <1>2, <1>3, <1>5, <1>6 DEF IInv, Init, Registry!Init

(* Every step keeps the invariant, and is a step of ScheduleRegistry or    *)
(* none.                                                                   *)
LEMMA Stepwise == IInv /\ [Next]_vars => IInv' /\ [Registry!Next]_(Registry!vars)
  <1> SUFFICES ASSUME IInv, [Next]_vars PROVE IInv' /\ [Registry!Next]_(Registry!vars)
    OBVIOUS
  <1>1. ASSUME Effective' = Effective, UNCHANGED <<current, updated>>
        PROVE  UNCHANGED Registry!vars
    BY <1>1 DEF Registry!vars
  <1>2. ASSUME NEW o \in Objs, Begins(o), Effective' = Effective PROVE Registry!Next
    BY <1>2 DEF Begins, Registry!Next, Registry!BeginUpdate
  <1>3. ASSUME NEW o \in Objs, Register(o), UNCHANGED realTime
        PROVE  IInv' /\ Registry!Next
    BY <1>3, RegisterKeeps DEF Registry!Next, Registry!Register
  <1>4. ASSUME NEW o \in Objs, Unregister(o), UNCHANGED realTime
        PROVE  IInv' /\ [Registry!Next]_(Registry!vars)
    <2>1. IInv' /\ Effective' = Effective \ {o} /\ UNCHANGED <<current, updated>>
      BY <1>4, UnregisterFoundKeeps, UnregisterQueuedKeeps
    <2>2. CASE o \in Effective
      BY <2>1, <2>2 DEF Registry!Next, Registry!Unregister
    <2>3. CASE o \notin Effective
      BY <1>1, <2>1, <2>3
    <2> QED
      BY <2>1, <2>2, <2>3
  <1>5. ASSUME NEW o \in Objs, SetDestroy(o), UNCHANGED realTime
        PROVE  IInv' /\ UNCHANGED Registry!vars
    BY <1>1, <1>5, Basics, StutterKeeps DEF SetDestroy
  <1>6. ASSUME BeginFrame, UNCHANGED realTime PROVE IInv' /\ Registry!Next
    BY <1>6, BeginFrameKeeps DEF Registry!Next, Registry!BeginFrame
  <1>7. ASSUME RealTimeStep, UNCHANGED realTime
        PROVE  IInv' /\ [Registry!Next]_(Registry!vars)
    BY <1>1, <1>2, <1>7, RealTimeStepKeeps
  <1>8. ASSUME RealTimeReturn \/ NormalReturn, UNCHANGED realTime PROVE IInv' /\ Registry!Next
    BY <1>8, RealTimeReturnKeeps, NormalReturnKeeps DEF Registry!Next, Registry!EndUpdate
  <1>9. ASSUME NormalFault, UNCHANGED realTime PROVE IInv' /\ Registry!Next
    BY <1>9, NormalFaultKeeps DEF Registry!Next, Registry!EndUpdate
  <1>10. ASSUME NeededFault \/ RealTimeDone \/ NormalDone \/ PushBack \/ EndFrame, UNCHANGED realTime
         PROVE  IInv' /\ UNCHANGED Registry!vars
    BY <1>1, <1>10, NeededFaultKeeps, RealTimeDoneKeeps, NormalDoneKeeps, PushBackKeeps, EndFrameKeeps
  <1>11. ASSUME NormalStep, UNCHANGED realTime
         PROVE  IInv' /\ [Registry!Next]_(Registry!vars)
    <2>1. CASE Head(items).obj \in needed
      BY <1>2, <1>11, <2>1, NormalUpdateKeeps
    <2>2. CASE Head(items).obj \notin needed
      <3>1. /\ IInv' /\ current = None /\ UNCHANGED <<current, updated>>
            /\ Effective' = Effective \/ \E o \in Effective : Effective' = Effective \ {o}
        BY <1>11, <2>2, NormalDropKeeps
      <3>2. ASSUME NEW o \in Effective, Effective' = Effective \ {o} PROVE Registry!Next
        <4>1. o \in Objs
          BY DEF Effective
        <4> QED
          BY <3>1, <3>2, <4>1 DEF Registry!Next, Registry!Forget, Registry!Unregister
      <3> QED
        BY <1>1, <3>1, <3>2
    <2> QED
      BY <2>1, <2>2
  <1>12. CASE UNCHANGED vars
    <2>1. UNCHANGED <<realTime, itemsRT, items, processed, pending, loop, history>>
          /\ needed' \subseteq Objs
      BY <1>12, Basics DEF vars
    <2> QED
      BY <1>1, <2>1, StutterKeeps
  <1>13. CASE Next
    BY <1>3, <1>4, <1>5, <1>6, <1>7, <1>8, <1>9, <1>10, <1>11, <1>13 DEF Next, Engine, Owners
  <1> QED
    BY <1>12, <1>13

-----------------------------------------------------------------------------
(* What CSheduler::Registered counts.  Of one object the queue asks for a  *)
(* registration and for a removal in turns, so the difference between the  *)
(* two is settled by its first and its last operation.                     *)

Places(ops, o, b) == {k \in DOMAIN ops : ops[k] = [reg |-> b, obj |-> o]}

Number(ops, o, b) == Cardinality(Places(ops, o, b))

One(b) == IF b THEN 1 ELSE 0

Balanced(ops) ==
    \A x \in Objs : Number(ops, x, TRUE) - Number(ops, x, FALSE)
                        = One(Wanted(ops, x)) - One(x \in Gone(ops))

(* The queue has nothing for what the loop dropped: its owner does not     *)
(* register it a second time.                                              *)
DroppedIdle == \A o \in dropped : ~Asked(pending, o)

Counted == Balanced(pending) /\ DroppedIdle

(* One more operation, one more of its kind.                               *)
LEMMA NumberMore ==
  ASSUME NEW ops \in Seq(Op), NEW b \in BOOLEAN, NEW o \in Objs, NEW x \in Objs, NEW c \in BOOLEAN
  PROVE  /\ Number(ops, x, c) \in Nat
         /\ Number(Append(ops, [reg |-> b, obj |-> o]), x, c)
                = Number(ops, x, c) + One(x = o /\ c = b)
  <1> DEFINE e == [reg |-> b, obj |-> o]
             A == Append(ops, e)
             L == Len(ops) + 1
             P == Places(ops, x, c)
             Q == Places(A, x, c)
  <1>1. e \in Op /\ (e = [reg |-> c, obj |-> x] <=> x = o /\ c = b)
    BY DEF Op
  <1> HIDE DEF e
  <1>2. /\ A[L] = e /\ Len(ops) \in Nat /\ L \in DOMAIN A /\ L \notin DOMAIN ops
        /\ DOMAIN A = DOMAIN ops \cup {L} /\ DOMAIN ops = 1 .. Len(ops)
        /\ \A k \in DOMAIN ops : A[k] = ops[k]
    BY <1>1
  <1> HIDE DEF A
  <1>3. P \subseteq 1 .. Len(ops) /\ L \notin P
    BY <1>2 DEF Places
  <1>4. IsFiniteSet(P) /\ Cardinality(P) \in Nat
    <2>1. IsFiniteSet(1 .. Len(ops))
      BY <1>2, FS_Interval
    <2>2. IsFiniteSet(P)
      BY <1>3, <2>1, FS_Subset
    <2> QED
      BY <2>2, FS_CardinalityType
  <1>5. Q = IF x = o /\ c = b THEN P \cup {L} ELSE P
    BY <1>1, <1>2 DEF Places
  <1> HIDE DEF P, Q, L
  <1>6. Cardinality(P \cup {L}) = Cardinality(P) + 1
    BY <1>3, <1>4, FS_AddElement
  <1>7. Cardinality(Q) = Cardinality(P) + One(x = o /\ c = b)
    BY <1>4, <1>5, <1>6 DEF One
  <1> QED
    BY <1>4, <1>7 DEF Number, P, Q, A, e

(* One more operation is the first of its object, or changes nothing about *)
(* which one is first.                                                     *)
LEMMA GoneMore ==
  ASSUME NEW ops \in Seq(Op), NEW b \in BOOLEAN, NEW o \in Objs, NEW x \in Objs
  PROVE  x \in Gone(Append(ops, [reg |-> b, obj |-> o]))
             <=> x \in Gone(ops) \/ (x = o /\ ~b /\ ~Asked(ops, o))
  <1> DEFINE e == [reg |-> b, obj |-> o]
             A == Append(ops, e)
             L == Len(ops) + 1
  <1>1. e \in Op /\ e.obj = o /\ (e = [reg |-> FALSE, obj |-> x] <=> x = o /\ ~b)
    BY DEF Op
  <1> HIDE DEF e
  <1>2. /\ A[L] = e /\ Len(ops) \in Nat
        /\ DOMAIN A = 1 .. L /\ DOMAIN ops = 1 .. Len(ops)
        /\ \A k \in DOMAIN ops : A[k] = ops[k]
    BY <1>1
  <1> HIDE DEF A
  <1>3. ASSUME NEW k \in DOMAIN ops
        PROVE  /\ k \in DOMAIN A
               /\ \A n \in 1 .. k - 1 : n \in DOMAIN ops /\ n \in DOMAIN A /\ A[n] = ops[n]
    BY <1>2
  <1>4. x \in Gone(ops) => x \in Gone(A)
    BY <1>2, <1>3 DEF Gone
  <1>5. x = o /\ ~b /\ ~Asked(ops, o) => x \in Gone(A)
    <2>1. L \in DOMAIN A /\ \A n \in 1 .. L - 1 : n \in DOMAIN ops /\ A[n] = ops[n]
      BY <1>2
    <2> QED
      BY <1>1, <1>2, <2>1 DEF Gone, Asked
  <1>6. ASSUME x \in Gone(A) PROVE x \in Gone(ops) \/ (x = o /\ ~b /\ ~Asked(ops, o))
    <2>1. PICK k \in DOMAIN A : /\ A[k] = [reg |-> FALSE, obj |-> x]
                                /\ \A n \in 1 .. k - 1 : A[n].obj # x
      BY <1>6 DEF Gone
    <2>2. CASE k \in DOMAIN ops
      BY <1>2, <1>3, <2>1, <2>2 DEF Gone
    <2>3. CASE k \notin DOMAIN ops
      <3>1. k = L /\ \A n \in DOMAIN ops : n \in 1 .. k - 1
        BY <1>2, <2>3
      <3>2. x = o /\ ~b
        BY <1>1, <1>2, <2>1, <3>1
      <3>3. ~Asked(ops, o)
        BY <1>2, <2>1, <3>1, <3>2 DEF Asked
      <3> QED
        BY <3>2, <3>3
    <2> QED
      BY <2>2, <2>3
  <1> QED
    BY <1>4, <1>5, <1>6 DEF A, e

(* What is asked for in turns stays balanced.                              *)
LEMMA BalancedMore ==
  ASSUME NEW ops \in Seq(Op), NEW b \in BOOLEAN, NEW o \in Objs, Balanced(ops),
         Asked(ops, o) => (Wanted(ops, o) <=> ~b)
  PROVE  Balanced(Append(ops, [reg |-> b, obj |-> o]))
  <1> DEFINE A == Append(ops, [reg |-> b, obj |-> o])
  <1>1. /\ Wanted(A, o) <=> b
        /\ \A x \in Objs \ {o} : Wanted(A, x) <=> Wanted(ops, x)
    BY AskedMore
  <1>2. ASSUME NEW x \in Objs
        PROVE  /\ Number(ops, x, TRUE) \in Nat /\ Number(ops, x, FALSE) \in Nat
               /\ Number(A, x, TRUE) = Number(ops, x, TRUE) + One(x = o /\ b)
               /\ Number(A, x, FALSE) = Number(ops, x, FALSE) + One(x = o /\ ~b)
    <2>1. /\ Number(ops, x, TRUE) \in Nat
          /\ Number(A, x, TRUE) = Number(ops, x, TRUE) + One(x = o /\ TRUE = b)
      BY NumberMore, TRUE \in BOOLEAN
    <2>2. /\ Number(ops, x, FALSE) \in Nat
          /\ Number(A, x, FALSE) = Number(ops, x, FALSE) + One(x = o /\ FALSE = b)
      BY NumberMore, FALSE \in BOOLEAN
    <2> QED
      BY <2>1, <2>2 DEF One
  <1>3. \A x \in Objs : x \in Gone(A) <=> x \in Gone(ops) \/ (x = o /\ ~b /\ ~Asked(ops, o))
    BY GoneMore
  <1>4. o \in Gone(ops) \/ Wanted(ops, o) => Asked(ops, o)
    BY GoneIsAsked, WantedIsAsked
  <1> HIDE DEF A
  <1>5. ASSUME NEW x \in Objs
        PROVE  Number(A, x, TRUE) - Number(A, x, FALSE) = One(Wanted(A, x)) - One(x \in Gone(A))
    <2> DEFINE n == Number(ops, x, TRUE)
               m == Number(ops, x, FALSE)
               w == One(Wanted(ops, x))
               g == One(x \in Gone(ops))
               nn == Number(A, x, TRUE)
               mm == Number(A, x, FALSE)
               ww == One(Wanted(A, x))
               gg == One(x \in Gone(A))
    <2>1. /\ n \in Nat /\ m \in Nat /\ w \in {0, 1} /\ g \in {0, 1} /\ gg \in {0, 1}
          /\ n - m = w - g
      BY <1>2 DEF Balanced, One
    <2>2. CASE x # o
      <3>1. nn = n + 0 /\ mm = m + 0
        BY <1>2, <2>2 DEF One
      <3>2. ww = w /\ gg = g
        BY <1>1, <1>3, <2>2 DEF One
      <3> HIDE DEF n, m, w, g, nn, mm, ww, gg
      <3>3. nn - mm = ww - gg
        BY <2>1, <3>1, <3>2
      <3> QED
        BY <3>3 DEF nn, mm, ww, gg
    <2>3. CASE x = o /\ b
      <3>1. nn = n + 1 /\ mm = m + 0
        BY <1>2, <2>3 DEF One
      <3>2. w = 0 /\ ww = 1 /\ gg = g
        BY <1>1, <1>3, <1>4, <2>3 DEF One
      <3> HIDE DEF n, m, w, g, nn, mm, ww, gg
      <3>3. nn - mm = ww - gg
        BY <2>1, <3>1, <3>2
      <3> QED
        BY <3>3 DEF nn, mm, ww, gg
    <2>4. CASE x = o /\ ~b
      <3>1. nn = n + 0 /\ mm = m + 1
        BY <1>2, <2>4 DEF One
      <3>2. ww = 0 /\ ((w = 1 /\ gg = g) \/ (w = 0 /\ g = 0 /\ gg = 1))
        <4>1. CASE Asked(ops, o)
          <5>1. Wanted(ops, o) /\ ~Wanted(A, o) /\ (o \in Gone(A) <=> o \in Gone(ops))
            BY <1>1, <1>3, <2>4, <4>1
          <5>2. w = 1 /\ ww = 0
            BY <2>4, <5>1 DEF One
          <5>3. gg = g
            BY <2>4, <5>1 DEF One
          <5> HIDE DEF n, m, w, g, nn, mm, ww, gg
          <5> QED
            BY <5>2, <5>3
        <4>2. CASE ~Asked(ops, o)
          <5>1. ~Wanted(ops, o) /\ ~Wanted(A, o) /\ o \notin Gone(ops) /\ o \in Gone(A)
            BY <1>1, <1>3, <1>4, <2>4, <4>2
          <5> QED
            BY <2>4, <5>1 DEF One
        <4> QED
          BY <4>1, <4>2
      <3> HIDE DEF n, m, w, g, nn, mm, ww, gg
      <3>3. nn - mm = ww - gg
        BY <2>1, <3>1, <3>2
      <3> QED
        BY <3>3 DEF nn, mm, ww, gg
    <2> QED
      BY <2>2, <2>3, <2>4
  <1> QED
    BY <1>5 DEF Balanced, A

LEMMA BalancedEmpty == Balanced(<<>>)
  <1>1. ASSUME NEW x \in Objs, NEW b PROVE Number(<<>>, x, b) = 0
    <2>1. Places(<<>>, x, b) = {}
      BY DEF Places
    <2> QED
      BY <2>1, FS_EmptySet DEF Number
  <1>2. ASSUME NEW x \in Objs PROVE ~Wanted(<<>>, x) /\ x \notin Gone(<<>>)
    BY DEF Wanted, Gone
  <1> QED
    BY <1>1, <1>2 DEF Balanced, One

(* Only the owners add to the queue, and the loop drops only what the      *)
(* queue has nothing for.                                                  *)
LEMMA CountedKeeps ==
  ASSUME IInv, Counted, [Next]_vars
  PROVE  Counted'
  <1> USE DEF Counted
  <1>1. ASSUME NEW o \in Objs, Register(o) PROVE Counted'
    <2>1. /\ o \notin owned /\ pending' = Append(pending, [reg |-> TRUE, obj |-> o]) /\ UNCHANGED dropped
      BY <1>1 DEF Register
    <2>2. o \notin Effective /\ o \notin dropped
      BY <2>1, Basics DEF IInv
    <2>3. Asked(pending, o) => ~Wanted(pending, o)
      BY <2>2, Basics, EffectiveIs
    <2>4. Balanced(pending')
      BY <2>1, <2>3, Basics, BalancedMore
    <2>5. \A x \in Objs \ {o} : Asked(pending', x) <=> Asked(pending, x)
      BY <2>1, <2>3, Basics, AskedMore
    <2> QED
      BY <2>1, <2>2, <2>4, <2>5, Basics DEF DroppedIdle
  <1>2. ASSUME NEW o \in Objs, Unregister(o) PROVE Counted'
    <2>1. dropped' = dropped \ {o} /\ o \in owned
      BY <1>2 DEF Unregister
    <2>2. CASE FoundNow(o)
      BY <1>2, <2>1, <2>2 DEF Unregister, DroppedIdle
    <2>3. CASE ~FoundNow(o)
      <3>1. pending' = Append(pending, [reg |-> FALSE, obj |-> o])
        BY <1>2, <2>3 DEF Unregister
      <3>2. Asked(pending, o) => o \in Effective
        BY <2>1 DEF DroppedIdle, IInv
      <3>3. Asked(pending, o) => Wanted(pending, o)
        BY <3>2, Basics, EffectiveIs
      <3>4. Balanced(pending')
        BY <3>1, <3>3, Basics, BalancedMore
      <3>5. \A x \in Objs \ {o} : Asked(pending', x) <=> Asked(pending, x)
        BY <3>1, <3>3, Basics, AskedMore
      <3> QED
        BY <2>1, <3>4, <3>5, Basics DEF DroppedIdle
    <2> QED
      BY <2>2, <2>3
  <1>3. ASSUME pending' = <<>> PROVE Counted'
    BY <1>3, BalancedEmpty DEF DroppedIdle, Asked
  <1>4. ASSUME UNCHANGED pending, \A x \in dropped' \ dropped : ~Asked(pending, x) PROVE Counted'
    BY <1>4 DEF DroppedIdle
  <1>5. CASE BeginFrame \/ EndFrame
    BY <1>3, <1>5 DEF BeginFrame, EndFrame, Registration
  <1>6. CASE NormalStep
    <2>1. CASE Head(items).obj \in needed
      BY <1>4, <1>6, <2>1 DEF NormalStep
    <2>2. CASE Head(items).obj \notin needed
      <3> DEFINE o == Head(items).obj
      <3>1. /\ pc = "normal" /\ current = None /\ items # <<>> /\ items' = Tail(items)
            /\ dropped' = dropped \cup ({o} \cap owned) /\ UNCHANGED pending
        BY <1>6, <2>2 DEF NormalStep, Due
      <3>2. o \in Objs => ~Asked(pending, o)
        BY <3>1, PoppedIs
      <3> HIDE DEF o
      <3> QED
        BY <1>4, <3>1, <3>2, Basics
    <2> QED
      BY <2>1, <2>2
  <1>7. CASE NormalFault
    <2>1. UNCHANGED pending /\ dropped' = dropped \cup Abandoned(current)
      BY <1>7 DEF NormalFault
    <2>2. ASSUME NEW x \in Abandoned(current) PROVE ~Asked(pending, x)
      BY DEF Abandoned, Asked
    <2> QED
      BY <1>4, <2>1, <2>2
  <1>8. CASE \/ RealTimeStep \/ RealTimeReturn \/ RealTimeDone \/ NormalReturn \/ NormalDone
             \/ PushBack \/ NeededFault \/ (\E o \in Objs : SetDestroy(o)) \/ UNCHANGED vars
    <2>1. UNCHANGED <<pending, dropped>>
      BY <1>8 DEF RealTimeStep, RealTimeReturn, RealTimeDone, NormalReturn, NormalDone,
                  PushBack, NeededFault, SetDestroy, vars, history
    <2> QED
      BY <1>4, <2>1
  <1> QED
    BY <1>1, <1>2, <1>5, <1>6, <1>7, <1>8 DEF Next, Engine, Owners

(* The count of one object, from the containers, the queue and T.          *)
LEMMA CountIs ==
  ASSUME IInv, Counted, NEW o \in Objs
  PROVE  Registered(o) <=> o \in owned \ dropped /\ ~Unheld(o)
  <1>1. Queued(o, TRUE) - Queued(o, FALSE) = One(Wanted(pending, o)) - One(o \in Gone(pending))
    BY DEF Counted, Balanced, Queued, Number, Places
  <1>2. Queued(o, TRUE) \in Nat /\ Queued(o, FALSE) \in Nat
    BY NumberMore, Basics, TRUE \in BOOLEAN, FALSE \in BOOLEAN DEF Queued, Number, Places
  <1>3. o \in Effective <=> IF Asked(pending, o) THEN Wanted(pending, o) ELSE InLoop(o)
    BY Basics, EffectiveIs
  <1>4. o \in Gone(pending) \/ Wanted(pending, o) => Asked(pending, o)
    BY Basics, GoneIsAsked, WantedIsAsked
  <1>5. InLoop(o) /\ Asked(pending, o) => o \in Gone(pending)
    BY DEF IInv, GoneFirst
  <1>6. Held(o) => InLoop(o)
    BY DEF InLoop
  <1>7. Registered(o) <=> One(Held(o)) + One(Wanted(pending, o)) - One(o \in Gone(pending)) = 1
    BY <1>1, <1>2 DEF Registered, Count, One
  <1>8. Registered(o) <=> o \in Effective /\ ~Unheld(o)
    BY <1>3, <1>4, <1>5, <1>6, <1>7 DEF Unheld, One
  <1> QED
    BY <1>8 DEF IInv

LEMMA Invariance == Spec => [](IInv /\ Counted)
  <1>1. Init => IInv /\ Counted
    BY Initially, BalancedEmpty DEF Init, Counted, DroppedIdle
  <1>2. IInv /\ Counted /\ [Next]_vars => (IInv /\ Counted)'
    BY Stepwise, CountedKeeps
  <1> QED
    BY <1>1, <1>2, PTL DEF Spec

(* The containers and the loop keep their types.                           *)
THEOREM TypeCorrect == Spec => []TypeOK
  <1>1. IInv => TypeOK
    BY DEF IInv
  <1> QED
    BY <1>1, Invariance, PTL

(* CSheduler::Register, Unregister and internal_Registration: whatever the *)
(* owners do between two updates and from within them, an object is in one *)
(* container, once, and what CSheduler::Registered counts is what the      *)
(* owners registered, less what the loop dropped and what is Unheld.       *)
THEOREM RegistrationsKept == Spec => []RegistryKept
  <1>1. IInv /\ Counted => RegistryKept
    BY InOneContainer, CountIs DEF RegistryKept
  <1> QED
    BY <1>1, Invariance, PTL

(* CSheduler::Update: every step of the loop, the queues and the owners is *)
(* a step of ScheduleRegistry: an object is updated while it is registered *)
(* only, and at most once in a frame.                                      *)
THEOREM Implementation == Spec => RegistryImplemented
  <1>1. Init => Registry!Init
    BY Initially
  <1>2. IInv /\ [Next]_vars => [Registry!Next]_(Registry!vars)
    BY Stepwise
  <1> QED
    BY <1>1, <1>2, Invariance, PTL DEF Spec, Registry!Spec, RegistryImplemented

=============================================================================
