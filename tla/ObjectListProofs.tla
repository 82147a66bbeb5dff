-------------------------- MODULE ObjectListProofs ---------------------------
(***************************************************************************)
(* What CObjectList guarantees for any objects, holders and handlers: that *)
(* its lists are exact, that no crow outlives its object or is one twice   *)
(* as long as no UpdateCL touches another object, that nobody who was      *)
(* asked for is left out of two Updates in a row, and that children are    *)
(* destroyed before their parents.                                         *)
(*                                                                         *)
(* The invariant says why: an entry of a list is an object that lives or   *)
(* that was freed, and who is marked as a crow has an entry (CrowsKnown);  *)
(* only what is no holder has a parent, and it is marked for destruction   *)
(* together with it (Families); and who waits for its update is in the     *)
(* list that the next Update takes, or in what is left of this one         *)
(* (AskedAreNext, AskedAreInWork).                                         *)
(***************************************************************************)
EXTENDS ObjectList, FiniteSetTheorems, TLAPS

(* ListsExact, and that a child is in the queue behind its parent, of a    *)
(* list l.                                                                 *)
Exact(l) ==
    /\ l.active = {o \in l.live : l.counter[o] > 0}
    /\ l.sleeping = l.live \ l.active
    /\ ToSet(l.queue) = l.doomed
    /\ IsInjective(l.queue)
    /\ l.doomed \subseteq l.live

BottomUp(l) ==
    \A k \in DOMAIN l.queue : \A c \in Children(l, l.queue[k]) :
        \E n \in DOMAIN l.queue : n > k /\ l.queue[n] = c

(* Who has a parent is no holder, lives as its parent does, and is marked  *)
(* for destruction if and only if its parent is.                           *)
Families(l) ==
    \A c \in Objects : l.parent[c] # Nobody =>
        /\ c \in l.live \ Holders /\ l.parent[c] \in l.live
        /\ c \in l.doomed <=> l.parent[c] \in l.doomed

CrowsKnown(l) ==
    /\ \A v \in 0 .. 1 : ToSet(l.vec[v]) \subseteq l.live \cup {Freed}
    /\ l.crow \subseteq ToSet(l.vec[0]) \cup ToSet(l.vec[1])

Sound(l) == l \in List /\ Exact(l) /\ BottomUp(l) /\ Families(l) /\ CrowsKnown(l)

(* What UpdateCL can spoil by waking another object: the entries of a list *)
(* are different, none is freed, and those of the current one are marked.  *)
Fresh(l) ==
    /\ \A v \in 0 .. 1 : IsInjective(l.vec[v]) /\ Freed \notin ToSet(l.vec[v])
    /\ ToSet(l.vec[l.current]) \subseteq l.crow

-----------------------------------------------------------------------------
(* Sequences.                                                              *)

LEMMA AppendedIs ==
  ASSUME NEW S, NEW s \in Seq(S), NEW x \in S
  PROVE  /\ Append(s, x) \in Seq(S)
         /\ ToSet(Append(s, x)) = ToSet(s) \cup {x}
         /\ IsInjective(s) /\ x \notin ToSet(s) => IsInjective(Append(s, x))
<1> DEFINE t == Append(s, x)
<1>1. /\ t \in Seq(S) /\ Len(s) \in Nat
      /\ DOMAIN s = 1 .. Len(s) /\ DOMAIN t = 1 .. Len(s) + 1
      /\ t[Len(s) + 1] = x /\ \A k \in DOMAIN s : t[k] = s[k]
  OBVIOUS
<1> HIDE DEF t
<1>2. \A k \in DOMAIN t : k = Len(s) + 1 \/ k \in DOMAIN s
  BY <1>1
<1>3. Len(s) + 1 \in DOMAIN t /\ \A k \in DOMAIN s : k \in DOMAIN t
  BY <1>1
<1>4. ToSet(t) = ToSet(s) \cup {x}
  BY ONLY <1>1, <1>2, <1>3 DEF ToSet
<1>5. ASSUME IsInjective(s), x \notin ToSet(s) PROVE IsInjective(t)
  <2>1. \A k \in DOMAIN s : s[k] # x
    BY <1>5 DEF ToSet
  <2> QED BY ONLY <1>1, <1>2, <1>5, <2>1 DEF IsInjective
<1> QED BY <1>1, <1>4, <1>5 DEF t

LEMMA JoinedIs ==
  ASSUME NEW S, NEW a \in Seq(S), NEW b \in Seq(S)
  PROVE  /\ a \o b \in Seq(S)
         /\ Len(a) \in Nat /\ DOMAIN a = 1 .. Len(a) /\ DOMAIN b = 1 .. Len(b)
         /\ \A k \in DOMAIN (a \o b) :
               IF k \in DOMAIN a THEN (a \o b)[k] = a[k]
               ELSE k - Len(a) \in DOMAIN b /\ (a \o b)[k] = b[k - Len(a)]
         /\ \A k \in DOMAIN a : k \in DOMAIN (a \o b) /\ (a \o b)[k] = a[k]
         /\ \A k \in DOMAIN b : k + Len(a) \in DOMAIN (a \o b) /\ (a \o b)[k + Len(a)] = b[k]
  OBVIOUS

LEMMA JoinedSet ==
  ASSUME NEW S, NEW a \in Seq(S), NEW b \in Seq(S)
  PROVE  /\ ToSet(a \o b) = ToSet(a) \cup ToSet(b)
         /\ IsInjective(a) /\ IsInjective(b) /\ ToSet(a) \cap ToSet(b) = {} => IsInjective(a \o b)
<1> DEFINE t == a \o b
<1>1. /\ Len(a) \in Nat /\ DOMAIN a = 1 .. Len(a) /\ DOMAIN b = 1 .. Len(b)
      /\ \A k \in DOMAIN t :
            IF k \in DOMAIN a THEN t[k] = a[k]
            ELSE k - Len(a) \in DOMAIN b /\ t[k] = b[k - Len(a)]
      /\ \A k \in DOMAIN a : k \in DOMAIN t /\ t[k] = a[k]
      /\ \A k \in DOMAIN b : k + Len(a) \in DOMAIN t /\ t[k + Len(a)] = b[k]
      /\ t \in Seq(S)
  BY JoinedIs
<1> HIDE DEF t
<1>2. ToSet(t) = ToSet(a) \cup ToSet(b)
  <2>1. ASSUME NEW x \in ToSet(t) PROVE x \in ToSet(a) \cup ToSet(b)
    BY <1>1 DEF ToSet
  <2>2. ToSet(a) \subseteq ToSet(t)
    BY <1>1 DEF ToSet
  <2>3. ASSUME NEW x \in ToSet(b) PROVE x \in ToSet(t)
    BY <1>1 DEF ToSet
  <2> QED BY <2>1, <2>2, <2>3
<1>3. ASSUME IsInjective(a), IsInjective(b), ToSet(a) \cap ToSet(b) = {} PROVE IsInjective(t)
  <2> SUFFICES ASSUME NEW m \in DOMAIN t, NEW n \in DOMAIN t, t[m] = t[n] PROVE m = n
    BY DEF IsInjective
  <2>1. \A j \in DOMAIN a, k \in DOMAIN b : a[j] # b[k]
    BY <1>3 DEF ToSet
  <2>2. CASE m \in DOMAIN a /\ n \in DOMAIN a
    BY <1>1, <1>3, <2>2 DEF IsInjective
  <2>3. CASE m \notin DOMAIN a /\ n \notin DOMAIN a
    <3>1. m - Len(a) \in DOMAIN b /\ n - Len(a) \in DOMAIN b /\ b[m - Len(a)] = b[n - Len(a)]
      BY <1>1, <2>3
    <3>2. m - Len(a) = n - Len(a)
      BY <1>3, <3>1 DEF IsInjective
    <3>3. m \in Nat /\ n \in Nat
      BY <1>1
    <3> QED BY <1>1, <3>2, <3>3
  <2>4. CASE m \in DOMAIN a /\ n \notin DOMAIN a
    BY <1>1, <2>1, <2>4
  <2>5. CASE m \notin DOMAIN a /\ n \in DOMAIN a
    BY <1>1, <2>1, <2>5
  <2> QED BY <2>2, <2>3, <2>4, <2>5
<1> QED BY <1>2, <1>3 DEF t

(* The members of a finite set in any order: each of them once.            *)
LEMMA OrderedIs ==
  ASSUME NEW S, IsFiniteSet(S), NEW s \in SetToSeqs(S)
  PROVE  s \in Seq(S) /\ ToSet(s) = S /\ IsInjective(s)
<1> DEFINE D == 1 .. Cardinality(S)
<1>1. s \in [D -> S] /\ \A j, k \in D : j # k => s[j] # s[k]
  BY DEF SetToSeqs
<1>2. Cardinality(S) \in Nat
  BY FS_CardinalityType
<1>3. IsFiniteSet(D) /\ Cardinality(D) = Cardinality(S)
  BY <1>2, FS_Interval
<1>4. s \in Seq(S)
  BY <1>1, <1>2
<1> HIDE DEF D
<1>5. IsInjective(s)
  BY <1>1 DEF IsInjective
<1>6. s \in Injection(D, S)
  BY <1>1, <1>5 DEF Injection
<1>7. s \in Surjection(D, S)
  BY <1>3, <1>6, FS_Injection
<1>8. \A x \in S : \E k \in D : s[k] = x
  BY <1>7 DEF Surjection
<1> QED BY <1>1, <1>4, <1>5, <1>8 DEF ToSet

-----------------------------------------------------------------------------
(* Steps that change who is awake and who is a crow.                       *)

(* m is l after such a step: nobody comes or goes or changes hands, and    *)
(* entries are added to the current list only.                             *)
Moves(l, m) ==
    /\ m \in List /\ Exact(m)
    /\ m.live = l.live /\ m.doomed = l.doomed /\ m.queue = l.queue /\ m.parent = l.parent
    /\ m.current = l.current /\ m.vec[1 - l.current] = l.vec[1 - l.current]
    /\ ToSet(l.vec[l.current]) \subseteq ToSet(m.vec[l.current])
    /\ ToSet(m.vec[l.current]) \subseteq ToSet(l.vec[l.current]) \cup l.live
    /\ m.crow \subseteq l.crow \cup ToSet(m.vec[l.current])

LEMMA ListFields ==
  ASSUME NEW l \in List
  PROVE  /\ l.live \subseteq Objects /\ l.active \subseteq Objects /\ l.sleeping \subseteq Objects
         /\ l.crow \subseteq Objects /\ l.doomed \subseteq Objects
         /\ l.counter \in [Objects -> 0 .. 1] /\ l.current \in 0 .. 1
         /\ l.vec \in [0 .. 1 -> Seq(Objects \cup {Freed})]
         /\ l.queue \in Seq(Objects) /\ l.parent \in [Objects -> Holders \cup {Nobody}]
         /\ l.vec[0] \in Seq(Objects \cup {Freed}) /\ l.vec[1] \in Seq(Objects \cup {Freed})
         /\ 1 - l.current \in 0 .. 1 /\ 1 - l.current # l.current
         /\ l.vec[l.current] \in Seq(Objects \cup {Freed})
<1>1. l.vec \in [0 .. 1 -> Seq(Objects \cup {Freed})] /\ l.current \in 0 .. 1
  BY DEF List
<1>2. /\ l.vec[0] \in Seq(Objects \cup {Freed}) /\ l.vec[1] \in Seq(Objects \cup {Freed})
      /\ l.vec[l.current] \in Seq(Objects \cup {Freed})
  BY ONLY <1>1
<1>3. 1 - l.current \in 0 .. 1 /\ 1 - l.current # l.current
  BY ONLY <1>1
<1> QED BY <1>1, <1>2, <1>3 DEF List

LEMMA MovesSound ==
  ASSUME NEW l, Sound(l), NEW m, Moves(l, m)
  PROVE  Sound(m)
<1>1. /\ m \in List /\ Exact(m)
      /\ m.live = l.live /\ m.doomed = l.doomed /\ m.queue = l.queue /\ m.parent = l.parent
      /\ m.current = l.current /\ m.vec[1 - l.current] = l.vec[1 - l.current]
      /\ ToSet(l.vec[l.current]) \subseteq ToSet(m.vec[l.current])
      /\ ToSet(m.vec[l.current]) \subseteq ToSet(l.vec[l.current]) \cup l.live
      /\ m.crow \subseteq l.crow \cup ToSet(m.vec[l.current])
  BY DEF Moves
<1>2. BottomUp(m)
  BY <1>1 DEF Sound, BottomUp, Children
<1>3. Families(m)
  BY <1>1 DEF Sound, Families
<1>4. CrowsKnown(m)
  <2>1. l.current \in 0 .. 1 /\ \A v \in 0 .. 1 : v = l.current \/ v = 1 - l.current
    <3>1. l.current \in 0 .. 1
      BY ListFields DEF Sound
    <3> QED BY <3>1
  <2>2. /\ \A v \in 0 .. 1 : ToSet(l.vec[v]) \subseteq l.live \cup {Freed}
        /\ l.crow \subseteq ToSet(l.vec[0]) \cup ToSet(l.vec[1])
    BY DEF Sound, CrowsKnown
  <2>3. \A v \in 0 .. 1 : /\ ToSet(l.vec[v]) \subseteq ToSet(m.vec[v])
                          /\ ToSet(m.vec[v]) \subseteq m.live \cup {Freed}
    BY ONLY <1>1, <2>1, <2>2
  <2>4. m.crow \subseteq ToSet(m.vec[0]) \cup ToSet(m.vec[1])
    <3>1. l.crow \subseteq ToSet(m.vec[0]) \cup ToSet(m.vec[1])
      BY <2>2, <2>3
    <3>2. l.current = 0 \/ l.current = 1
      BY <2>1
    <3> QED BY ONLY <3>1, <3>2, <1>1
  <2> QED BY <2>3, <2>4 DEF CrowsKnown
<1> QED BY <1>1, <1>2, <1>3, <1>4 DEF Sound

LEMMA MovesOn ==
  ASSUME NEW l, NEW m, NEW n, Moves(l, m), Moves(m, n)
  PROVE  Moves(l, n)
<1>1. /\ m.live = l.live /\ m.doomed = l.doomed /\ m.queue = l.queue /\ m.parent = l.parent
      /\ m.current = l.current /\ m.vec[1 - l.current] = l.vec[1 - l.current]
      /\ ToSet(l.vec[l.current]) \subseteq ToSet(m.vec[l.current])
      /\ ToSet(m.vec[l.current]) \subseteq ToSet(l.vec[l.current]) \cup l.live
      /\ m.crow \subseteq l.crow \cup ToSet(m.vec[l.current])
  BY DEF Moves
<1>2. /\ n \in List /\ Exact(n)
      /\ n.live = m.live /\ n.doomed = m.doomed /\ n.queue = m.queue /\ n.parent = m.parent
      /\ n.current = m.current /\ n.vec[1 - l.current] = m.vec[1 - l.current]
      /\ ToSet(m.vec[l.current]) \subseteq ToSet(n.vec[l.current])
      /\ ToSet(n.vec[l.current]) \subseteq ToSet(m.vec[l.current]) \cup m.live
      /\ n.crow \subseteq m.crow \cup ToSet(n.vec[l.current])
  BY <1>1 DEF Moves
<1>3. /\ n.vec[1 - l.current] = l.vec[1 - l.current]
      /\ ToSet(l.vec[l.current]) \subseteq ToSet(n.vec[l.current])
      /\ ToSet(n.vec[l.current]) \subseteq ToSet(l.vec[l.current]) \cup l.live
      /\ n.crow \subseteq l.crow \cup ToSet(n.vec[l.current])
  BY ONLY <1>1, <1>2
<1> QED BY <1>1, <1>2, <1>3 DEF Moves

LEMMA Stays ==
  ASSUME NEW l, Sound(l)
  PROVE  Moves(l, l)
BY DEF Sound, Moves

(* MadeCrow: nothing changes, or an entry is added and marked.             *)
LEMMA MadeCrowIs ==
  ASSUME NEW l \in List, NEW o \in Objects, NEW m, m = MadeCrow(l, o)
  PROVE  /\ m \in List
         /\ m.live = l.live /\ m.doomed = l.doomed /\ m.queue = l.queue /\ m.parent = l.parent
         /\ m.counter = l.counter /\ m.active = l.active /\ m.sleeping = l.sleeping
         /\ m.current = l.current /\ m.vec[1 - l.current] = l.vec[1 - l.current]
         /\ \/ m = l /\ (o \in l.crow \/ ~(l.counter[o] > 0))
            \/ /\ o \notin l.crow /\ l.counter[o] > 0
               /\ m.crow = l.crow \cup {o}
               /\ m.vec[l.current] = Append(l.vec[l.current], o)
<1>1. CASE o \in l.crow \/ ~Enabled(l, o)
  <2>1. m = l
    BY <1>1 DEF MadeCrow
  <2> QED BY <1>1, <2>1 DEF Enabled
<1>2. CASE ~(o \in l.crow \/ ~Enabled(l, o))
  <2>1. m = [l EXCEPT !.crow = @ \cup {o}, !.vec[l.current] = Append(@, o)]
    BY <1>2 DEF MadeCrow
  <2>2. /\ l.crow \subseteq Objects /\ l.current \in 0 .. 1
        /\ l.vec \in [0 .. 1 -> Seq(Objects \cup {Freed})]
        /\ l.vec[l.current] \in Seq(Objects \cup {Freed})
        /\ 1 - l.current \in 0 .. 1 /\ 1 - l.current # l.current
    BY ListFields
  <2> DEFINE a == Append(l.vec[l.current], o)
             V == [l.vec EXCEPT ![l.current] = a]
  <2>3. a \in Seq(Objects \cup {Freed})
    BY <2>2, AppendedIs
  <2> HIDE DEF a
  <2>4. V \in [0 .. 1 -> Seq(Objects \cup {Freed})] /\ V[l.current] = a
        /\ V[1 - l.current] = l.vec[1 - l.current]
    BY ONLY <2>2, <2>3
  <2>5. m = [l EXCEPT !.crow = l.crow \cup {o}, !.vec = V]
    BY <2>1 DEF a, List
  <2> HIDE DEF V
  <2>6. l.crow \cup {o} \in SUBSET Objects
    BY <2>2
  <2>7. m \in List
    BY <2>4, <2>5, <2>6 DEF List
  <2>8. m.crow = l.crow \cup {o} /\ m.vec = V
    BY <2>5 DEF List
  <2>9. /\ m.live = l.live /\ m.doomed = l.doomed /\ m.queue = l.queue /\ m.parent = l.parent
        /\ m.counter = l.counter /\ m.active = l.active /\ m.sleeping = l.sleeping
        /\ m.current = l.current
    BY <2>5 DEF List
  <2> QED BY <1>2, <2>4, <2>7, <2>8, <2>9 DEF a, Enabled
<1> QED BY <1>1, <1>2

LEMMA CrowMade ==
  ASSUME NEW l, Sound(l), NEW o \in l.live, NEW m, m = MadeCrow(l, o)
  PROVE  /\ Moves(l, m)
         /\ m.active = l.active /\ m.counter = l.counter
         /\ l.crow \subseteq m.crow /\ m.crow \subseteq l.crow \cup {o}
         /\ l.counter[o] > 0 => o \in m.crow
         /\ ToSet(m.vec[l.current]) \subseteq ToSet(l.vec[l.current]) \cup {o}
         /\ Fresh(l) => Fresh(m)
<1>1. l \in List /\ o \in Objects /\ o # Freed
  BY ListFields, ObjectListAssumption DEF Sound
<1>2. /\ m \in List
      /\ m.live = l.live /\ m.doomed = l.doomed /\ m.queue = l.queue /\ m.parent = l.parent
      /\ m.counter = l.counter /\ m.active = l.active /\ m.sleeping = l.sleeping
      /\ m.current = l.current /\ m.vec[1 - l.current] = l.vec[1 - l.current]
      /\ \/ m = l /\ (o \in l.crow \/ ~(l.counter[o] > 0))
         \/ /\ o \notin l.crow /\ l.counter[o] > 0
            /\ m.crow = l.crow \cup {o}
            /\ m.vec[l.current] = Append(l.vec[l.current], o)
  BY <1>1, MadeCrowIs
<1>3. CASE m = l /\ (o \in l.crow \/ ~(l.counter[o] > 0))
  BY <1>3, Stays
<1>4. CASE /\ o \notin l.crow /\ l.counter[o] > 0
           /\ m.crow = l.crow \cup {o}
           /\ m.vec[l.current] = Append(l.vec[l.current], o)
  <2>1. /\ l.vec[l.current] \in Seq(Objects \cup {Freed})
        /\ o \in Objects \cup {Freed}
    BY <1>1, ListFields
  <2>2. /\ ToSet(m.vec[l.current]) = ToSet(l.vec[l.current]) \cup {o}
        /\ IsInjective(l.vec[l.current]) /\ o \notin ToSet(l.vec[l.current])
              => IsInjective(m.vec[l.current])
    BY <1>4, <2>1, AppendedIs
  <2>3. Exact(m)
    BY <1>2 DEF Sound, Exact
  <2>4. Moves(l, m)
    BY <1>2, <1>4, <2>2, <2>3 DEF Moves
  <2>5. ASSUME Fresh(l) PROVE Fresh(m)
    <3>1. /\ \A v \in 0 .. 1 : IsInjective(l.vec[v]) /\ Freed \notin ToSet(l.vec[v])
          /\ ToSet(l.vec[l.current]) \subseteq l.crow
      BY <2>5 DEF Fresh
    <3>2. l.current \in 0 .. 1 /\ \A v \in 0 .. 1 : v = l.current \/ v = 1 - l.current
      <4>1. l.current \in 0 .. 1
        BY <1>1, ListFields
      <4> QED BY <4>1
    <3>3. IsInjective(m.vec[l.current]) /\ Freed \notin ToSet(m.vec[l.current])
      BY ONLY <1>1, <1>4, <2>2, <3>1, <3>2
    <3>4. \A v \in 0 .. 1 : IsInjective(m.vec[v]) /\ Freed \notin ToSet(m.vec[v])
      BY ONLY <1>2, <3>1, <3>2, <3>3
    <3>5. ToSet(m.vec[m.current]) \subseteq m.crow
      BY <1>2, <1>4, <2>2, <3>1
    <3> QED BY <3>4, <3>5 DEF Fresh
  <2> QED BY <1>2, <1>4, <2>2, <2>4, <2>5
<1> QED BY <1>2, <1>3, <1>4

LEMMA Unmarked ==
  ASSUME NEW l, Sound(l), NEW o, NEW m, m = NotACrow(l, o)
  PROVE  /\ Moves(l, m)
         /\ m.crow = l.crow \ {o} /\ m.vec = l.vec /\ m.active = l.active /\ m.counter = l.counter
         /\ Fresh(l) /\ o \notin ToSet(l.vec[l.current]) => Fresh(m)
<1>1. l \in List /\ l.crow \subseteq Objects
  BY ListFields DEF Sound
<1>2. /\ m.live = l.live /\ m.doomed = l.doomed /\ m.queue = l.queue /\ m.parent = l.parent
      /\ m.counter = l.counter /\ m.active = l.active /\ m.sleeping = l.sleeping
      /\ m.current = l.current /\ m.vec = l.vec /\ m.crow = l.crow \ {o}
  BY <1>1 DEF NotACrow, List
<1>3. m \in List
  <2>1. m = [l EXCEPT !.crow = l.crow \ {o}] /\ l.crow \ {o} \in SUBSET Objects
    BY <1>1 DEF NotACrow, List
  <2> QED BY <1>1, <2>1 DEF List
<1>4. Exact(m)
  BY <1>2 DEF Sound, Exact
<1>5. Moves(l, m)
  BY <1>2, <1>3, <1>4 DEF Moves
<1> QED BY <1>2, <1>5 DEF Fresh

(* An object is put to sleep; its mark and its entries stay.               *)
LEMMA Slept ==
  ASSUME NEW l, Sound(l), NEW o \in l.live, NEW m, m = Deactivated(l, o)
  PROVE  /\ Moves(l, m)
         /\ m.crow = l.crow /\ m.vec = l.vec /\ m.active = l.active \ {o}
         /\ Fresh(l) => Fresh(m)
<1>1. /\ l \in List /\ o \in Objects /\ l.active \subseteq Objects /\ l.sleeping \subseteq Objects
      /\ l.counter \in [Objects -> 0 .. 1]
  BY ListFields DEF Sound
<1> DEFINE C == [l.counter EXCEPT ![o] = 0]
<1>2. /\ C \in [Objects -> 0 .. 1] /\ C[o] = 0
      /\ \A x \in Objects \ {o} : C[x] = l.counter[x]
  BY ONLY <1>1
<1>3. m = [l EXCEPT !.counter = C, !.active = l.active \ {o}, !.sleeping = l.sleeping \cup {o}]
  BY <1>1 DEF Deactivated, List
<1> HIDE DEF C
<1>4. /\ m.live = l.live /\ m.doomed = l.doomed /\ m.queue = l.queue /\ m.parent = l.parent
      /\ m.counter = C /\ m.active = l.active \ {o} /\ m.sleeping = l.sleeping \cup {o}
      /\ m.current = l.current /\ m.vec = l.vec /\ m.crow = l.crow
  BY <1>1, <1>3 DEF List
<1>5. m \in List
  <2>1. l.active \ {o} \in SUBSET Objects /\ l.sleeping \cup {o} \in SUBSET Objects
    BY <1>1
  <2> QED BY <1>1, <1>2, <1>3, <2>1 DEF List
<1>6. Exact(m)
  <2>1. /\ l.active = {x \in l.live : l.counter[x] > 0} /\ l.sleeping = l.live \ l.active
        /\ ToSet(l.queue) = l.doomed /\ IsInjective(l.queue) /\ l.doomed \subseteq l.live
        /\ l.live \subseteq Objects
    BY <1>1, ListFields DEF Sound, Exact
  <2>2. m.active = {x \in m.live : m.counter[x] > 0}
    BY ONLY <1>2, <1>4, <2>1
  <2>3. m.sleeping = m.live \ m.active
    BY <1>4, <2>1
  <2> QED BY <1>4, <2>1, <2>2, <2>3 DEF Exact
<1>7. Moves(l, m)
  BY <1>4, <1>5, <1>6 DEF Moves
<1> QED BY <1>4, <1>7 DEF Fresh

(* An object is woken, also one that is neither awake nor asleep yet.      *)
LEMMA Woken ==
  ASSUME NEW l, Sound(l), NEW o \in l.live, NEW m, m = Activated(l, o)
  PROVE  /\ Moves(l, m)
         /\ m.active = l.active \cup {o} /\ l.crow \subseteq m.crow
         /\ Fresh(l) => Fresh(m)
<1>1. /\ l \in List /\ o \in Objects /\ l.active \subseteq Objects /\ l.sleeping \subseteq Objects
      /\ l.counter \in [Objects -> 0 .. 1]
  BY ListFields DEF Sound
<1> DEFINE C == [l.counter EXCEPT ![o] = 1]
           n == [l EXCEPT !.counter[o] = 1, !.sleeping = @ \ {o}, !.active = @ \cup {o}]
<1>2. /\ C \in [Objects -> 0 .. 1] /\ C[o] = 1
      /\ \A x \in Objects \ {o} : C[x] = l.counter[x]
  BY ONLY <1>1
<1>3. n = [l EXCEPT !.counter = C, !.sleeping = l.sleeping \ {o}, !.active = l.active \cup {o}]
  BY <1>1 DEF List
<1>4. m = MadeCrow(n, o)
  BY DEF Activated
<1> HIDE DEF C, n
<1>5. /\ n.live = l.live /\ n.doomed = l.doomed /\ n.queue = l.queue /\ n.parent = l.parent
      /\ n.counter = C /\ n.active = l.active \cup {o} /\ n.sleeping = l.sleeping \ {o}
      /\ n.current = l.current /\ n.vec = l.vec /\ n.crow = l.crow
  BY <1>1, <1>3 DEF List
<1>6. n \in List
  <2>1. l.active \cup {o} \in SUBSET Objects /\ l.sleeping \ {o} \in SUBSET Objects
    BY <1>1
  <2> QED BY <1>1, <1>2, <1>3, <2>1 DEF List
<1>7. Exact(n)
  <2>1. /\ l.active = {x \in l.live : l.counter[x] > 0} /\ l.sleeping = l.live \ l.active
        /\ ToSet(l.queue) = l.doomed /\ IsInjective(l.queue) /\ l.doomed \subseteq l.live
        /\ l.live \subseteq Objects
    BY <1>1, ListFields DEF Sound, Exact
  <2>2. n.active = {x \in n.live : n.counter[x] > 0}
    BY ONLY <1>2, <1>5, <2>1, o \in l.live
  <2>3. n.sleeping = n.live \ n.active
    BY <1>5, <2>1
  <2> QED BY <1>5, <2>1, <2>2, <2>3 DEF Exact
<1>8. Moves(l, n)
  BY <1>5, <1>6, <1>7 DEF Moves
<1>9. Sound(n) /\ o \in n.live
  BY <1>5, <1>8, MovesSound
<1>10. Moves(n, m) /\ m.active = n.active /\ n.crow \subseteq m.crow /\ (Fresh(n) => Fresh(m))
  BY <1>4, <1>9, CrowMade
<1>11. Fresh(l) => Fresh(n)
  BY <1>5 DEF Fresh
<1> QED BY <1>5, <1>8, <1>10, <1>11, MovesOn

LEMMA Switched ==
  ASSUME NEW l, Sound(l), NEW o \in l.live, NEW m, m = Toggled(l, o)
  PROVE  /\ Moves(l, m) /\ l.crow \subseteq m.crow
         /\ Fresh(l) => Fresh(m)
<1>1. CASE Enabled(l, o)
  BY <1>1, Slept DEF Toggled
<1>2. CASE ~Enabled(l, o)
  BY <1>2, Woken DEF Toggled
<1> QED BY <1>1, <1>2

(* UpdateCL of o, which is no crow any more.  If it moves nothing, a list  *)
(* whose current entries were all updated has o beside them at most.       *)
LEMMA Ran ==
  ASSUME NEW l, Sound(l), NEW o \in l.live, moved \in BOOLEAN,
         NEW a \in UpdateCL(NotACrow(l, o), o)
  PROVE  /\ Moves(l, a.list) /\ a.moved \in BOOLEAN
         /\ moved => a.moved
         /\ \A up : /\ ~a.moved /\ Fresh(l)
                    /\ ToSet(l.vec[l.current]) \subseteq up /\ o \notin up
                    => /\ Fresh(a.list)
                       /\ ToSet(a.list.vec[l.current]) \subseteq up \cup {o}
<1> DEFINE n == NotACrow(l, o)
<1>1. /\ Moves(l, n) /\ n.crow = l.crow \ {o} /\ n.vec = l.vec
      /\ Fresh(l) /\ o \notin ToSet(l.vec[l.current]) => Fresh(n)
  BY Unmarked
<1>2. Sound(n) /\ n.live = l.live /\ n.current = l.current
  BY <1>1, MovesSound DEF Moves
<1> HIDE DEF n
<1> DEFINE self == {n, MadeCrow(n, o)}
<1>3. ASSUME NEW m \in self
      PROVE  /\ Moves(n, m)
             /\ Fresh(n) => Fresh(m)
             /\ ToSet(m.vec[n.current]) \subseteq ToSet(n.vec[n.current]) \cup {o}
  <2>1. CASE m = n
    BY <2>1, <1>2, Stays
  <2>2. CASE m = MadeCrow(n, o)
    BY <2>2, <1>2, CrowMade
  <2> QED BY <2>1, <2>2
<1>4. a \in [list : self, moved : {moved}]
         \cup {[list |-> Toggled(m, x), moved |-> TRUE] :
                  m \in self, x \in {c \in Children(n, o) : o \in Handlers}}
  BY DEF UpdateCL, n
<1> HIDE DEF self
<1>5. CASE a \in [list : self, moved : {moved}]
  <2>1. a.list \in self /\ a.moved = moved
    BY <1>5
  <2>2. /\ Moves(n, a.list)
        /\ Fresh(n) => Fresh(a.list)
        /\ ToSet(a.list.vec[n.current]) \subseteq ToSet(n.vec[n.current]) \cup {o}
    BY <2>1, <1>3
  <2>3. Moves(l, a.list)
    BY <2>2, <1>1, MovesOn
  <2>4. ASSUME NEW up, Fresh(l), ToSet(l.vec[l.current]) \subseteq up, o \notin up
        PROVE  /\ Fresh(a.list)
               /\ ToSet(a.list.vec[l.current]) \subseteq up \cup {o}
    <3>1. Fresh(n)
      BY <2>4, <1>1
    <3>2. ToSet(a.list.vec[l.current]) \subseteq ToSet(l.vec[l.current]) \cup {o}
      BY <2>2, <1>1, <1>2
    <3> QED BY <3>1, <3>2, <2>2, <2>4
  <2> QED BY <2>1, <2>3, <2>4
<1>6. ASSUME NEW m \in self, NEW x \in Children(n, o),
             a = [list |-> Toggled(m, x), moved |-> TRUE]
      PROVE  Moves(l, a.list) /\ a.moved = TRUE
  <2>1. Moves(l, m)
    BY <1>1, <1>3, MovesOn
  <2>2. Sound(m) /\ x \in m.live
    BY <2>1, <1>2, <1>6, MovesSound DEF Moves, Children
  <2>3. Moves(m, Toggled(m, x))
    BY <2>2, Switched
  <2> QED BY <2>1, <2>3, <1>6, MovesOn
<1>7. CASE a \notin [list : self, moved : {moved}]
  <2>1. PICK m \in self, x \in Children(n, o) : a = [list |-> Toggled(m, x), moved |-> TRUE]
    BY ONLY <1>4, <1>7
  <2>2. Moves(l, a.list) /\ a.moved = TRUE
    BY <2>1, <1>6
  <2> QED BY <2>2
<1> QED BY <1>5, <1>7

-----------------------------------------------------------------------------
(* Steps that change the objects there are.                                *)

(* What is left of a sequence are elements of it, each once, and all those *)
(* that were not to be removed.                                            *)
LEMMA RemainderIs ==
  ASSUME NEW S, NEW seq \in Seq(S), NEW I \in SUBSET DOMAIN seq,
         NEW W \in Remainders(seq, I)
  PROVE  /\ W \in Seq(S)
         /\ \E h \in [DOMAIN W -> I] :
               /\ \A k \in DOMAIN W : W[k] = seq[h[k]]
               /\ \A j, k \in DOMAIN W : h[j] = h[k] => j = k
               /\ \A n \in I : \E k \in DOMAIN W : h[k] = n
<1>1. DOMAIN seq = 1 .. Len(seq) /\ Len(seq) \in Nat
  OBVIOUS
<1>2. \A n \in I : n \in Nat /\ seq[n] \in S
  BY <1>1
<1>3. PICK h \in Enumerations(I) : W = [k \in DOMAIN h |-> seq[h[k]]]
  BY DEF Remainders
<1>4. Cardinality(I) \in Nat
  <2>1. IsFiniteSet(1 .. Len(seq))
    BY <1>1, FS_Interval
  <2>2. IsFiniteSet(I)
    BY <1>1, <2>1, FS_Subset
  <2> QED BY <2>2, FS_CardinalityType
<1> DEFINE c == Cardinality(I)
<1>5. /\ h \in [1 .. c -> I]
      /\ \A n \in I : \E k \in 1 .. c : h[k] = n
      /\ \A j, k \in 1 .. c : j < k => h[j] < h[k]
  BY <1>3 DEF Enumerations
<1>6. c \in Nat
  BY <1>4
<1> HIDE DEF c
<1>7. DOMAIN h = 1 .. c /\ \A k \in 1 .. c : h[k] \in I
  BY <1>5
<1>8. DOMAIN W = 1 .. c /\ \A k \in 1 .. c : W[k] = seq[h[k]]
  BY ONLY <1>3, <1>7
<1>9. W \in Seq(S)
  <2>1. \A k \in 1 .. c : W[k] \in S
    BY ONLY <1>2, <1>7, <1>8
  <2>2. W = [k \in 1 .. c |-> W[k]]
    BY <1>3, <1>7
  <2> QED BY ONLY <2>1, <2>2, <1>6
<1>10. \A j, k \in 1 .. c : h[j] = h[k] => j = k
  <2> SUFFICES ASSUME NEW j \in 1 .. c, NEW k \in 1 .. c, h[j] = h[k] PROVE j = k
    OBVIOUS
  <2>1. h[j] \in Nat /\ h[k] \in Nat
    BY ONLY <1>2, <1>7
  <2>2. ~(j < k) /\ ~(k < j)
    BY <1>5, <2>1
  <2> QED BY <1>6, <2>2
<1>11. h \in [DOMAIN W -> I]
  BY ONLY <1>5, <1>8
<1>12. /\ \A k \in DOMAIN W : W[k] = seq[h[k]]
       /\ \A j, k \in DOMAIN W : h[j] = h[k] => j = k
       /\ \A n \in I : \E k \in DOMAIN W : h[k] = n
  BY ONLY <1>5, <1>8, <1>10
<1> QED BY <1>9, <1>11, <1>12

(* A list of crows of which the objects of gone were destroyed keeps the   *)
(* others.  Where no object has two entries nothing freed is left behind.  *)
LEMMA CrowsLeft ==
  ASSUME NEW gone \in SUBSET Objects, NEW s \in Seq(Objects \cup {Freed}),
         NEW t \in CrowsWithout(s, gone)
  PROVE  /\ t \in Seq(Objects \cup {Freed})
         /\ ToSet(t) \subseteq (ToSet(s) \ gone) \cup {Freed}
         /\ ToSet(s) \ gone \subseteq ToSet(t)
         /\ IsInjective(s) /\ Freed \notin ToSet(s) => IsInjective(t) /\ Freed \notin ToSet(t)
<1> DEFINE I == DOMAIN s \ Erased(s, gone)
<1>1. PICK r \in Remainders(s, I) :
         t = [k \in DOMAIN r |-> IF r[k] \in gone THEN Freed ELSE r[k]]
  BY DEF CrowsWithout
<1>2. I \in SUBSET DOMAIN s /\ \A k \in DOMAIN s : s[k] \notin gone => k \in I
  BY DEF Erased
<1>3. ASSUME IsInjective(s) PROVE \A k \in I : s[k] \notin gone
  <2> SUFFICES ASSUME NEW k \in DOMAIN s, s[k] \in gone PROVE k \in Erased(s, gone)
    OBVIOUS
  <2>1. ASSUME NEW j \in 1 .. k - 1 PROVE s[j] # s[k]
    <3>1. j \in DOMAIN s /\ j # k
      OBVIOUS
    <3> QED BY <1>3, <3>1 DEF IsInjective
  <2> QED BY <2>1 DEF Erased
<1> HIDE DEF I
<1>4. r \in Seq(Objects \cup {Freed})
  BY <1>2, RemainderIs
<1>5. PICK h \in [DOMAIN r -> I] :
               /\ \A k \in DOMAIN r : r[k] = s[h[k]]
               /\ \A j, k \in DOMAIN r : h[j] = h[k] => j = k
               /\ \A n \in I : \E k \in DOMAIN r : h[k] = n
  BY <1>2, RemainderIs
<1>6. /\ DOMAIN r = 1 .. Len(r) /\ Len(r) \in Nat
      /\ \A k \in DOMAIN r : r[k] \in Objects \cup {Freed}
  BY <1>4
<1>7. DOMAIN t = DOMAIN r /\ \A k \in DOMAIN r : t[k] = IF r[k] \in gone THEN Freed ELSE r[k]
  BY <1>1
<1>8. t \in Seq(Objects \cup {Freed})
  <2>1. \A k \in 1 .. Len(r) : t[k] \in Objects \cup {Freed}
    BY <1>6, <1>7
  <2>2. t = [k \in 1 .. Len(r) |-> t[k]]
    BY <1>1, <1>6
  <2> QED BY ONLY <1>6, <2>1, <2>2
<1>9. ToSet(t) \subseteq (ToSet(s) \ gone) \cup {Freed}
  <2> SUFFICES ASSUME NEW k \in DOMAIN r, t[k] # Freed PROVE t[k] \in ToSet(s) \ gone
    BY <1>7 DEF ToSet
  <2>1. t[k] = r[k] /\ r[k] \notin gone
    BY <1>7
  <2>2. h[k] \in DOMAIN s /\ r[k] = s[h[k]]
    BY <1>2, <1>5
  <2> QED BY <2>1, <2>2 DEF ToSet
<1>10. ToSet(s) \ gone \subseteq ToSet(t)
  <2> SUFFICES ASSUME NEW n \in DOMAIN s, s[n] \notin gone PROVE s[n] \in ToSet(t)
    BY DEF ToSet
  <2>1. PICK k \in DOMAIN r : h[k] = n
    BY <1>2, <1>5
  <2>2. t[k] = s[n]
    BY <2>1, <1>5, <1>7
  <2> QED BY <2>2, <1>7 DEF ToSet
<1>11. ASSUME IsInjective(s), Freed \notin ToSet(s)
       PROVE  IsInjective(t) /\ Freed \notin ToSet(t)
  <2>1. \A k \in DOMAIN r : h[k] \in DOMAIN s /\ t[k] = s[h[k]]
    BY <1>2, <1>3, <1>5, <1>7, <1>11
  <2>2. IsInjective(t)
    <3> SUFFICES ASSUME NEW j \in DOMAIN r, NEW k \in DOMAIN r, t[j] = t[k] PROVE j = k
      BY <1>7 DEF IsInjective
    <3>1. h[j] = h[k]
      BY <2>1, <1>11 DEF IsInjective
    <3> QED BY <3>1, <1>5
  <2>3. Freed \notin ToSet(t)
    BY <2>1, <1>7, <1>11 DEF ToSet
  <2> QED BY <2>2, <2>3
<1> QED BY <1>8, <1>9, <1>10, <1>11

LEMMA QueueEmptied ==
  ASSUME NEW l, Sound(l), NEW m \in DestroyQueueProcessed(l)
  PROVE  /\ Sound(m)
         /\ m.live = l.live \ l.doomed /\ m.active = l.active \ l.doomed
         /\ m.crow = l.crow \ l.doomed /\ m.doomed = {} /\ m.current = l.current
         /\ \A v \in 0 .. 1 : ToSet(l.vec[v]) \ l.doomed \subseteq ToSet(m.vec[v])
         /\ Fresh(l) => Fresh(m)
<1> DEFINE gone == l.doomed
<1>1. /\ l \in List /\ gone \subseteq Objects /\ l.live \subseteq Objects
      /\ l.active \subseteq Objects /\ l.sleeping \subseteq Objects /\ l.crow \subseteq Objects
      /\ l.counter \in [Objects -> 0 .. 1] /\ l.parent \in [Objects -> Holders \cup {Nobody}]
      /\ l.current \in 0 .. 1
      /\ l.vec[0] \in Seq(Objects \cup {Freed}) /\ l.vec[1] \in Seq(Objects \cup {Freed})
  BY ListFields DEF Sound
<1>2. ToSet(l.queue) = gone
  BY DEF Sound, Exact
<1> DEFINE C == [o \in Objects |-> IF o \in gone THEN 0 ELSE l.counter[o]]
           P == [o \in Objects |-> IF o \in gone THEN Nobody ELSE l.parent[o]]
<1>3. PICK W : /\ m = Cleared(l, gone, W)
               /\ W \in [0 .. 1 -> CrowsWithout(l.vec[0], gone) \cup CrowsWithout(l.vec[1], gone)]
               /\ \A v \in 0 .. 1 : W[v] \in CrowsWithout(l.vec[v], gone)
  <2>1. m \in Destroyed(l, gone)
    BY <1>2 DEF DestroyQueueProcessed
  <2> HIDE DEF gone
  <2> QED BY <2>1 DEF Destroyed
<1>4. /\ C \in [Objects -> 0 .. 1]
      /\ \A o \in Objects : C[o] = IF o \in gone THEN 0 ELSE l.counter[o]
  BY <1>1
<1>5. /\ P \in [Objects -> Holders \cup {Nobody}]
      /\ \A o \in Objects : P[o] = IF o \in gone THEN Nobody ELSE l.parent[o]
  BY <1>1
<1>6. ASSUME NEW v \in 0 .. 1
      PROVE  /\ W[v] \in Seq(Objects \cup {Freed})
             /\ ToSet(W[v]) \subseteq (ToSet(l.vec[v]) \ gone) \cup {Freed}
             /\ ToSet(l.vec[v]) \ gone \subseteq ToSet(W[v])
             /\ IsInjective(l.vec[v]) /\ Freed \notin ToSet(l.vec[v])
                   => IsInjective(W[v]) /\ Freed \notin ToSet(W[v])
  <2>1. gone \in SUBSET Objects /\ l.vec[v] \in Seq(Objects \cup {Freed})
    BY <1>1
  <2>2. W[v] \in CrowsWithout(l.vec[v], gone)
    BY <1>3
  <2> HIDE DEF gone, C, P
  <2> QED BY <2>1, <2>2, CrowsLeft
<1>7. W \in [0 .. 1 -> Seq(Objects \cup {Freed})]
  BY <1>3, <1>6
<1>8. <<>> \in Seq(Objects) /\ ToSet(<<>>) = {} /\ IsInjective(<<>>) /\ DOMAIN <<>> = {}
  BY DEF ToSet, IsInjective
<1>9. m = [l EXCEPT !.live = l.live \ gone, !.active = l.active \ gone,
                    !.sleeping = l.sleeping \ gone, !.crow = l.crow \ gone,
                    !.doomed = l.doomed \ gone, !.counter = C, !.parent = P,
                    !.vec = W, !.queue = <<>>]
  BY <1>1, <1>3 DEF Cleared, List
<1> HIDE DEF C, P
<1>10. /\ m.live = l.live \ gone /\ m.active = l.active \ gone
       /\ m.sleeping = l.sleeping \ gone /\ m.crow = l.crow \ gone
       /\ m.doomed = l.doomed \ gone /\ m.counter = C /\ m.parent = P
       /\ m.vec = W /\ m.queue = <<>> /\ m.current = l.current
  BY <1>1, <1>9 DEF List
<1>11. m \in List
  <2>1. /\ l.live \ gone \in SUBSET Objects /\ l.active \ gone \in SUBSET Objects
        /\ l.sleeping \ gone \in SUBSET Objects /\ l.crow \ gone \in SUBSET Objects
        /\ l.doomed \ gone \in SUBSET Objects
    BY <1>1
  <2> QED BY <1>1, <1>4, <1>5, <1>7, <1>8, <1>9, <2>1 DEF List
<1>12. Exact(m)
  <2>1. /\ l.active = {o \in l.live : l.counter[o] > 0} /\ l.sleeping = l.live \ l.active
        /\ l.live \subseteq Objects
    BY <1>1 DEF Sound, Exact
  <2>2. m.active = {o \in m.live : m.counter[o] > 0}
    <3>1. \A o \in l.live \ gone : C[o] = l.counter[o]
      BY <1>1, <1>4
    <3> QED BY ONLY <2>1, <3>1, <1>10
  <2>3. m.sleeping = m.live \ m.active
    BY ONLY <1>10, <2>1
  <2> QED BY <1>8, <1>10, <2>2, <2>3 DEF Exact
<1>13. BottomUp(m)
  BY <1>8, <1>10 DEF BottomUp
<1>14. Families(m)
  <2> SUFFICES ASSUME NEW c \in Objects, m.parent[c] # Nobody
               PROVE  /\ c \in m.live \ Holders /\ m.parent[c] \in m.live
                      /\ c \in m.doomed <=> m.parent[c] \in m.doomed
    BY DEF Families
  <2>1. c \notin gone /\ m.parent[c] = l.parent[c]
    BY <1>5, <1>10
  <2>2. /\ c \in l.live \ Holders /\ l.parent[c] \in l.live
        /\ c \in l.doomed <=> l.parent[c] \in l.doomed
    BY <2>1 DEF Sound, Families
  <2> QED BY <1>10, <2>1, <2>2
<1>15. CrowsKnown(m)
  <2>1. /\ \A v \in 0 .. 1 : ToSet(l.vec[v]) \subseteq l.live \cup {Freed}
        /\ l.crow \subseteq ToSet(l.vec[0]) \cup ToSet(l.vec[1])
    BY DEF Sound, CrowsKnown
  <2>2. \A v \in 0 .. 1 : ToSet(W[v]) \subseteq m.live \cup {Freed}
    BY <1>6, <1>10, <2>1
  <2>3. m.crow \subseteq ToSet(W[0]) \cup ToSet(W[1])
    <3>1. /\ ToSet(l.vec[0]) \ gone \subseteq ToSet(W[0])
          /\ ToSet(l.vec[1]) \ gone \subseteq ToSet(W[1])
      BY <1>6
    <3> QED BY <1>10, <2>1, <3>1
  <2> QED BY <1>10, <2>2, <2>3 DEF CrowsKnown
<1>16. \A v \in 0 .. 1 : ToSet(l.vec[v]) \ l.doomed \subseteq ToSet(m.vec[v])
  BY <1>6, <1>10
<1>17. ASSUME Fresh(l) PROVE Fresh(m)
  <2>1. /\ \A v \in 0 .. 1 : IsInjective(l.vec[v]) /\ Freed \notin ToSet(l.vec[v])
        /\ ToSet(l.vec[l.current]) \subseteq l.crow
    BY <1>17 DEF Fresh
  <2>2. \A v \in 0 .. 1 : IsInjective(m.vec[v]) /\ Freed \notin ToSet(m.vec[v])
    BY <1>6, <1>10, <2>1
  <2>3. /\ ToSet(W[l.current]) \subseteq (ToSet(l.vec[l.current]) \ gone) \cup {Freed}
        /\ Freed \notin ToSet(W[l.current])
    BY <1>1, <1>6, <2>1
  <2>4. ToSet(m.vec[m.current]) \subseteq m.crow
    BY <1>10, <2>1, <2>3
  <2> QED BY <2>2, <2>4 DEF Fresh
<1> QED BY <1>11, <1>10, <1>12, <1>13, <1>14, <1>15, <1>16, <1>17 DEF Sound

(* A new object: it has no parent, no mark and no entry yet.               *)
LEMMA Begun ==
  ASSUME NEW l, Sound(l), NEW o \in Objects \ l.live, NEW m, m = Created(l, o)
  PROVE  /\ Sound(m)
         /\ m.live = l.live \cup {o} /\ m.active = l.active \cup {o}
         /\ m.current = l.current /\ l.crow \subseteq m.crow
         /\ m.crow \subseteq l.crow \cup ToSet(m.vec[l.current])
         /\ ToSet(l.vec[l.current]) \subseteq ToSet(m.vec[l.current])
         /\ Fresh(l) => Fresh(m)
<1> DEFINE n == [l EXCEPT !.live = l.live \cup {o}, !.active = l.active \cup {o},
                          !.counter = [l.counter EXCEPT ![o] = 1]]
           C == [l.counter EXCEPT ![o] = 1]
<1>1. /\ l \in List /\ o \in Objects /\ o \notin l.live /\ l.live \subseteq Objects
      /\ l.active \subseteq Objects /\ l.sleeping \subseteq Objects
      /\ l.counter \in [Objects -> 0 .. 1] /\ l.parent \in [Objects -> Holders \cup {Nobody}]
  BY ListFields DEF Sound
<1>2. C \in [Objects -> 0 .. 1] /\ C[o] = 1 /\ \A x \in Objects \ {o} : C[x] = l.counter[x]
  BY ONLY <1>1
<1>3. /\ l.active = {x \in l.live : l.counter[x] > 0} /\ l.sleeping = l.live \ l.active
      /\ ToSet(l.queue) = l.doomed /\ IsInjective(l.queue) /\ l.doomed \subseteq l.live
  BY DEF Sound, Exact
<1>4. n = [l EXCEPT !.live = l.live \cup {o}, !.active = l.active \cup {o}, !.counter = C]
  OBVIOUS
<1>5. m = MadeCrow(n, o)
  <2>1. (l.sleeping \cup {o}) \ {o} = l.sleeping
    BY <1>1, <1>3
  <2> DEFINE b == [l EXCEPT !.live = @ \cup {o}, !.sleeping = @ \cup {o}]
  <2>2. [b EXCEPT !.counter[o] = 1, !.sleeping = @ \ {o}, !.active = @ \cup {o}] = n
    BY <1>1, <2>1 DEF List
  <2> HIDE DEF n
  <2> QED BY <2>2 DEF Created, Activated
<1> HIDE DEF n, C
<1>6. /\ n.live = l.live \cup {o} /\ n.active = l.active \cup {o} /\ n.sleeping = l.sleeping
      /\ n.counter = C /\ n.doomed = l.doomed /\ n.queue = l.queue /\ n.parent = l.parent
      /\ n.current = l.current /\ n.vec = l.vec /\ n.crow = l.crow
  BY <1>1, <1>4 DEF List
<1>7. n \in List
  <2>1. l.live \cup {o} \in SUBSET Objects /\ l.active \cup {o} \in SUBSET Objects
    BY <1>1
  <2> QED BY <1>1, <1>2, <1>4, <2>1 DEF List
<1>8. Exact(n)
  <2>1. n.active = {x \in n.live : n.counter[x] > 0}
    BY ONLY <1>1, <1>2, <1>3, <1>6
  <2>2. n.sleeping = n.live \ n.active
    BY ONLY <1>1, <1>3, <1>6
  <2> QED BY <1>3, <1>6, <2>1, <2>2 DEF Exact
<1>9. l.parent[o] = Nobody
  BY <1>1 DEF Sound, Families
<1>10. BottomUp(n)
  <2> SUFFICES ASSUME NEW k \in DOMAIN l.queue, NEW c \in Children(n, l.queue[k])
               PROVE  \E j \in DOMAIN l.queue : j > k /\ l.queue[j] = c
    BY <1>6 DEF BottomUp
  <2>1. l.queue[k] \in Objects
    <3>1. l.queue \in Seq(Objects)
      BY ListFields DEF Sound
    <3> QED BY <3>1
  <2>2. c # o
    BY <1>6, <1>9, <2>1, ObjectListAssumption DEF Children
  <2>3. c \in Children(l, l.queue[k])
    BY <1>6, <2>2 DEF Children
  <2> QED BY <2>3 DEF Sound, BottomUp
<1>11. Families(n)
  BY <1>6 DEF Sound, Families
<1>12. CrowsKnown(n)
  BY <1>6 DEF Sound, CrowsKnown
<1>13. Sound(n) /\ o \in n.live
  BY <1>6, <1>7, <1>8, <1>10, <1>11, <1>12 DEF Sound
<1>14. /\ Moves(n, m) /\ m.active = n.active /\ n.crow \subseteq m.crow
       /\ Fresh(n) => Fresh(m)
  BY <1>5, <1>13, CrowMade
<1>15. Sound(m)
  BY <1>13, <1>14, MovesSound
<1>16. Fresh(l) => Fresh(n)
  BY <1>6 DEF Fresh
<1> QED BY <1>6, <1>14, <1>15, <1>16 DEF Moves

(* What is true of a list l and of what game code makes of it, m.          *)
Keeps(l, m) ==
    /\ m.current = l.current /\ l.crow \subseteq m.crow
    /\ m.crow \subseteq l.crow \cup ToSet(m.vec[l.current])
    /\ ToSet(l.vec[l.current]) \subseteq ToSet(m.vec[l.current])
    /\ Fresh(l) => Fresh(m)

LEMMA Rehomed ==
  ASSUME NEW l, Sound(l), NEW o \in l.live, NEW p \in Holders \cup {Nobody},
         p # Nobody => o \notin Holders /\ p \in l.live /\ o \notin l.doomed /\ p \notin l.doomed,
         NEW m, m = SetParent(l, o, p)
  PROVE  /\ Sound(m) /\ Keeps(l, m)
         /\ m.live = l.live /\ m.active = l.active /\ m.doomed = l.doomed
         /\ m.parent[o] = p
<1> DEFINE P == [l.parent EXCEPT ![o] = p]
           n == [l EXCEPT !.parent = P]
<1>1. l \in List /\ o \in Objects /\ l.parent \in [Objects -> Holders \cup {Nobody}]
  BY ListFields DEF Sound
<1>2. /\ P \in [Objects -> Holders \cup {Nobody}] /\ P[o] = p
      /\ \A x \in Objects \ {o} : P[x] = l.parent[x]
  BY ONLY <1>1
<1>3. m = MadeCrow(n, o)
  <2>1. n = [l EXCEPT !.parent[o] = p]
    BY <1>1 DEF List
  <2> QED BY <2>1 DEF SetParent
<1> HIDE DEF P
<1>4. /\ n.live = l.live /\ n.active = l.active /\ n.sleeping = l.sleeping
      /\ n.counter = l.counter /\ n.doomed = l.doomed /\ n.queue = l.queue /\ n.parent = P
      /\ n.current = l.current /\ n.vec = l.vec /\ n.crow = l.crow
  BY <1>1 DEF List
<1>5. n \in List
  BY <1>1, <1>2 DEF List
<1> HIDE DEF n
<1>6. Exact(n) /\ CrowsKnown(n)
  BY <1>4 DEF Sound, Exact, CrowsKnown
<1>7. BottomUp(n)
  <2> SUFFICES ASSUME NEW k \in DOMAIN l.queue, NEW c \in Children(n, l.queue[k])
               PROVE  \E j \in DOMAIN l.queue : j > k /\ l.queue[j] = c
    BY <1>4 DEF BottomUp
  <2>1. l.queue[k] \in l.doomed /\ l.queue[k] \in Objects
    <3>1. l.queue[k] \in l.doomed /\ l.doomed \subseteq Objects
      BY ListFields DEF Sound, Exact, ToSet
    <3> QED BY <3>1
  <2>2. c \in l.live /\ P[c] = l.queue[k]
    BY <1>4 DEF Children
  <2>3. c # o
    BY <1>2, <2>1, <2>2, ObjectListAssumption
  <2>4. c \in Children(l, l.queue[k])
    <3>1. c \in Objects
      BY <2>2, ListFields DEF Sound
    <3> QED BY <1>2, <2>2, <2>3, <3>1 DEF Children
  <2> QED BY <2>4 DEF Sound, BottomUp
<1>8. Families(n)
  <2> SUFFICES ASSUME NEW c \in Objects, P[c] # Nobody
               PROVE  /\ c \in l.live \ Holders /\ P[c] \in l.live
                      /\ c \in l.doomed <=> P[c] \in l.doomed
    BY <1>4 DEF Families
  <2>1. CASE c = o
    BY <1>2, <2>1
  <2>2. CASE c # o
    BY <1>2, <2>2 DEF Sound, Families
  <2> QED BY <2>1, <2>2
<1>9. Sound(n) /\ o \in n.live
  BY <1>4, <1>5, <1>6, <1>7, <1>8 DEF Sound
<1>10. /\ Moves(n, m) /\ m.active = n.active /\ n.crow \subseteq m.crow
       /\ Fresh(n) => Fresh(m)
  BY <1>3, <1>9, CrowMade
<1>11. Sound(m)
  BY <1>9, <1>10, MovesSound
<1>12. Fresh(l) => Fresh(n)
  BY <1>4 DEF Fresh
<1>13. Keeps(l, m)
  BY <1>4, <1>10, <1>12 DEF Moves, Keeps
<1>14. m.live = l.live /\ m.active = l.active /\ m.doomed = l.doomed /\ m.parent = P
  BY <1>4, <1>10 DEF Moves
<1> QED BY <1>2, <1>11, <1>13, <1>14

(* An object without a parent is marked, and its children behind it.       *)
LEMMA Marked ==
  ASSUME NEW l, Sound(l), NEW o \in l.live \ l.doomed, l.parent[o] = Nobody,
         NEW m \in Doomed(l, o)
  PROVE  /\ Sound(m) /\ Keeps(l, m)
         /\ m.live = l.live /\ m.active = l.active
<1> DEFINE kids == Children(l, o) \ l.doomed
<1>1. /\ l \in List /\ l.live \subseteq Objects /\ o \in Objects
      /\ l.queue \in Seq(Objects) /\ l.doomed \subseteq Objects
      /\ l.parent \in [Objects -> Holders \cup {Nobody}]
  BY ListFields DEF Sound
<1>2. /\ kids \subseteq Objects /\ kids \subseteq l.live /\ kids \cap l.doomed = {} /\ o \notin kids
      /\ \A c \in kids : l.parent[c] = o
  BY <1>1, ObjectListAssumption DEF Children
<1>3. IsFiniteSet(kids)
  <2>1. IsFiniteSet(Objects)
    BY ObjectListAssumption
  <2> QED BY <1>2, <2>1, FS_Subset
<1>4. PICK s \in SetToSeqs(kids) :
         m = [l EXCEPT !.doomed = @ \cup {o} \cup kids, !.queue = @ \o <<o>> \o s]
  BY DEF Doomed
<1> DEFINE one == <<o>>
           most == l.queue \o one
           q == most \o s
<1> HIDE DEF kids
<1>5. s \in Seq(kids) /\ ToSet(s) = kids /\ IsInjective(s)
  BY <1>3, OrderedIs
<1>6. s \in Seq(Objects)
  BY <1>2, <1>5
<1>7. /\ one \in Seq(Objects) /\ ToSet(one) = {o} /\ IsInjective(one)
      /\ DOMAIN one = {1} /\ Len(one) = 1 /\ one[1] = o
  BY <1>1 DEF ToSet, IsInjective
<1> HIDE DEF one
<1>8. ToSet(l.queue) = l.doomed /\ IsInjective(l.queue) /\ l.doomed \subseteq l.live
  BY DEF Sound, Exact
<1>9. /\ most \in Seq(Objects) /\ Len(l.queue) \in Nat /\ DOMAIN l.queue = 1 .. Len(l.queue)
      /\ \A k \in DOMAIN most :
            IF k \in DOMAIN l.queue THEN most[k] = l.queue[k]
            ELSE k - Len(l.queue) \in DOMAIN one /\ most[k] = one[k - Len(l.queue)]
      /\ \A k \in DOMAIN l.queue : k \in DOMAIN most /\ most[k] = l.queue[k]
      /\ ToSet(most) = l.doomed \cup {o} /\ IsInjective(most)
  <2>1. ToSet(most) = ToSet(l.queue) \cup ToSet(one)
        /\ (ToSet(l.queue) \cap ToSet(one) = {} => IsInjective(most))
    BY <1>1, <1>7, <1>8, JoinedSet
  <2> QED BY <1>1, <1>7, <1>8, <2>1, JoinedIs
<1> HIDE DEF most
<1>10. /\ q \in Seq(Objects) /\ Len(most) \in Nat /\ DOMAIN most = 1 .. Len(most)
       /\ \A k \in DOMAIN q :
             IF k \in DOMAIN most THEN q[k] = most[k]
             ELSE k - Len(most) \in DOMAIN s /\ q[k] = s[k - Len(most)]
       /\ \A k \in DOMAIN most : k \in DOMAIN q /\ q[k] = most[k]
       /\ \A k \in DOMAIN s : k + Len(most) \in DOMAIN q /\ q[k + Len(most)] = s[k]
  BY <1>6, <1>9, JoinedIs
<1>11. ToSet(q) = l.doomed \cup {o} \cup kids /\ IsInjective(q)
  <2>1. ToSet(q) = ToSet(most) \cup ToSet(s)
        /\ (ToSet(most) \cap ToSet(s) = {} => IsInjective(q))
    BY <1>5, <1>6, <1>9, JoinedSet
  <2>2. ToSet(most) \cap ToSet(s) = {}
    BY <1>2, <1>5, <1>9
  <2> QED BY <1>5, <1>9, <2>1, <2>2
<1>12. m = [l EXCEPT !.doomed = l.doomed \cup {o} \cup kids, !.queue = q]
  BY <1>1, <1>4 DEF q, most, one, List
<1> HIDE DEF q
<1>13. /\ m.live = l.live /\ m.active = l.active /\ m.sleeping = l.sleeping
       /\ m.counter = l.counter /\ m.parent = l.parent /\ m.current = l.current
       /\ m.vec = l.vec /\ m.crow = l.crow
       /\ m.doomed = l.doomed \cup {o} \cup kids /\ m.queue = q
  BY <1>1, <1>12 DEF List
<1>14. m \in List
  <2>1. l.doomed \cup {o} \cup kids \in SUBSET Objects
    BY <1>1, <1>2
  <2> QED BY <1>1, <1>10, <1>12, <2>1 DEF List
<1>15. Exact(m) /\ CrowsKnown(m)
  BY <1>2, <1>8, <1>11, <1>13 DEF Sound, Exact, CrowsKnown
<1>16. Families(m)
  <2> SUFFICES ASSUME NEW c \in Objects, l.parent[c] # Nobody
               PROVE  /\ c \in l.live \ Holders /\ l.parent[c] \in l.live
                      /\ c \in m.doomed <=> l.parent[c] \in m.doomed
    BY <1>13 DEF Families
  <2>1. /\ c \in l.live \ Holders /\ l.parent[c] \in l.live
        /\ c \in l.doomed <=> l.parent[c] \in l.doomed
    BY DEF Sound, Families
  <2>2. c # o /\ l.parent[c] \in Holders
    BY <1>1
  <2>3. \A d \in kids : d \notin Holders
    <3>1. \A d \in kids : d \in Objects /\ l.parent[d] # Nobody
      BY <1>1, <1>2, ObjectListAssumption
    <3> QED BY <3>1 DEF Sound, Families
  <2>4. l.parent[c] \notin kids
    BY <2>2, <2>3
  <2>5. c \in kids <=> l.parent[c] = o
    <3>1. l.parent[c] = o => c \in kids
      BY <2>1 DEF kids, Children
    <3> QED BY <1>2, <3>1
  <2> QED BY <1>13, <2>1, <2>2, <2>4, <2>5
<1>17. BottomUp(m)
  <2> SUFFICES ASSUME NEW k \in DOMAIN q, NEW c \in Children(l, q[k])
               PROVE  \E j \in DOMAIN q : j > k /\ q[j] = c
    BY <1>13 DEF BottomUp, Children
  <2>1. c \in l.live /\ l.parent[c] = q[k] /\ c \in Objects /\ q[k] \in Objects
    <3>1. c \in l.live /\ l.parent[c] = q[k]
      BY DEF Children
    <3> QED BY <1>1, <1>10, <3>1
  <2>2. CASE k \in DOMAIN l.queue
    <3>1. q[k] = l.queue[k]
      BY <1>9, <1>10, <2>2
    <3>2. PICK j \in DOMAIN l.queue : j > k /\ l.queue[j] = c
      BY <2>2, <3>1 DEF Sound, BottomUp
    <3>3. j \in DOMAIN q /\ q[j] = c
      BY <1>9, <1>10, <3>2
    <3> QED BY <3>2, <3>3
  <2>3. CASE k \in DOMAIN most \ DOMAIN l.queue
    <3>1. q[k] = o
      <4>1. k - Len(l.queue) \in DOMAIN one /\ most[k] = one[k - Len(l.queue)]
        BY <1>9, <2>3
      <4> QED BY <1>7, <1>10, <2>3, <4>1
    <3>2. c \in kids
      <4>1. c \notin l.doomed
        BY <2>1, <3>1, ObjectListAssumption DEF Sound, Families
      <4> QED BY <2>1, <3>1, <4>1 DEF kids, Children
    <3>3. PICK j \in DOMAIN s : s[j] = c
      BY <1>5, <3>2 DEF ToSet
    <3>4. j + Len(most) \in DOMAIN q /\ q[j + Len(most)] = c
      BY <1>10, <3>3
    <3>5. j + Len(most) > k
      <4>1. j \in Nat /\ j > 0
        BY <1>6
      <4>2. k \in 1 .. Len(most)
        BY <1>10, <2>3
      <4> QED BY <1>10, <4>1, <4>2
    <3> QED BY <3>4, <3>5
  <2>4. CASE k \notin DOMAIN most
    <3>1. q[k] \in kids
      BY <1>5, <1>10, <2>4 DEF ToSet
    <3>2. l.parent[q[k]] = o /\ o # Nobody
      BY <1>1, <1>2, <3>1, ObjectListAssumption
    <3>3. q[k] \notin Holders
      BY <2>1, <3>2 DEF Sound, Families
    <3>4. l.parent[c] \in Holders \cup {Nobody}
      BY <1>1, <2>1
    <3> QED BY <2>1, <3>3, <3>4, ObjectListAssumption
  <2>5. DOMAIN l.queue \subseteq DOMAIN most
    BY <1>9
  <2> QED BY <2>2, <2>3, <2>4
<1>18. Sound(m)
  BY <1>14, <1>15, <1>16, <1>17 DEF Sound
<1>19. Keeps(l, m)
  BY <1>13 DEF Keeps, Fresh
<1> QED BY <1>13, <1>18, <1>19

(* A list that holds nothing freed is emptied.                             *)
LEMMA Cleaned ==
  ASSUME NEW l, Sound(l), NEW v \in 0 .. 1, NEW m, m = Emptied(l, v)
  PROVE  /\ Sound(m)
         /\ m.live = l.live /\ m.active = l.active /\ m.current = l.current
         /\ m.vec[1 - v] = l.vec[1 - v] /\ m.vec[v] = <<>>
         /\ m.crow = l.crow \ ToSet(l.vec[v])
<1>1. /\ l \in List /\ l.vec \in [0 .. 1 -> Seq(Objects \cup {Freed})] /\ l.crow \subseteq Objects
  BY ListFields DEF Sound
<1> DEFINE V == [l.vec EXCEPT ![v] = <<>>]
<1>2. /\ V \in [0 .. 1 -> Seq(Objects \cup {Freed})] /\ V[v] = <<>> /\ V[1 - v] = l.vec[1 - v]
  <2>1. <<>> \in Seq(Objects \cup {Freed}) /\ 1 - v \in 0 .. 1 /\ 1 - v # v
    OBVIOUS
  <2> QED BY ONLY <1>1, <2>1, v \in 0 .. 1
<1>3. m = [l EXCEPT !.crow = l.crow \ ToSet(l.vec[v]), !.vec = V]
  BY <1>1 DEF Emptied, List
<1> HIDE DEF V
<1>4. /\ m.live = l.live /\ m.active = l.active /\ m.sleeping = l.sleeping
      /\ m.counter = l.counter /\ m.doomed = l.doomed /\ m.queue = l.queue
      /\ m.parent = l.parent /\ m.current = l.current
      /\ m.vec = V /\ m.crow = l.crow \ ToSet(l.vec[v])
  BY <1>1, <1>3 DEF List
<1>5. m \in List
  <2>1. l.crow \ ToSet(l.vec[v]) \in SUBSET Objects
    BY <1>1
  <2> QED BY <1>1, <1>2, <1>3, <2>1 DEF List
<1>6. Exact(m) /\ BottomUp(m) /\ Families(m)
  BY <1>4 DEF Sound, Exact, BottomUp, Families, Children
<1>7. CrowsKnown(m)
  <2>1. /\ \A x \in 0 .. 1 : ToSet(l.vec[x]) \subseteq l.live \cup {Freed}
        /\ l.crow \subseteq ToSet(l.vec[0]) \cup ToSet(l.vec[1])
    BY DEF Sound, CrowsKnown
  <2>2. ToSet(<<>>) = {}
    BY DEF ToSet
  <2>3. \A x \in 0 .. 1 : x = v \/ x = 1 - v
    OBVIOUS
  <2>4. \A x \in 0 .. 1 : ToSet(V[x]) \subseteq l.live \cup {Freed}
    BY <1>2, <2>1, <2>2, <2>3
  <2>5. m.crow \subseteq ToSet(V[0]) \cup ToSet(V[1])
    <3>1. CASE v = 0
      BY <1>2, <1>4, <2>1, <3>1
    <3>2. CASE v = 1
      BY <1>2, <1>4, <2>1, <3>2
    <3> QED BY <3>1, <3>2
  <2> QED BY <1>4, <2>4, <2>5 DEF CrowsKnown
<1> QED BY <1>2, <1>4, <1>5, <1>6, <1>7 DEF Sound

-----------------------------------------------------------------------------
(* The invariant.                                                          *)

MissedOnce == \A o \in Objects : missed[o] > 0 => o \in list.active /\ missed[o] = 1

(* Between two Updates: who was asked for is a crow, and who was left out  *)
(* of the last Update is in the list of the next one if it is a crow.      *)
AskedAreNext ==
    pc = "frame" =>
        /\ asked \subseteq list.crow
        /\ \A o \in Objects :
              missed[o] > 0 /\ o \in list.crow => o \in ToSet(list.vec[list.current])

(* Inside an Update: who is left out of it while it is a crow is in the    *)
(* list of the next one, and who was left out of the last one and asked    *)
(* for again is not left out of this one.                                  *)
AskedAreInWork ==
    pc = "update" =>
        /\ ToSet(work) \subseteq list.live \cup {Freed}
        /\ \A o \in Objects :
              /\ (o \in asked \/ missed[o] > 0) /\ o \notin updated \cup ToSet(work)
                 /\ o \in list.crow => o \in ToSet(list.vec[list.current])
              /\ missed[o] > 0 /\ o \in asked => o \in updated \cup ToSet(work)

(* As long as no UpdateCL moved an item, only those that were updated make *)
(* themselves crows again inside of an Update.                             *)
Untouched ==
    ~moved => /\ Fresh(list)
              /\ pc = "update" => ToSet(list.vec[list.current]) \subseteq updated

IInv == TypeOK /\ Sound(list) /\ MissedOnce /\ AskedAreNext /\ AskedAreInWork /\ Untouched

(* TypeOK but for what Sound says of the list.                             *)
Typed ==
    /\ pc \in {"frame", "update", "undefined"}
    /\ work \in Seq(Objects \cup {Freed})
    /\ removing \in BOOLEAN /\ moved \in BOOLEAN
    /\ updated \subseteq Objects /\ asked \subseteq list.active
    /\ missed \in [Objects -> Nat]

LEMMA TypedIs ==
  ASSUME Sound(list), Typed
  PROVE  TypeOK
BY DEF Sound, Exact, Typed, TypeOK, ListsExact, Enabled

LEMMA TypedNext ==
  ASSUME Sound(list'), Typed'
  PROVE  TypeOK'
BY DEF Sound, Exact, Typed, TypeOK, ListsExact, Enabled

LEMMA InvParts ==
  ASSUME IInv
  PROVE  /\ Sound(list) /\ Typed
         /\ list \in List /\ list.live \subseteq Objects /\ list.active \subseteq list.live
         /\ list.crow \subseteq Objects /\ list.doomed \subseteq list.live
         /\ list.current \in 0 .. 1 /\ list.parent \in [Objects -> Holders \cup {Nobody}]
<1>1. Sound(list) /\ Typed
  BY DEF IInv, TypeOK, Typed
<1>2. list.active \subseteq list.live /\ list.doomed \subseteq list.live
  BY <1>1 DEF Sound, Exact
<1> QED BY <1>1, <1>2, ListFields DEF Sound

(* What an object that is put to sleep or destroyed has missed is nothing. *)
LEMMA MissedIs ==
  ASSUME NEW f \in [Objects -> Nat], missed' = WhileActive(f)
  PROVE  /\ missed' \in [Objects -> Nat]
         /\ \A o \in Objects : missed'[o] > 0 => o \in list'.active /\ missed'[o] = f[o]
BY DEF WhileActive

(* What is true of l and of what becomes of it between two Updates, m.     *)
Leaves(l, m) ==
    /\ m.current = l.current
    /\ m.crow \subseteq l.crow \cup ToSet(m.vec[l.current])
    /\ ToSet(l.vec[l.current]) \cap m.crow \subseteq ToSet(m.vec[l.current])
    /\ Fresh(l) => Fresh(m)

LEMMA LeavesStep ==
  ASSUME IInv, pc = "frame", UNCHANGED pc, UNCHANGED work, UNCHANGED removing,
         UNCHANGED updated, UNCHANGED moved,
         Sound(list'), Leaves(list, list'),
         asked' \subseteq list'.active, asked' \subseteq list'.crow,
         missed' \in [Objects -> Nat],
         \A o \in Objects : missed'[o] > 0 => o \in list'.active /\ missed'[o] = missed[o]
  PROVE  IInv'
<1>1. Typed'
  BY InvParts DEF Typed
<1>2. TypeOK'
  BY <1>1, TypedNext
<1>3. MissedOnce'
  BY DEF IInv, MissedOnce
<1>4. AskedAreNext'
  <2> SUFFICES ASSUME NEW o \in Objects, missed'[o] > 0, o \in list'.crow
               PROVE  o \in ToSet(list'.vec[list'.current])
    BY DEF AskedAreNext
  <2>1. missed[o] > 0
    OBVIOUS
  <2>2. o \in list.crow => o \in ToSet(list.vec[list.current])
    BY <2>1 DEF IInv, AskedAreNext
  <2> QED BY <2>2 DEF Leaves
<1>5. AskedAreInWork'
  BY DEF AskedAreInWork
<1>6. Untouched'
  BY DEF IInv, Untouched, Leaves
<1> QED BY <1>2, <1>3, <1>4, <1>5, <1>6 DEF IInv

LEMMA KeepsLeaves ==
  ASSUME NEW l, NEW m, Keeps(l, m)
  PROVE  Leaves(l, m)
BY DEF Keeps, Leaves

LEMMA EmptiedLeaves ==
  ASSUME NEW l, Sound(l), NEW m \in DestroyQueueProcessed(l)
  PROVE  Leaves(l, m)
<1>1. /\ m.crow = l.crow \ l.doomed /\ m.current = l.current
      /\ \A v \in 0 .. 1 : ToSet(l.vec[v]) \ l.doomed \subseteq ToSet(m.vec[v])
      /\ Fresh(l) => Fresh(m)
  BY QueueEmptied
<1>2. l.current \in 0 .. 1
  BY ListFields DEF Sound
<1> QED BY <1>1, <1>2 DEF Leaves

-----------------------------------------------------------------------------
(* The steps between two Updates.                                          *)

LEMMA RestStep ==
  ASSUME IInv, pc = "frame", Rest, Sound(list'), Keeps(list, list'),
         list.active \subseteq list'.active,
         asked' \subseteq list'.active, asked' \subseteq asked \cup list'.crow
  PROVE  IInv'
<1>1. asked \subseteq list.crow /\ missed \in [Objects -> Nat]
  BY DEF IInv, AskedAreNext, TypeOK
<1>2. asked' \subseteq list'.crow /\ missed' = missed
  BY <1>1 DEF Keeps, Rest
<1>3. \A o \in Objects : missed'[o] > 0 => o \in list'.active /\ missed'[o] = missed[o]
  BY <1>2 DEF IInv, MissedOnce
<1>4. Leaves(list, list')
  BY KeepsLeaves
<1> QED BY <1>1, <1>2, <1>3, <1>4, LeavesStep DEF Rest

LEMMA SheduleUpdateStep ==
  ASSUME IInv, NEW o \in Objects, SheduleUpdate(o)
  PROVE  IInv'
<1>1. /\ pc = "frame" /\ o \in list.live /\ list' = MadeCrow(list, o) /\ Rest
      /\ asked' = IF Enabled(list, o) THEN asked \cup {o} ELSE asked
  BY DEF SheduleUpdate, Between, Becomes
<1>2. Sound(list) /\ asked \subseteq list.active
  BY InvParts DEF Typed
<1>3. /\ Moves(list, list') /\ list'.active = list.active
      /\ list.crow \subseteq list'.crow
      /\ list.counter[o] > 0 => o \in list'.crow
      /\ Fresh(list) => Fresh(list')
  BY <1>1, <1>2, CrowMade
<1>4. Sound(list') /\ Keeps(list, list')
  BY <1>2, <1>3, MovesSound DEF Moves, Keeps
<1>5. Enabled(list, o) => o \in list.active /\ o \in list'.crow
  BY <1>1, <1>2, <1>3 DEF Enabled, Sound, Exact
<1> QED BY <1>1, <1>2, <1>3, <1>4, <1>5, RestStep

LEMMA RenderStep ==
  ASSUME IInv, NEW o \in Objects, Render(o)
  PROVE  IInv'
<1>1. pc = "frame" /\ o \in list.live /\ list' = MadeCrow(list, o) /\ Rest /\ asked' = asked
  BY DEF Render, Between, Becomes
<1>2. Sound(list) /\ asked \subseteq list.active
  BY InvParts DEF Typed
<1>3. /\ Moves(list, list') /\ list'.active = list.active
      /\ list.crow \subseteq list'.crow
      /\ Fresh(list) => Fresh(list')
  BY <1>1, <1>2, CrowMade
<1>4. Sound(list') /\ Keeps(list, list')
  BY <1>2, <1>3, MovesSound DEF Moves, Keeps
<1> QED BY <1>1, <1>2, <1>3, <1>4, RestStep

LEMMA TakeStep ==
  ASSUME IInv, NEW o \in Objects, NEW p \in Holders, Take(p, o)
  PROVE  IInv'
<1>1. /\ pc = "frame" /\ o \in list.live /\ p \in list.live /\ o \notin Holders
      /\ o \notin list.doomed /\ p \notin list.doomed
      /\ list' = SetParent(list, o, p) /\ Rest /\ asked' = asked
  BY DEF Take, Between, Becomes
<1>2. Sound(list) /\ asked \subseteq list.active
  BY InvParts DEF Typed
<1>3. Sound(list') /\ Keeps(list, list') /\ list'.active = list.active
  BY <1>1, <1>2, Rehomed
<1> QED BY <1>1, <1>2, <1>3, RestStep

LEMMA RejectStep ==
  ASSUME IInv, NEW o \in Objects, Reject(o)
  PROVE  IInv'
<1>1. /\ pc = "frame" /\ o \in list.live
      /\ list' = SetParent(list, o, Nobody) /\ Rest /\ asked' = asked
  BY DEF Reject, Between, Becomes
<1>2. Sound(list) /\ asked \subseteq list.active
  BY InvParts DEF Typed
<1>3. Sound(list') /\ Keeps(list, list') /\ list'.active = list.active
  BY <1>1, <1>2, Rehomed
<1> QED BY <1>1, <1>2, <1>3, RestStep

LEMMA DestroyEventStep ==
  ASSUME IInv, NEW o \in Objects, DestroyEvent(o)
  PROVE  IInv'
<1>1. /\ pc = "frame" /\ o \in list.live /\ o \notin list.doomed /\ Rest /\ asked' = asked
      /\ list' \in Doomed(IF list.parent[o] = Nobody THEN list ELSE SetParent(list, o, Nobody), o)
  BY DEF DestroyEvent, Between
<1>2. Sound(list) /\ asked \subseteq list.active
  BY InvParts DEF Typed
<1> DEFINE l == IF list.parent[o] = Nobody THEN list ELSE SetParent(list, o, Nobody)
<1>3. /\ Sound(l) /\ Keeps(list, l)
      /\ l.live = list.live /\ l.active = list.active /\ l.doomed = list.doomed
      /\ l.parent[o] = Nobody
  <2>1. CASE list.parent[o] = Nobody
    BY <1>2, <2>1 DEF Keeps
  <2>2. CASE list.parent[o] # Nobody
    BY <1>1, <1>2, <2>2, Rehomed
  <2> QED BY <2>1, <2>2
<1>4. list' \in Doomed(l, o)
  BY <1>1
<1> HIDE DEF l
<1>5. Sound(list') /\ Keeps(l, list') /\ list'.active = l.active
  BY <1>1, <1>3, <1>4, Marked
<1>6. Keeps(list, list')
  BY <1>3, <1>5 DEF Keeps
<1> QED BY <1>1, <1>2, <1>3, <1>5, <1>6, RestStep

LEMMA ToggleStep ==
  ASSUME IInv, NEW o \in Objects, Toggle(o)
  PROVE  IInv'
<1>1. /\ pc = "frame" /\ o \in list.live /\ list' = Toggled(list, o)
      /\ asked' = asked \cap list'.active /\ missed' = WhileActive(missed)
      /\ UNCHANGED pc /\ UNCHANGED work /\ UNCHANGED removing /\ UNCHANGED updated
      /\ UNCHANGED moved
  BY DEF Toggle, Between, Becomes
<1>2. Sound(list) /\ missed \in [Objects -> Nat] /\ asked \subseteq list.crow
  BY <1>1 DEF IInv, TypeOK, AskedAreNext
<1>3. Moves(list, list') /\ list.crow \subseteq list'.crow /\ (Fresh(list) => Fresh(list'))
  BY <1>1, <1>2, Switched
<1>4. Sound(list') /\ Leaves(list, list')
  BY <1>2, <1>3, MovesSound DEF Moves, Leaves
<1>5. /\ missed' \in [Objects -> Nat]
      /\ \A x \in Objects : missed'[x] > 0 => x \in list'.active /\ missed'[x] = missed[x]
  BY <1>1, <1>2, MissedIs
<1> QED BY <1>1, <1>2, <1>3, <1>4, <1>5, LeavesStep

LEMMA SpawnStep ==
  ASSUME IInv, NEW o \in Objects, Spawn(o)
  PROVE  IInv'
<1>1. /\ pc = "frame" /\ missed' = WhileActive([missed EXCEPT ![o] = 0])
      /\ UNCHANGED pc /\ UNCHANGED work /\ UNCHANGED removing /\ UNCHANGED updated
      /\ UNCHANGED moved
  BY DEF Spawn
<1>2. PICK l \in (IF o \in list.doomed THEN DestroyQueueProcessed(list) ELSE {list}) :
         o \notin l.live /\ list' = Created(l, o) /\ asked' = asked \cap l.live
  BY DEF Spawn, Becomes
<1>3. /\ Sound(list) /\ missed \in [Objects -> Nat] /\ asked \subseteq list.crow
      /\ asked \subseteq list.active /\ list.active \subseteq list.live
  BY <1>1, InvParts DEF IInv, AskedAreNext, Typed
<1>4. /\ Sound(l) /\ Leaves(list, l)
      /\ list.active \cap l.live \subseteq l.active /\ list.crow \cap l.live \subseteq l.crow
  <2>1. CASE o \notin list.doomed
    <3>1. l = list
      BY <1>2, <2>1
    <3> QED BY <1>3, <3>1 DEF Leaves
  <2>2. CASE o \in list.doomed
    <3>1. l \in DestroyQueueProcessed(list)
      BY <1>2, <2>2
    <3>2. /\ Sound(l) /\ l.live = list.live \ list.doomed
          /\ l.active = list.active \ list.doomed /\ l.crow = list.crow \ list.doomed
      BY <1>3, <3>1, QueueEmptied
    <3> QED BY <1>3, <3>1, <3>2, EmptiedLeaves
  <2> QED BY <2>1, <2>2
<1>5. /\ Sound(list') /\ list'.active = l.active \cup {o}
      /\ list'.current = l.current /\ l.crow \subseteq list'.crow
      /\ list'.crow \subseteq l.crow \cup ToSet(list'.vec[l.current])
      /\ ToSet(l.vec[l.current]) \subseteq ToSet(list'.vec[l.current])
      /\ Fresh(l) => Fresh(list')
  BY <1>2, <1>4, Begun
<1>6. Leaves(list, list')
  BY <1>4, <1>5 DEF Leaves
<1>7. asked' \subseteq list'.active /\ asked' \subseteq list'.crow
  BY <1>2, <1>3, <1>4, <1>5
<1> DEFINE f == [missed EXCEPT ![o] = 0]
<1>8. f \in [Objects -> Nat] /\ \A x \in Objects : f[x] > 0 => f[x] = missed[x]
  BY <1>3
<1>9. missed' = WhileActive(f)
  BY <1>1
<1> HIDE DEF f
<1>10. /\ missed' \in [Objects -> Nat]
       /\ \A x \in Objects : missed'[x] > 0 => x \in list'.active /\ missed'[x] = f[x]
  BY <1>8, <1>9, MissedIs
<1>11. \A x \in Objects : missed'[x] > 0 => x \in list'.active /\ missed'[x] = missed[x]
  BY <1>8, <1>10
<1> QED BY <1>1, <1>5, <1>6, <1>7, <1>10, <1>11, LeavesStep

LEMMA UpdatePausedStep ==
  ASSUME IInv, UpdatePaused
  PROVE  IInv'
<1>1. /\ pc = "frame" /\ list' \in DestroyQueueProcessed(list)
      /\ asked' = asked \cap list'.live /\ missed' = WhileActive(missed)
      /\ UNCHANGED pc /\ UNCHANGED work /\ UNCHANGED removing /\ UNCHANGED updated
      /\ UNCHANGED moved
  BY DEF UpdatePaused
<1>2. /\ Sound(list) /\ missed \in [Objects -> Nat] /\ asked \subseteq list.crow
      /\ asked \subseteq list.active
  BY <1>1, InvParts DEF IInv, AskedAreNext, Typed
<1>3. /\ Sound(list') /\ list'.live = list.live \ list.doomed
      /\ list'.active = list.active \ list.doomed /\ list'.crow = list.crow \ list.doomed
  BY <1>1, <1>2, QueueEmptied
<1>4. Leaves(list, list')
  BY <1>1, <1>2, EmptiedLeaves
<1>5. /\ missed' \in [Objects -> Nat]
      /\ \A x \in Objects : missed'[x] > 0 => x \in list'.active /\ missed'[x] = missed[x]
  BY <1>1, <1>2, MissedIs
<1>6. asked' \subseteq list'.active /\ asked' \subseteq list'.crow
  BY <1>1, <1>2, <1>3
<1> QED BY <1>1, <1>3, <1>4, <1>5, <1>6, LeavesStep

LEMMA RemoveObjectsStep ==
  ASSUME IInv, RemoveObjects
  PROVE  IInv'
<1>1. /\ UNCHANGED list /\ UNCHANGED pc /\ UNCHANGED work /\ UNCHANGED updated /\ UNCHANGED asked
      /\ UNCHANGED missed /\ UNCHANGED moved /\ removing' \in BOOLEAN
  BY InvParts DEF RemoveObjects, Typed
<1>2. TypeOK'
  BY <1>1, InvParts, TypedNext DEF Typed
<1> QED
  BY <1>1, <1>2
     DEF IInv, Sound, Exact, BottomUp, Families, CrowsKnown, MissedOnce, AskedAreNext,
         AskedAreInWork, Untouched

-----------------------------------------------------------------------------
(* The steps of an Update.                                                 *)

(* Somebody is updated: then all is as before, or he was awake and due.    *)
LEMMA SingleUpdateIs ==
  ASSUME IInv, pc = "update", NEW o \in list.live, SingleUpdate(o)
  PROVE  /\ Moves(list, list') /\ moved' \in BOOLEAN
         /\ updated \subseteq updated' /\ updated' \subseteq Objects
         /\ o \in updated' \/ (list' = list /\ o \notin list.active)
         /\ ~moved' => ~moved /\ Fresh(list') /\ ToSet(list'.vec[list'.current]) \subseteq updated'
<1>1. /\ Sound(list) /\ moved \in BOOLEAN /\ updated \subseteq Objects /\ o \in Objects
      /\ list.parent \in [Objects -> Holders \cup {Nobody}]
      /\ ~moved => Fresh(list) /\ ToSet(list.vec[list.current]) \subseteq updated
  BY InvParts DEF IInv, Untouched, Typed
<1> DEFINE p == list.parent[o]
           first == IF p # Nobody /\ Due(list, p) THEN {p} ELSE {}
           before == IF first = {} THEN [list : {list}, moved : {moved}]
                     ELSE UpdateCL(NotACrow(list, p), p)
<1>2. CASE ~Due(list, o)
  <2>1. list' = list /\ updated' = updated /\ moved' = moved
    BY <1>2 DEF SingleUpdate
  <2>2. Moves(list, list')
    BY <1>1, <2>1, Stays
  <2>3. o \in updated \/ o \notin list.active
    BY <1>1, <1>2 DEF Due, Enabled, Sound, Exact
  <2> QED BY <1>1, <2>1, <2>2, <2>3
<1>3. CASE Due(list, o)
  <2>1. /\ updated' = updated \cup first \cup {o}
        /\ \E b \in before : \E a \in UpdateCL(NotACrow(b.list, o), o) :
              list' = a.list /\ moved' = (a.moved \/ b.moved)
    BY <1>3 DEF SingleUpdate
  <2>0. PICK b \in before : \E a \in UpdateCL(NotACrow(b.list, o), o) :
              list' = a.list /\ moved' = (a.moved \/ b.moved)
    BY <2>1
  <2>2. PICK a \in UpdateCL(NotACrow(b.list, o), o) :
              list' = a.list /\ moved' = (a.moved \/ b.moved)
    BY <2>0
  <2>3. p # Nobody => p \in list.live /\ p \in Objects /\ p # o
    BY <1>1, InvParts DEF Sound, Families
  <2>4. first \subseteq Objects /\ o \notin updated \cup first
    BY <1>3, <2>3 DEF Due
  <2>5. /\ Moves(list, b.list) /\ b.moved \in BOOLEAN /\ (moved => b.moved)
        /\ ~b.moved => /\ Fresh(b.list)
                       /\ ToSet(b.list.vec[list.current]) \subseteq updated \cup first
    <3>1. CASE first = {}
      <4>1. b.list = list /\ b.moved = moved
        BY <3>1
      <4> QED BY <1>1, <3>1, <4>1, Stays
    <3>2. CASE first # {}
      <4>1. first = {p} /\ p # Nobody /\ p \notin updated /\ b \in UpdateCL(NotACrow(list, p), p)
        BY <3>2 DEF Due
      <4>2. p \in list.live
        BY <2>3, <4>1
      <4> HIDE DEF p, first, before
      <4>3. /\ Moves(list, b.list) /\ b.moved \in BOOLEAN /\ (moved => b.moved)
            /\ \A up : /\ ~b.moved /\ Fresh(list)
                       /\ ToSet(list.vec[list.current]) \subseteq up /\ p \notin up
                       => /\ Fresh(b.list)
                          /\ ToSet(b.list.vec[list.current]) \subseteq up \cup {p}
        BY <1>1, <4>1, <4>2, Ran
      <4> QED BY <1>1, <4>1, <4>3
    <3> QED BY <3>1, <3>2
  <2> HIDE DEF p, first, before
  <2>6. Sound(b.list) /\ o \in b.list.live /\ b.list.current = list.current
    BY <1>1, <2>5, MovesSound DEF Moves
  <2>7. /\ Moves(b.list, a.list) /\ a.moved \in BOOLEAN /\ (moved => a.moved)
        /\ \A up : /\ ~a.moved /\ Fresh(b.list)
                   /\ ToSet(b.list.vec[b.list.current]) \subseteq up /\ o \notin up
                   => /\ Fresh(a.list)
                      /\ ToSet(a.list.vec[b.list.current]) \subseteq up \cup {o}
    BY <1>1, <2>6, Ran
  <2>8. Moves(list, list') /\ list'.current = list.current
    BY <2>2, <2>5, <2>7, MovesOn DEF Moves
  <2>9. ASSUME ~moved'
        PROVE  ~moved /\ Fresh(list') /\ ToSet(list'.vec[list'.current]) \subseteq updated'
    <3>1. ~a.moved /\ ~b.moved
      BY <2>2, <2>9
    <3>2. Fresh(b.list) /\ ToSet(b.list.vec[b.list.current]) \subseteq updated \cup first
      BY <2>5, <2>6, <3>1
    <3>3. Fresh(a.list) /\ ToSet(a.list.vec[b.list.current]) \subseteq (updated \cup first) \cup {o}
      BY <2>4, <2>7, <3>1, <3>2
    <3> QED BY <2>1, <2>2, <2>5, <2>6, <2>8, <3>1, <3>3
  <2>10. moved' \in BOOLEAN
    BY <2>2, <2>5, <2>7
  <2>11. updated \subseteq updated' /\ updated' \subseteq Objects /\ o \in updated'
    BY <1>1, <2>1, <2>4
  <2> QED BY <2>8, <2>9, <2>10, <2>11
<1> QED BY <1>2, <1>3

(* An entry whose object was freed: what follows is not modelled.          *)
LEMMA UndefinedStep ==
  ASSUME IInv, pc' = "undefined", UNCHANGED list, UNCHANGED work, UNCHANGED removing,
         UNCHANGED moved, updated' \subseteq Objects, asked' \subseteq asked,
         missed' \in [Objects -> Nat],
         \A o \in Objects : missed'[o] > 0 => missed'[o] = missed[o]
  PROVE  IInv'
<1>1. Sound(list) /\ Sound(list')
  BY DEF IInv
<1>2. TypeOK'
  BY <1>1, InvParts, TypedNext DEF Typed
<1>3. MissedOnce'
  BY DEF IInv, MissedOnce
<1>4. Untouched'
  BY DEF IInv, Untouched
<1> QED BY <1>1, <1>2, <1>3, <1>4 DEF IInv, AskedAreNext, AskedAreInWork

LEMMA UpdateStepStep ==
  ASSUME IInv, UpdateStep
  PROVE  IInv'
<1>1. /\ pc = "update" /\ work # <<>> /\ UNCHANGED removing
      /\ asked' = asked \cap list'.active /\ missed' = WhileActive(missed)
  BY DEF UpdateStep
<1>2. /\ Sound(list) /\ missed \in [Objects -> Nat] /\ asked \subseteq list.active
      /\ work \in Seq(Objects \cup {Freed}) /\ updated \subseteq Objects
      /\ ToSet(work) \subseteq list.live \cup {Freed} /\ removing \in BOOLEAN
  BY <1>1, InvParts DEF IInv, AskedAreInWork, Typed
<1>3. /\ missed' \in [Objects -> Nat]
      /\ \A x \in Objects : missed'[x] > 0 => x \in list'.active /\ missed'[x] = missed[x]
  BY <1>1, <1>2, MissedIs
<1>4. CASE Head(work) = Freed
  <2>1. pc' = "undefined" /\ UNCHANGED list /\ UNCHANGED work /\ UNCHANGED updated
        /\ UNCHANGED moved
    BY <1>4 DEF UpdateStep
  <2> QED BY <1>1, <1>2, <1>3, <2>1, UndefinedStep
<1>5. CASE Head(work) # Freed
  <2> DEFINE o == Head(work)
  <2>1. work' = Tail(work) /\ SingleUpdate(o) /\ pc' = pc
    BY <1>5 DEF UpdateStep
  <2>2. /\ o \in ToSet(work) /\ work' \in Seq(Objects \cup {Freed})
        /\ ToSet(work) = ToSet(work') \cup {o}
    <3>1. /\ work' \in Seq(Objects \cup {Freed}) /\ 1 \in DOMAIN work /\ o = work[1]
          /\ \A k \in DOMAIN work' : k + 1 \in DOMAIN work /\ work'[k] = work[k + 1]
          /\ \A k \in DOMAIN work : k = 1 \/ (k - 1 \in DOMAIN work' /\ work'[k - 1] = work[k])
      BY <1>1, <1>2, <2>1
    <3> HIDE DEF o
    <3> QED BY ONLY <3>1 DEF ToSet
  <2> HIDE DEF o
  <2>3. o \in list.live
    BY <1>2, <1>5, <2>2 DEF o
  <2>4. /\ Moves(list, list') /\ moved' \in BOOLEAN
        /\ updated \subseteq updated' /\ updated' \subseteq Objects
        /\ o \in updated' \/ (list' = list /\ o \notin list.active)
        /\ ~moved' => ~moved /\ Fresh(list') /\ ToSet(list'.vec[list'.current]) \subseteq updated'
    BY <1>1, <2>1, <2>3, SingleUpdateIs
  <2>5. Sound(list') /\ list'.live = list.live /\ list'.current = list.current
    BY <1>2, <2>4, MovesSound DEF Moves
  <2>6. TypeOK'
    <3>1. Typed'
      BY <1>1, <1>2, <1>3, <2>1, <2>2, <2>4 DEF Typed
    <3> QED BY <2>5, <3>1, TypedNext
  <2>7. MissedOnce'
    BY <1>3 DEF IInv, MissedOnce
  <2>8. AskedAreNext'
    BY <1>1, <2>1 DEF AskedAreNext
  <2>9. AskedAreInWork'
    <3>1. ToSet(work') \subseteq list'.live \cup {Freed}
      BY <1>2, <2>2, <2>5
    <3>2. ASSUME NEW x \in Objects
          PROVE  /\ (x \in asked \/ missed[x] > 0) /\ x \notin updated \cup ToSet(work)
                    /\ x \in list.crow => x \in ToSet(list.vec[list.current])
                 /\ missed[x] > 0 /\ x \in asked => x \in updated \cup ToSet(work)
      BY <1>1 DEF IInv, AskedAreInWork
    <3>3. ASSUME NEW x \in Objects, x \in asked' \/ missed'[x] > 0
          PROVE  /\ x \in asked \/ missed[x] > 0
                 /\ x \in updated \cup ToSet(work) => x \in updated' \cup ToSet(work')
      <4>1. x \in list'.active
        BY <1>1, <1>3, <3>3
      <4>2. x = o => x \in updated'
        BY <2>4, <4>1
      <4> QED BY <1>1, <1>3, <2>2, <2>4, <3>3, <4>2
    <3>4. ASSUME NEW x \in Objects, x \in asked' \/ missed'[x] > 0,
                 x \notin updated' \cup ToSet(work'), x \in list'.crow
          PROVE  x \in ToSet(list'.vec[list'.current])
      <4>1. x \notin updated \cup ToSet(work) /\ (x \in asked \/ missed[x] > 0)
        BY <3>3, <3>4
      <4>2. x \in list.crow => x \in ToSet(list.vec[list.current])
        BY <3>2, <4>1
      <4> QED BY <2>4, <3>4, <4>2 DEF Moves
    <3>5. ASSUME NEW x \in Objects, missed'[x] > 0, x \in asked'
          PROVE  x \in updated' \cup ToSet(work')
      <4>1. missed[x] > 0 /\ x \in asked
        BY <1>1, <1>3, <3>5
      <4> QED BY <3>2, <3>3, <3>5, <4>1
    <3> QED BY <3>1, <3>4, <3>5 DEF AskedAreInWork
  <2>10. Untouched'
    BY <2>4 DEF Untouched
  <2> QED BY <2>5, <2>6, <2>7, <2>8, <2>9, <2>10 DEF IInv
<1> QED BY <1>4, <1>5

LEMMA EndUpdateStep ==
  ASSUME IInv, EndUpdate
  PROVE  IInv'
<1>1. /\ pc = "update" /\ work = <<>> /\ pc' = "frame"
      /\ list' \in DestroyQueueProcessed(list)
      /\ asked' = {} /\ missed' = WhileActive(Counted)
      /\ UNCHANGED work /\ UNCHANGED removing /\ UNCHANGED updated /\ UNCHANGED moved
  BY DEF EndUpdate
<1>2. /\ Sound(list) /\ missed \in [Objects -> Nat] /\ Typed /\ list.current \in 0 .. 1
  BY InvParts DEF Typed
<1>3. /\ Sound(list') /\ list'.crow = list.crow \ list.doomed
      /\ list'.current = list.current
      /\ \A v \in 0 .. 1 : ToSet(list.vec[v]) \ list.doomed \subseteq ToSet(list'.vec[v])
      /\ Fresh(list) => Fresh(list')
  BY <1>1, <1>2, QueueEmptied
<1>4. Counted \in [Objects -> Nat]
  BY <1>2 DEF Counted
<1>5. /\ missed' \in [Objects -> Nat]
      /\ \A x \in Objects : missed'[x] > 0 => x \in list'.active /\ missed'[x] = Counted[x]
  BY <1>1, <1>4, MissedIs
<1>6. \A x \in Objects :
         /\ (x \in asked \/ missed[x] > 0) /\ x \notin updated
            /\ x \in list.crow => x \in ToSet(list.vec[list.current])
         /\ missed[x] > 0 /\ x \in asked => x \in updated
  <2>1. ToSet(work) = {}
    BY <1>1 DEF ToSet
  <2> QED BY <1>1, <2>1 DEF IInv, AskedAreInWork
<1>7. TypeOK'
  <2>1. Typed'
    BY <1>1, <1>2, <1>5 DEF Typed
  <2> QED BY <1>3, <2>1, TypedNext
<1>8. ASSUME NEW x \in Objects, missed'[x] > 0
      PROVE  /\ x \notin updated /\ x \notin list.doomed /\ (x \in asked \/ missed[x] > 0)
             /\ missed'[x] = 1
  <2>1. missed'[x] = IF x \in updated \/ x \in list.doomed THEN 0
                     ELSE IF x \in asked THEN missed[x] + 1 ELSE missed[x]
    BY <1>5, <1>8 DEF Counted
  <2>2. x \notin updated /\ x \notin list.doomed
    BY <1>8, <2>1
  <2>3. missed[x] \in Nat /\ (missed[x] > 0 => missed[x] = 1)
    BY <1>2 DEF IInv, MissedOnce
  <2>4. CASE x \in asked
    BY <1>6, <2>1, <2>2, <2>3, <2>4
  <2>5. CASE x \notin asked
    BY <1>8, <2>1, <2>2, <2>3, <2>5
  <2> QED BY <2>2, <2>4, <2>5
<1>9. MissedOnce'
  BY <1>5, <1>8 DEF MissedOnce
<1>10. AskedAreNext'
  <2> SUFFICES ASSUME NEW x \in Objects, missed'[x] > 0, x \in list'.crow
               PROVE  x \in ToSet(list'.vec[list'.current])
    BY <1>1 DEF AskedAreNext
  <2>1. x \in ToSet(list.vec[list.current]) /\ x \notin list.doomed
    BY <1>3, <1>6, <1>8
  <2> QED BY <1>2, <1>3, <2>1
<1>11. AskedAreInWork'
  BY <1>1 DEF AskedAreInWork
<1>12. Untouched'
  BY <1>1, <1>3 DEF IInv, Untouched
<1> QED BY <1>3, <1>7, <1>9, <1>10, <1>11, <1>12 DEF IInv

LEMMA BeginUpdateStep ==
  ASSUME IInv, BeginUpdate
  PROVE  IInv'
<1> DEFINE other == 1 - list.current
           emptied == IF removing THEN {0, 1} ELSE {other}
<1>1. /\ pc = "frame" /\ updated' = {} /\ UNCHANGED removing /\ UNCHANGED asked
      /\ UNCHANGED missed /\ UNCHANGED moved
  BY DEF BeginUpdate
<1>2. /\ Sound(list) /\ Typed /\ list.current \in 0 .. 1 /\ list.active \subseteq list.live
      /\ list.live \subseteq Objects
  BY InvParts
<1>3. /\ MissedOnce /\ asked \subseteq list.crow /\ asked \subseteq list.active
      /\ \A o \in Objects :
            missed[o] > 0 /\ o \in list.crow => o \in ToSet(list.vec[list.current])
      /\ ~moved => Fresh(list)
      /\ missed \in [Objects -> Nat]
  BY <1>1, <1>2 DEF IInv, AskedAreNext, Untouched, Typed
<1>4. CASE pc' = "undefined" /\ UNCHANGED <<list, work>>
  BY <1>1, <1>3, <1>4, UndefinedStep
<1>5. CASE /\ pc' = "update" /\ removing
           /\ work' \in SetToSeqs(list.active) /\ list' = Emptied(Emptied(list, 0), 1)
  <2>1. work' \in Seq(list.active) /\ ToSet(work') = list.active
    <3>1. IsFiniteSet(Objects) /\ list.active \in SUBSET Objects
      BY <1>2, ObjectListAssumption
    <3>2. IsFiniteSet(list.active)
      BY <3>1, FS_Subset
    <3> QED BY <1>5, <3>2, OrderedIs
  <2> DEFINE l == Emptied(list, 0)
  <2>2. Sound(l) /\ l.active = list.active /\ l.live = list.live /\ l.vec[0] = <<>>
        /\ l.current = list.current
    BY <1>2, Cleaned
  <2>3. list' = Emptied(l, 1)
    BY <1>5
  <2> HIDE DEF l
  <2>4. /\ Sound(list') /\ list'.active = l.active /\ list'.live = l.live
        /\ list'.vec[1 - 1] = l.vec[1 - 1] /\ list'.vec[1] = <<>> /\ list'.current = l.current
    BY <2>2, <2>3, Cleaned
  <2>5. \A v \in 0 .. 1 : list'.vec[v] = <<>>
    BY <2>2, <2>4
  <2>6. ToSet(<<>>) = {} /\ IsInjective(<<>>)
    BY DEF ToSet, IsInjective
  <2>7. Fresh(list') /\ ToSet(list'.vec[list'.current]) = {}
    <3>1. list'.current \in 0 .. 1
      BY <1>2, <2>2, <2>4
    <3> QED BY <2>5, <2>6, <3>1 DEF Fresh
  <2>8. TypeOK'
    <3>1. work' \in Seq(Objects \cup {Freed})
      BY <1>2, <2>1
    <3>2. Typed'
      BY <1>1, <1>2, <1>5, <2>2, <2>4, <3>1 DEF Typed
    <3> QED BY <2>4, <3>2, TypedNext
  <2>9. MissedOnce'
    BY <1>1, <1>3, <2>2, <2>4 DEF MissedOnce
  <2>10. AskedAreInWork'
    BY <1>1, <1>2, <1>3, <2>1, <2>2, <2>4 DEF AskedAreInWork, MissedOnce
  <2>11. AskedAreNext'
    BY <1>5 DEF AskedAreNext
  <2>12. Untouched'
    BY <2>7 DEF Untouched
  <2> QED BY <2>4, <2>8, <2>9, <2>10, <2>11, <2>12 DEF IInv
<1>6. CASE /\ pc' = "update" /\ work' = list.vec[list.current]
           /\ list' = [Emptied(list, other) EXCEPT !.current = other]
  <2> DEFINE l == Emptied(list, other)
  <2>1. other \in 0 .. 1 /\ 1 - other = list.current
        /\ \A v \in 0 .. 1 : v = other \/ v = list.current
    BY <1>2
  <2>2. list' = [l EXCEPT !.current = other]
    BY <1>6
  <2> HIDE DEF other
  <2>3. /\ Sound(l) /\ l.active = list.active /\ l.live = list.live
        /\ l.vec[list.current] = list.vec[list.current] /\ l.vec[other] = <<>>
        /\ l.crow = list.crow \ ToSet(list.vec[other])
    BY <1>2, <2>1, Cleaned
  <2> HIDE DEF l
  <2>4. l \in List
    BY <2>3 DEF Sound
  <2>5. /\ list'.live = l.live /\ list'.active = l.active /\ list'.sleeping = l.sleeping
        /\ list'.counter = l.counter /\ list'.doomed = l.doomed /\ list'.queue = l.queue
        /\ list'.parent = l.parent /\ list'.current = other
        /\ list'.vec = l.vec /\ list'.crow = l.crow
    BY <2>2, <2>4 DEF List
  <2>6. list' \in List
    BY <2>1, <2>2, <2>4 DEF List
  <2>7. Sound(list')
    BY <2>3, <2>5, <2>6 DEF Sound, Exact, BottomUp, Families, CrowsKnown, Children
  <2>8. ToSet(<<>>) = {} /\ IsInjective(<<>>)
    BY DEF ToSet, IsInjective
  <2>9. /\ list.vec[list.current] \in Seq(Objects \cup {Freed})
        /\ ToSet(list.vec[list.current]) \subseteq list.live \cup {Freed}
        /\ list.crow \subseteq ToSet(list.vec[other]) \cup ToSet(list.vec[list.current])
    <3>1. list.vec[list.current] \in Seq(Objects \cup {Freed})
      BY <1>2, ListFields DEF Sound
    <3>2. ToSet(list.vec[list.current]) \subseteq list.live \cup {Freed}
      BY <1>2 DEF Sound, CrowsKnown
    <3>3. list.crow \subseteq ToSet(list.vec[other]) \cup ToSet(list.vec[list.current])
      <4>1. list.crow \subseteq ToSet(list.vec[0]) \cup ToSet(list.vec[1])
        BY <1>2 DEF Sound, CrowsKnown
      <4>2. (other = 0 /\ list.current = 1) \/ (other = 1 /\ list.current = 0)
        BY <1>2, <2>1
      <4> QED BY <4>1, <4>2
    <3> QED BY <3>1, <3>2, <3>3
  <2>10. ASSUME NEW o \in list'.crow PROVE o \in ToSet(work')
    BY <1>6, <2>3, <2>5, <2>9
  <2>11. TypeOK'
    <3>1. Typed'
      BY <1>1, <1>2, <1>6, <2>3, <2>5, <2>9 DEF Typed
    <3> QED BY <2>7, <3>1, TypedNext
  <2>12. MissedOnce'
    BY <1>1, <1>3, <2>3, <2>5 DEF MissedOnce
  <2>13. AskedAreInWork'
    <3>1. ToSet(work') \subseteq list'.live \cup {Freed}
      BY <1>6, <2>3, <2>5, <2>9
    <3>2. \A o \in Objects : missed'[o] > 0 /\ o \in asked' => o \in ToSet(work')
      BY <1>1, <1>3, <1>6
    <3> QED BY <2>10, <3>1, <3>2 DEF AskedAreInWork
  <2>14. AskedAreNext'
    BY <1>6 DEF AskedAreNext
  <2>15. Untouched'
    <3> SUFFICES ASSUME ~moved PROVE Fresh(list') /\ ToSet(list'.vec[list'.current]) = {}
      BY <1>1 DEF Untouched
    <3>1. \A v \in 0 .. 1 : IsInjective(list.vec[v]) /\ Freed \notin ToSet(list.vec[v])
      BY <1>3 DEF Fresh
    <3>2. IsInjective(list.vec[list.current]) /\ Freed \notin ToSet(list.vec[list.current])
      BY <1>2, <3>1
    <3>3. \A v \in 0 .. 1 : IsInjective(list'.vec[v]) /\ Freed \notin ToSet(list'.vec[v])
      BY <2>1, <2>3, <2>5, <2>8, <3>2
    <3> QED BY <2>3, <2>5, <2>8, <3>3 DEF Fresh
  <2> QED BY <2>7, <2>11, <2>12, <2>13, <2>14, <2>15 DEF IInv
<1> QED BY <1>4, <1>5, <1>6 DEF BeginUpdate, Becomes

-----------------------------------------------------------------------------
(* The theorems.                                                           *)

LEMMA InitInv == Init => IInv
<1> SUFFICES ASSUME Init PROVE IInv
  OBVIOUS
<1>1. /\ <<>> \in Seq(Objects) /\ <<>> \in Seq(Objects \cup {Freed})
      /\ ToSet(<<>>) = {} /\ IsInjective(<<>>) /\ DOMAIN <<>> = {}
  BY DEF ToSet, IsInjective
<1>2. list \in List
  BY <1>1 DEF Init, List
<1>3. /\ list.live = {} /\ list.active = {} /\ list.sleeping = {} /\ list.crow = {}
      /\ list.doomed = {} /\ list.queue = <<>> /\ list.current = 0
      /\ \A v \in 0 .. 1 : list.vec[v] = <<>>
      /\ \A o \in Objects : list.parent[o] = Nobody
  BY DEF Init
<1>4. Exact(list) /\ BottomUp(list) /\ Families(list)
  BY <1>1, <1>3 DEF Exact, BottomUp, Families
<1>5. CrowsKnown(list) /\ Fresh(list)
  BY <1>1, <1>3 DEF CrowsKnown, Fresh
<1>6. /\ pc = "frame" /\ work = <<>> /\ removing = FALSE /\ updated = {} /\ asked = {}
      /\ missed \in [Objects -> Nat] /\ (\A o \in Objects : missed[o] = 0) /\ moved = FALSE
  BY DEF Init
<1>7. Sound(list)
  BY <1>2, <1>4, <1>5 DEF Sound
<1>8. TypeOK
  BY <1>1, <1>6, <1>7, TypedIs DEF Typed
<1>9. MissedOnce /\ AskedAreNext /\ AskedAreInWork /\ Untouched
  BY <1>5, <1>6 DEF MissedOnce, AskedAreNext, AskedAreInWork, Untouched
<1> QED BY <1>7, <1>8, <1>9 DEF IInv

LEMMA NextInv == IInv /\ [Next]_vars => IInv'
<1> SUFFICES ASSUME IInv, [Next]_vars PROVE IInv'
  OBVIOUS
<1>1. CASE BeginUpdate
  BY <1>1, BeginUpdateStep
<1>2. CASE UpdateStep
  BY <1>2, UpdateStepStep
<1>3. CASE EndUpdate
  BY <1>3, EndUpdateStep
<1>4. CASE UpdatePaused
  BY <1>4, UpdatePausedStep
<1>5. CASE RemoveObjects
  BY <1>5, RemoveObjectsStep
<1>6. ASSUME NEW o \in Objects, GameCode(o) PROVE IInv'
  BY <1>6, SpawnStep, SheduleUpdateStep, RenderStep, ToggleStep, RejectStep,
     DestroyEventStep, TakeStep DEF GameCode
<1>7. CASE UNCHANGED vars
  BY <1>7
     DEF vars, IInv, TypeOK, ListsExact, Enabled, Sound, Exact, BottomUp, Families, CrowsKnown,
         MissedOnce, AskedAreNext, AskedAreInWork, Untouched
<1> QED BY <1>1, <1>2, <1>3, <1>4, <1>5, <1>6, <1>7 DEF Next, Update

THEOREM Invariant == Spec => []IInv
BY InitInv, NextInv, PTL DEF Spec

(* TypeOK: the objects that are awake, asleep and queued for destruction   *)
(* are always those whose fields say so, each of them once.                *)
THEOREM TypeCorrect == Spec => []TypeOK
<1>1. IInv => TypeOK
  BY DEF IInv
<1> QED BY <1>1, Invariant, PTL

(* NoStaleCrow: as long as no UpdateCL moves an item, no list of crows has *)
(* an object twice or one that was destroyed.                              *)
THEOREM NoStale == Spec => []NoStaleCrow
<1>1. ASSUME IInv PROVE NoStaleCrow
  <2> SUFFICES ASSUME ~moved, NEW v \in 0 .. 1, NEW o \in ToSet(list.vec[v])
               PROVE  o # Freed /\ Occurrences(list.vec[v], o) = 1
    BY DEF NoStaleCrow
  <2>1. IsInjective(list.vec[v]) /\ Freed \notin ToSet(list.vec[v])
    BY <1>1 DEF IInv, Untouched, Fresh
  <2>2. PICK k \in DOMAIN list.vec[v] : list.vec[v][k] = o
    BY DEF ToSet
  <2>3. {j \in DOMAIN list.vec[v] : list.vec[v][j] = o} = {k}
    BY <2>1, <2>2 DEF IsInjective
  <2>4. Occurrences(list.vec[v], o) = 1
    BY <2>3, FS_Singleton DEF Occurrences
  <2> QED BY <2>1, <2>4
<1>2. IInv => NoStaleCrow
  BY <1>1
<1> QED BY <1>2, Invariant, PTL

(* AnsweredInTwo: who has a shedule_Update and stays awake is not left out *)
(* of two Updates in a row.                                                *)
THEOREM Answered == Spec => []AnsweredInTwo
<1>1. IInv => AnsweredInTwo
  BY DEF IInv, MissedOnce, AnsweredInTwo, TypeOK
<1> QED BY <1>1, Invariant, PTL

(* DestroyedBottomUp: the children of what is queued are queued behind it. *)
THEOREM ChildrenFirst == Spec => []DestroyedBottomUp
<1>1. IInv => DestroyedBottomUp
  BY DEF IInv, Sound, BottomUp, DestroyedBottomUp
<1> QED BY <1>1, Invariant, PTL
=============================================================================
