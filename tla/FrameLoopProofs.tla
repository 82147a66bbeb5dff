--------------------------- MODULE FrameLoopProofs ---------------------------
(***************************************************************************)
(* That the two threads of the device never work on the frame together,    *)
(* and that a pass over a registrator calls whoever it should in order, for *)
(* any lists, users and priorities.                                        *)
(*                                                                         *)
(* A frame has one token: it is the event syncProcessFrame after the       *)
(* handoff, then the second thread itself, then the event syncFrameDone,   *)
(* and there is none unless the primary thread renders or waits for it, be *)
(* it in a callback of WM_ACTIVATE that WaitEx has dispatched.             *)
(*                                                                         *)
(* A registrator is in order or marked as changed, and in process then.    *)
(* The entries a pass has still to call end where those begin that were    *)
(* added since it began.                                                   *)
(***************************************************************************)
EXTENDS FrameLoop, WellFoundedInduction, TLAPS

Places == {"messages", "activation", "load", "frame", "handover", "render", "wait",
           "waitActivation", "ended", "join", "over"}

(* The part of a frame in which there is a token.                          *)
Rendering == {"render", "wait", "waitActivation"}

(* Who has the token.                                                      *)
Token ==
    \/ main \in {"messages", "activation", "load", "frame", "handover", "ended"}
            /\ second = "asleep" /\ signal = {}
    \/ main \in Rendering
            /\ \/ second = "asleep" /\ signal \in {{"processFrame"}, {"frameDone"}}
               \/ second \in {"frame", "done"} /\ signal = {}
    \/ main \in {"join", "over"} /\ second \in {"asleep", "exited"}

ExitingAtTheEnd == exiting <=> main \in {"join", "over"}

(* A callback of seqFrame runs while its list is gone through, and that in *)
(* the frame's place.                                                      *)
InPlace ==
    /\ pos \in [Lists -> Nat]
    /\ DOMAIN running = Lists
    /\ pos["frame"] = 0 => running["frame"] = None
    /\ main # "frame" => pos["frame"] = 0

IInv == main \in Places /\ exiting \in BOOLEAN /\ Token /\ ExitingAtTheEnd /\ InPlace

-----------------------------------------------------------------------------
(* The invariant holds in the beginning.                                   *)
LEMMA InitIInv == Init => IInv
  <1> SUFFICES ASSUME Init PROVE IInv
    OBVIOUS
  <1>1. main = "load" /\ second = "asleep" /\ signal = {} /\ exiting = FALSE
    BY DEF Init
  <1>2. pos = [l \in Lists |-> 0] /\ running = [l \in Lists |-> None]
    BY DEF Init
  <1>3. Token
    BY <1>1 DEF Token
  <1>4. ExitingAtTheEnd
    BY <1>1 DEF ExitingAtTheEnd
  <1>5. InPlace
    BY <1>2 DEF InPlace, Lists
  <1> QED
    BY <1>1, <1>3, <1>4, <1>5 DEF IInv, Places

(* The invariant excludes that the threads work together.                  *)
LEMMA Excludes == IInv => NeverTogether
  BY DEF IInv, Token, Rendering, InPlace, NeverTogether

(* A pass over seqFrame, which leaves for the handoff when it ends.        *)
LEMMA FramePassKeeps == IInv /\ FramePass => IInv'
  <1> SUFFICES ASSUME IInv, FramePass PROVE IInv'
    OBVIOUS
  <1>1. main = "frame" /\ pos \in [Lists -> Nat] /\ DOMAIN running = Lists
    BY DEF FramePass, IInv, InPlace
  <1>2. second = "asleep" /\ signal = {} /\ exiting = FALSE
    BY <1>1 DEF IInv, Token, Rendering, ExitingAtTheEnd
  <1>3. UNCHANGED <<signal, exiting>>
    BY DEF FramePass, Pass
  <1>4. /\ UNCHANGED second
        /\ main' = "frame" \/ (main' = "handover" /\ pos'["frame"] = 0)
        /\ pos' \in [Lists -> Nat] /\ DOMAIN running' = Lists
        /\ pos'["frame"] = 0 => running'["frame"] = None
    <2>0. pos["frame"] \in Nat /\ (pos["frame"] = 0 => running["frame"] = None)
      BY <1>1 DEF IInv, InPlace, Lists
    <2>1. CASE BeginPass("frame", GoesTo("handover"))
      <3>1. UNCHANGED <<second, running>>
        BY <2>1 DEF BeginPass, GoesTo
      <3>2. \/ UNCHANGED pos /\ main' = "handover"
            \/ pos' = [pos EXCEPT !["frame"] = 1] /\ UNCHANGED main
        BY <2>1 DEF BeginPass, GoesTo
      <3>3. pos["frame"] = 0
        BY <2>1 DEF BeginPass
      <3> QED
        BY <1>1, <2>0, <3>1, <3>2, <3>3 DEF Lists
    <2>2. CASE PassStep("frame")
      <3>1. UNCHANGED <<main, second>> /\ pos["frame"] # 0
        BY <2>0, <2>2 DEF PassStep
      <3>2. \/ UNCHANGED pos /\ DOMAIN running' = DOMAIN running
            \/ pos' = [pos EXCEPT !["frame"] = @ + 1] /\ UNCHANGED running
        BY <2>2 DEF PassStep
      <3> QED
        BY <1>1, <2>0, <3>1, <3>2 DEF Lists
    <2>3. CASE Return("frame")
      BY <1>1, <2>0, <2>3 DEF Return, Lists
    <2>4. CASE EndPass("frame", GoesTo("handover"))
      BY <1>1, <2>0, <2>4 DEF EndPass, GoesTo, Lists
    <2> QED
      BY <2>1, <2>2, <2>3, <2>4 DEF FramePass, Pass
  <1> QED
    BY <1>1, <1>2, <1>3, <1>4 DEF IInv, Token, Rendering, ExitingAtTheEnd, InPlace, Places

(* A pass over another list leaves that of seqFrame alone.                 *)
LEMMA OtherPassKeeps ==
  ASSUME IInv, NEW l \in Lists \ {"frame"}, NEW leave, Pass(l, leave)
  PROVE  /\ pos' \in [Lists -> Nat] /\ DOMAIN running' = Lists
         /\ pos'["frame"] = pos["frame"] /\ running'["frame"] = running["frame"]
  <1>1. pos \in [Lists -> Nat] /\ DOMAIN running = Lists /\ pos[l] \in Nat
    BY DEF IInv, InPlace
  <1>2. CASE BeginPass(l, leave)
    BY <1>1, <1>2 DEF BeginPass, Lists
  <1>3. CASE PassStep(l)
    BY <1>1, <1>3 DEF PassStep, Lists
  <1>4. CASE Return(l)
    BY <1>1, <1>4 DEF Return, Lists
  <1>5. CASE EndPass(l, leave)
    BY <1>1, <1>5 DEF EndPass, Lists
  <1> QED
    BY <1>2, <1>3, <1>4, <1>5 DEF Pass

(* A pass over seqRender, after which the primary thread waits.            *)
LEMMA RenderPassKeeps == IInv /\ RenderPass => IInv'
  <1> SUFFICES ASSUME IInv, RenderPass PROVE IInv'
    OBVIOUS
  <1>1. main = "render" /\ Pass("render", GoesTo("wait"))
    BY DEF RenderPass
  <1>2. InPlace /\ (main' \in {"render", "wait"} => InPlace')
    BY <1>1, OtherPassKeeps DEF IInv, InPlace, Lists
  <1>3. UNCHANGED <<second, signal, exiting>> /\ main' \in {"render", "wait"}
    BY <1>1 DEF Pass, BeginPass, PassStep, Return, EndPass, GoesTo
  <1> QED
    BY <1>1, <1>2, <1>3 DEF IInv, Token, Rendering, ExitingAtTheEnd, Places

(* A pass over seqFrameMT, after which the second thread is done.          *)
LEMMA MTPassKeeps == IInv /\ MTPass => IInv'
  <1> SUFFICES ASSUME IInv, MTPass PROVE IInv'
    OBVIOUS
  <1>1. second = "frame" /\ Pass("mt", second' = "done" /\ UNCHANGED main)
    BY DEF MTPass
  <1>2. UNCHANGED <<main, signal, exiting>> /\ second' \in {"frame", "done"}
    BY <1>1 DEF Pass, BeginPass, PassStep, Return, EndPass
  <1>3. InPlace'
    BY <1>1, <1>2, OtherPassKeeps DEF IInv, InPlace, Lists
  <1> QED
    BY <1>1, <1>2, <1>3 DEF IInv, Token, Rendering, ExitingAtTheEnd

(* The handoff and the wait: each step takes the token from where it is.   *)
LEMMA HandoffKeeps ==
  IInv /\ (HandOver \/ FrameDone \/ WaitTimeout \/ Wake \/ SecondDone) => IInv'
  <1> SUFFICES ASSUME IInv, HandOver \/ FrameDone \/ WaitTimeout \/ Wake \/ SecondDone
               PROVE  IInv'
    OBVIOUS
  <1>1. UNCHANGED <<passes, exiting>>
    BY DEF HandOver, FrameDone, WaitTimeout, OnActivate, Wake, SecondDone, Elsewhere
  <1>2. Token /\ ExitingAtTheEnd /\ InPlace /\ main \in Places
    BY DEF IInv
  <1>3. CASE HandOver
    <2>1. main = "handover" /\ main' \in {"render", "wait"}
            /\ UNCHANGED second /\ signal' = signal \cup {"processFrame"}
      BY <1>3 DEF HandOver
    <2>2. second = "asleep" /\ signal' = {"processFrame"}
      BY <1>2, <2>1 DEF Token, Rendering
    <2> QED
      BY <1>1, <1>2, <2>1, <2>2 DEF IInv, Token, Rendering, ExitingAtTheEnd, InPlace, Places, passes
  <1>4. CASE FrameDone
    <2>1. main = "wait" /\ main' = "messages" /\ UNCHANGED second
            /\ "frameDone" \in signal /\ signal' = signal \ {"frameDone"}
      BY <1>4 DEF FrameDone, WaitEnds, GoesTo
    <2>2. second = "asleep" /\ signal = {"frameDone"}
      BY <1>2, <2>1 DEF Token, Rendering
    <2> QED
      BY <1>1, <1>2, <2>1, <2>2 DEF IInv, Token, Rendering, ExitingAtTheEnd, InPlace, Places, passes
  <1>5. CASE WaitTimeout
    BY <1>1, <1>2, <1>5 DEF OnActivate, GoesTo, Places, WaitTimeout, IInv, Token, Rendering, ExitingAtTheEnd, InPlace, passes
  <1>6. CASE Wake
    <2>1. UNCHANGED main /\ second = "asleep" /\ "processFrame" \in signal
      BY <1>6 DEF Wake
    <2>2. CASE exiting
      BY <1>1, <1>2, <1>6, <2>1, <2>2
      DEF Wake, IInv, Token, Rendering, ExitingAtTheEnd, InPlace, passes
    <2>3. CASE ~exiting
      <3>1. second' = "frame" /\ signal' = signal \ {"processFrame"}
        BY <1>6, <2>3 DEF Wake
      <3>2. main \in Rendering /\ signal' = {}
        BY <1>2, <2>1, <2>3, <3>1 DEF Token, Rendering, ExitingAtTheEnd
      <3> QED
        BY <1>1, <1>2, <2>1, <3>1, <3>2 DEF IInv, Token, Rendering, ExitingAtTheEnd, InPlace, passes
    <2> QED
      BY <2>2, <2>3
  <1>7. CASE SecondDone
    <2>1. UNCHANGED main /\ second = "done" /\ second' = "asleep"
            /\ signal' = signal \cup {"frameDone"}
      BY <1>7 DEF SecondDone
    <2>2. main \in Rendering /\ signal' = {"frameDone"}
      BY <1>2, <2>1 DEF Token, Rendering
    <2> QED
      BY <1>1, <1>2, <2>1, <2>2 DEF IInv, Token, Rendering, ExitingAtTheEnd, InPlace, passes
  <1> QED
    BY <1>3, <1>4, <1>5, <1>6, <1>7

(* The other steps of the primary thread, at which the token rests.        *)
LEMMA PrimaryKeeps ==
  IInv /\ (Activate \/ ActivateDone \/ TakeQuit \/ Idle \/ LoadingEventDone \/ Stop \/ Join) => IInv'
  <1> SUFFICES ASSUME IInv, \/ Activate \/ ActivateDone \/ TakeQuit \/ Idle
                            \/ LoadingEventDone \/ Stop \/ Join
               PROVE  IInv'
    OBVIOUS
  <1>1. UNCHANGED <<passes, second>>
    BY DEF Activate, ActivateDone, OnActivate, TakeQuit, Idle, LoadingEventDone, Stop, Join, GoesTo, Elsewhere
  <1>2. Token /\ ExitingAtTheEnd /\ InPlace /\ main \in Places /\ exiting \in BOOLEAN
    BY DEF IInv
  <1>3. CASE TakeQuit \/ Idle \/ LoadingEventDone
    <2>1. /\ main \in {"messages", "load"} /\ main' \in {"messages", "load", "frame", "ended"}
          /\ UNCHANGED <<signal, exiting>>
      BY <1>3 DEF TakeQuit, Idle, LoadingEventDone, GoesTo, AfterQuit
    <2> QED
      BY <1>1, <1>2, <2>1 DEF IInv, Token, Rendering, ExitingAtTheEnd, InPlace, Places, passes
  <1>4. CASE Stop
    BY <1>1, <1>2, <1>4 DEF Stop, GoesTo, IInv, Token, Rendering, ExitingAtTheEnd, InPlace, Places, passes
  <1>5. CASE Join
    BY <1>1, <1>2, <1>5 DEF Join, GoesTo, IInv, Token, Rendering, ExitingAtTheEnd, InPlace, Places, passes
  <1>6. CASE Activate \/ ActivateDone
    <2>1. /\ \/ main \in {"messages", "activation"} /\ main' \in {"messages", "activation"}
             \/ main = "waitActivation" /\ main' = "wait"
          /\ UNCHANGED <<signal, exiting>>
      BY <1>6 DEF Activate, ActivateDone, OnActivate, GoesTo
    <2> QED
      BY <1>1, <1>2, <2>1 DEF IInv, Token, Rendering, ExitingAtTheEnd, InPlace, Places, passes
  <1> QED
    BY <1>3, <1>4, <1>5, <1>6

(* What callbacks do changes neither passes nor the handoff.               *)
LEMMA GameCodeKeeps == IInv /\ (GameCodeStep \/ Over \/ UNCHANGED vars) => IInv'
  <1> SUFFICES ASSUME IInv, GameCodeStep \/ Over \/ UNCHANGED vars PROVE IInv'
    OBVIOUS
  <1>1. UNCHANGED <<passes, main, second, signal, exiting>>
    <2>1. CASE \E l \in Lists : \E o \in Users(l) : Change(l, o)
      BY <2>1 DEF Change, threads
    <2>2. CASE PostQuit \/ StartLoading
      BY <2>2 DEF PostQuit, StartLoading, Elsewhere
    <2>3. CASE Over \/ UNCHANGED vars
      BY <2>3 DEF Over, vars, threads
    <2> QED
      BY <2>1, <2>2, <2>3 DEF GameCodeStep
  <1> QED
    BY <1>1 DEF IInv, Token, Rendering, ExitingAtTheEnd, InPlace, passes

-----------------------------------------------------------------------------
(* The second thread works on the frame, on seqFrameMT or seqParallel, only *)
(* while the primary one renders or is in WaitEx, where it may be handling *)
(* WM_ACTIVATE: WaitEx does not return before the event, however often its *)
(* timeout ends and whatever it dispatches, and the event is one frame's.  *)
THEOREM ThreadsApart == Spec => []NeverTogether
  <1>1. IInv /\ [Next]_vars => IInv'
    BY FramePassKeeps, RenderPassKeeps, MTPassKeeps, HandoffKeeps, PrimaryKeeps, GameCodeKeeps
    DEF Next, Primary, Secondary
  <1> QED
    BY InitIInv, Excludes, <1>1, PTL DEF Spec
-----------------------------------------------------------------------------
(* The registrators, and the passes over them.                             *)

Record == [R : Seq(Entry), in_process : BOOLEAN, changed : BOOLEAN]

(* The entries of a list: each names a user of the list, with the priority  *)
(* it registers with or none; and nobody is registered twice.              *)
Entries(l, R) ==
    /\ R \in Seq(Entry)
    /\ \A k \in DOMAIN R :
          R[k].obj \in Users(l) /\ R[k].prio \in {Invalid, Priority[l][R[k].obj]}
    /\ \A m, n \in DOMAIN R :
          R[m].prio # Invalid /\ R[n].prio # Invalid /\ R[m].obj = R[n].obj => m = n

(* A registrator between two calls: what is not in order is marked so, and  *)
(* is in process.                                                          *)
Registrator(l, r) ==
    /\ r \in Record
    /\ Entries(l, r.R)
    /\ r.changed => r.in_process
    /\ ~r.changed => Descending(r.R) /\ r.R = Popped(r.R)

(* Whoever is valid at the indexes from m to n.                            *)
Between(R, m, n) == {R[k].obj : k \in {i \in DOMAIN R : m <= i /\ i <= n /\ R[i].prio # Invalid}}

(* Whoever is valid up to b, in the order of the priorities.               *)
InOrder(R, b) ==
    \A m, n \in DOMAIN R :
        m < n /\ n <= b /\ R[m].prio # Invalid /\ R[n].prio # Invalid => R[m].prio >= R[n].prio

(* A pass that is at p, with the callback c running, has still to call d:   *)
(* those ahead of it that were there when it began, the first b entries.   *)
Ahead(R, p, c, d, u) ==
    \E b \in 0 .. Len(R) :
        /\ d = Between(R, IF c = None THEN p ELSE p + 1, b)
        /\ u \/ InOrder(R, b)

Passing(l, r, p, c, d, u) ==
    /\ p \in 0 .. Len(r.R) + 1
    /\ c \in Users(l) \cup {None}
    /\ c # None => p \in 1 .. Len(r.R)
    /\ u \in BOOLEAN
    /\ IF p = 0 THEN d = {} ELSE r.in_process /\ Ahead(r.R, p, c, d, u)

ListInv(l) ==
    /\ Registrator(l, reg[l])
    /\ Passing(l, reg[l], pos[l], running[l], due[l], unsorted[l])

ListsInv ==
    /\ DOMAIN reg = Lists /\ DOMAIN pos = Lists /\ DOMAIN running = Lists
    /\ DOMAIN due = Lists /\ DOMAIN unsorted = Lists
    /\ \A l \in Lists : ListInv(l)

(* The order of the natural numbers.                                         *)
Less == {p \in Nat \X Nat : p[1] < p[2]}

(* A set of natural numbers that is not empty has a least member.            *)
LEMMA Least ==
  ASSUME NEW T \in SUBSET Nat, T # {}
  PROVE  \E n \in T : \A m \in T : n <= m
<1>1. IsWellFoundedOn(Less, Nat)
  BY NatLessThanWellFounded DEF Less, OpToRel
<1>2. PICK x \in T : \A y \in T : ~ (<<y, x>> \in Less)
  BY <1>1, WFMin
<1>3. ASSUME NEW y \in T PROVE x <= y
  <2>1. <<y, x>> \notin Less
    BY <1>2
  <2>2. y \in Nat /\ x \in Nat
    OBVIOUS
  <2>3. ~(y < x)
    BY <2>1, <2>2 DEF Less
  <2> QED BY <2>2, <2>3
<1> QED BY <1>3

(* The largest of some indexes, or 0.                                      *)
LEMMA LargestIndex ==
  ASSUME NEW n \in Nat, NEW S \in SUBSET (1 .. n)
  PROVE  /\ Max({0} \cup S) \in {0} \cup S
         /\ \A k \in S : k <= Max({0} \cup S)
  <1> DEFINE T == {m \in Nat : \A k \in S : k <= m}
  <1>1. n \in T
    OBVIOUS
  <1>2. PICK b \in T : \A m \in T : b <= m
    <2> HIDE DEF T
    <2>1. T \in SUBSET Nat
      BY DEF T
    <2> QED
      BY <1>1, <2>1, Least
  <1>3. b \in {0} \cup S
    <2> SUFFICES ASSUME b # 0, b \notin S PROVE FALSE
      OBVIOUS
    <2>1. b - 1 \in T
      OBVIOUS
    <2> QED
      BY <1>2, <2>1
  <1>4. \A k \in {0} \cup S : b >= k
    OBVIOUS
  <1> HIDE DEF T
  <1>5. \E x \in {0} \cup S : \A y \in {0} \cup S : x >= y
    BY <1>3, <1>4
  <1>6. /\ Max({0} \cup S) \in {0} \cup S
        /\ \A y \in {0} \cup S : Max({0} \cup S) >= y
    BY <1>5 DEF Max
  <1> QED
    BY <1>6

(* What is popped is the end of the list, and there is nobody valid in it. *)
LEMMA PoppedIs ==
  ASSUME NEW E, NEW R \in Seq(E)
  PROVE  \E b \in 0 .. Len(R) :
            /\ Popped(R) \in Seq(E) /\ Len(Popped(R)) = b
            /\ \A k \in 1 .. b : Popped(R)[k] = R[k]
            /\ \A k \in DOMAIN R : R[k].prio # Invalid => k <= b
            /\ b = 0 \/ R[b].prio # Invalid
  <1> DEFINE V == {k \in DOMAIN R : R[k].prio # Invalid}
             b == Max({0} \cup V)
  <1>1. V \in SUBSET (1 .. Len(R)) /\ Len(R) \in Nat
    OBVIOUS
  <1>2. b \in {0} \cup V /\ \A k \in V : k <= b
    <2> HIDE DEF V
    <2> QED
      BY <1>1, LargestIndex
  <1>3. Popped(R) = SubSeq(R, 1, b)
    BY DEF Popped
  <1> HIDE DEF b
  <1>4. b \in 0 .. Len(R)
    BY <1>1, <1>2
  <1>5. /\ SubSeq(R, 1, b) \in Seq(E) /\ Len(SubSeq(R, 1, b)) = b
        /\ \A k \in 1 .. b : SubSeq(R, 1, b)[k] = R[k]
    BY <1>4
  <1> QED
    BY <1>2, <1>3, <1>4, <1>5

(* Nobody is lost when the invalid entries at the end are popped, and      *)
(* there is none left to pop.                                              *)
LEMMA PoppedKeeps ==
  ASSUME NEW l \in Lists, NEW R, Entries(l, R), Descending(R)
  PROVE  /\ Entries(l, Popped(R)) /\ Descending(Popped(R))
         /\ Popped(Popped(R)) = Popped(R)
         /\ Live(Popped(R)) = Live(R)
  <1> DEFINE P == Popped(R)
             Q == Popped(P)
  <1>1. R \in Seq(Entry)
    BY DEF Entries
  <1>2. PICK b \in 0 .. Len(R) :
            /\ P \in Seq(Entry) /\ Len(P) = b
            /\ \A k \in 1 .. b : P[k] = R[k]
            /\ \A k \in DOMAIN R : R[k].prio # Invalid => k <= b
            /\ b = 0 \/ R[b].prio # Invalid
    BY <1>1, PoppedIs
  <1>3. PICK a \in 0 .. Len(P) :
            /\ Q \in Seq(Entry) /\ Len(Q) = a
            /\ \A k \in 1 .. a : Q[k] = P[k]
            /\ \A k \in DOMAIN P : P[k].prio # Invalid => k <= a
            /\ a = 0 \/ P[a].prio # Invalid
    BY <1>2, PoppedIs
  <1> HIDE DEF P, Q
  <1>4. \A k \in DOMAIN P : k \in DOMAIN R /\ P[k] = R[k]
    BY <1>1, <1>2
  <1>5. Q = P
    <2>1. a = b
      <3>1. CASE b = 0
        BY <1>2, <1>3, <3>1
      <3>2. CASE b # 0
        <4>1. b \in DOMAIN P /\ P[b] = R[b]
          BY <1>2, <3>2
        <4> QED
          BY <1>2, <1>3, <3>2, <4>1
      <3> QED
        BY <3>1, <3>2
    <2>2. Len(Q) = Len(P) /\ \A k \in 1 .. Len(P) : Q[k] = P[k]
      BY <1>2, <1>3, <2>1
    <2> QED
      BY <1>2, <1>3, <2>2
  <1>6. Entries(l, P)
    BY <1>2, <1>4 DEF Entries
  <1>7. Descending(P)
    BY <1>4 DEF Descending
  <1>8. Live(P) = Live(R)
    <2>1. \A k \in DOMAIN R : R[k].prio # Invalid => k \in DOMAIN P
      BY <1>1, <1>2
    <2> QED
      BY <1>4, <2>1 DEF Live
  <1> QED
    BY <1>5, <1>6, <1>7, <1>8 DEF P, Q

(* Sorting moves the entries, every one to an index of its own.            *)
LEMMA SortedKeeps ==
  ASSUME NEW l \in Lists, NEW R, Entries(l, R), NEW S \in Sorted(R)
  PROVE  Entries(l, S) /\ Descending(S) /\ Live(S) = Live(R)
  <1> DEFINE D == DOMAIN R
  <1>1. PICK p \in Bijection(D, D) : S = [k \in D |-> R[p[k]]]
    BY DEF Sorted
  <1>2. Descending(S)
    BY DEF Sorted
  <1>3. R \in Seq(Entry) /\ D = 1 .. Len(R) /\ Len(R) \in Nat
    BY DEF Entries
  <1>4. p \in [D -> D] /\ \A k \in D : \E n \in D : p[n] = k
    BY <1>1 DEF Bijection, Surjection
  <1>5. \A m, n \in D : p[m] = p[n] => m = n
    BY <1>1 DEF Bijection, Injection, IsInjective
  <1> HIDE DEF D
  <1>6. S \in Seq(Entry) /\ DOMAIN S = D /\ \A k \in D : S[k] = R[p[k]]
    BY <1>1, <1>3, <1>4
  <1>7. Entries(l, S)
    <2>1. \A k \in D : S[k].obj \in Users(l) /\ S[k].prio \in {Invalid, Priority[l][S[k].obj]}
      BY <1>4, <1>6 DEF Entries, D
    <2>2. ASSUME NEW m \in D, NEW n \in D,
                 S[m].prio # Invalid, S[n].prio # Invalid, S[m].obj = S[n].obj
          PROVE  m = n
      <3>1. p[m] \in D /\ p[n] \in D
        BY <1>4
      <3>2. p[m] = p[n]
        BY <1>6, <2>2, <3>1 DEF Entries, D
      <3> QED
        BY <1>5, <3>2
    <2> QED
      BY <1>6, <2>1, <2>2 DEF Entries
  <1>8. Live(S) = Live(R)
    <2>1. ASSUME NEW o \in Live(S) PROVE o \in Live(R)
      <3>1. PICK k \in D : S[k].prio # Invalid /\ S[k].obj = o
        BY <1>6, <2>1 DEF Live
      <3>2. p[k] \in DOMAIN R /\ R[p[k]].prio # Invalid /\ R[p[k]].obj = o
        BY <1>4, <1>6, <3>1 DEF D
      <3> QED
        BY <3>2 DEF Live
    <2>2. ASSUME NEW o \in Live(R) PROVE o \in Live(S)
      <3>1. PICK k \in D : R[k].prio # Invalid /\ R[k].obj = o
        BY <2>2 DEF Live, D
      <3>2. PICK n \in D : p[n] = k
        BY <1>4
      <3>3. n \in DOMAIN S /\ S[n].prio # Invalid /\ S[n].obj = o
        BY <1>6, <3>1, <3>2
      <3> QED
        BY <3>3 DEF Live
    <2> QED
      BY <2>1, <2>2
  <1> QED
    BY <1>2, <1>7, <1>8

LEMMA ResortedIs ==
  ASSUME NEW l \in Lists, NEW r \in Record, Entries(l, r.R), NEW w \in Resorted(r)
  PROVE  /\ w \in Record /\ w.in_process = r.in_process /\ w.changed = FALSE
         /\ Entries(l, w.R) /\ Descending(w.R) /\ w.R = Popped(w.R)
         /\ Live(w.R) = Live(r.R)
  <1>1. PICK S \in Sorted(r.R) : w = [r EXCEPT !.R = Popped(S), !.changed = FALSE]
    BY DEF Resorted
  <1>2. Entries(l, S) /\ Descending(S) /\ Live(S) = Live(r.R)
    BY SortedKeeps
  <1>3. /\ Entries(l, Popped(S)) /\ Descending(Popped(S))
        /\ Popped(Popped(S)) = Popped(S) /\ Live(Popped(S)) = Live(S)
    BY <1>2, PoppedKeeps
  <1>4. w.R = Popped(S) /\ w.in_process = r.in_process /\ w.changed = FALSE
    BY <1>1 DEF Record
  <1>5. w \in Record
    BY <1>1, <1>3 DEF Record, Entries
  <1> QED
    BY <1>2, <1>3, <1>4, <1>5

(* After Add or Remove the registrator is in order, or marked; and while a *)
(* pass goes through it no entry has moved.                                *)
LEMMA SettledIs ==
  ASSUME NEW l \in Lists, NEW r \in Record, Entries(l, r.R),
         r.changed => r.in_process, NEW w \in Settled(r)
  PROVE  /\ Registrator(l, w) /\ w.in_process = r.in_process
         /\ Live(w.R) = Live(r.R)
         /\ r.in_process => w.R = r.R
  <1>1. CASE r.in_process
    <2>1. w = [r EXCEPT !.changed = TRUE]
      BY <1>1 DEF Settled
    <2>2. w \in Record /\ w.R = r.R /\ w.in_process = r.in_process /\ w.changed = TRUE
      BY <2>1 DEF Record
    <2> QED
      BY <1>1, <2>2 DEF Registrator, Record
  <1>2. CASE ~r.in_process
    <2>1. w \in Resorted(r)
      BY <1>2 DEF Settled
    <2> QED
      BY <1>2, <2>1, ResortedIs DEF Registrator, Record
  <1> QED
    BY <1>1, <1>2

-----------------------------------------------------------------------------
(* A step changes one list at most.                                        *)
Sets(l, f, g, x) == DOMAIN g = Lists /\ g[l] = x /\ \A m \in Lists \ {l} : g[m] = f[m]

LEMMA OneList ==
  ASSUME ListsInv, NEW l \in Lists, NEW r, NEW p, NEW c, NEW d, NEW u,
         Sets(l, reg, reg', r), Sets(l, pos, pos', p), Sets(l, running, running', c),
         Sets(l, due, due', d), Sets(l, unsorted, unsorted', u),
         Registrator(l, r), Passing(l, r, p, c, d, u)
  PROVE  ListsInv'
  <1>1. ListInv(l)'
    BY DEF Sets, ListInv
  <1>2. ASSUME NEW m \in Lists \ {l} PROVE ListInv(m)'
    BY DEF Sets, ListInv, ListsInv
  <1> QED
    BY <1>1, <1>2 DEF ListsInv, Sets

LEMMA Untouched ==
  ASSUME ListsInv, UNCHANGED <<reg, passes, history>>
  PROVE  ListsInv'
  BY DEF ListsInv, ListInv, passes, history

(* A user is added at the end: to be called by the pass under way, after   *)
(* those it has still to call.                                             *)
LEMMA Appended ==
  ASSUME NEW l \in Lists, NEW R, Entries(l, R), NEW o \in Users(l), o \notin Live(R)
  PROVE  LET A == Append(R, [obj |-> o, prio |-> Priority[l][o]]) IN
         /\ Entries(l, A) /\ Len(A) = Len(R) + 1 /\ Live(A) = Live(R) \cup {o}
         /\ \A p, c, d, u : p \in Nat /\ Ahead(R, p, c, d, u) => Ahead(A, p, c, d, u)
  <1> DEFINE e == [obj |-> o, prio |-> Priority[l][o]]
             A == Append(R, e)
  <1>1. R \in Seq(Entry) /\ Len(R) \in Nat
    BY DEF Entries
  <1>2. e \in Entry /\ e.obj = o /\ e.prio = Priority[l][o] /\ e.prio # Invalid
    BY FrameLoopAssumption DEF FrameLoopAssumption, Entry
  <1> HIDE DEF e
  <1>3. /\ A \in Seq(Entry) /\ Len(A) = Len(R) + 1 /\ A[Len(R) + 1] = e
        /\ \A k \in DOMAIN R : A[k] = R[k]
    BY <1>1, <1>2
  <1> HIDE DEF A
  <1>4. DOMAIN R = 1 .. Len(R) /\ DOMAIN A = 1 .. Len(R) + 1
    BY <1>1, <1>3
  <1>5. Entries(l, A)
    <2>1. \A k \in DOMAIN A : A[k].obj \in Users(l) /\ A[k].prio \in {Invalid, Priority[l][A[k].obj]}
      <3> SUFFICES ASSUME NEW k \in DOMAIN A
                   PROVE  A[k].obj \in Users(l) /\ A[k].prio \in {Invalid, Priority[l][A[k].obj]}
        OBVIOUS
      <3>1. CASE k \in DOMAIN R
        BY <1>3, <3>1 DEF Entries
      <3>2. CASE k = Len(R) + 1
        BY <1>2, <1>3, <3>2
      <3> QED
        BY <1>1, <1>4, <3>1, <3>2
    <2>2. \A k \in DOMAIN R : R[k].prio # Invalid => R[k].obj # o
      BY DEF Live
    <2>3. ASSUME NEW m \in DOMAIN A, NEW n \in DOMAIN A,
                 A[m].prio # Invalid, A[n].prio # Invalid, A[m].obj = A[n].obj
          PROVE  m = n
      <3>1. CASE m \in DOMAIN R /\ n \in DOMAIN R
        BY <1>3, <2>3, <3>1 DEF Entries
      <3>2. CASE m \notin DOMAIN R /\ n \notin DOMAIN R
        BY <1>1, <1>4, <3>2
      <3>3. CASE m \in DOMAIN R /\ n \notin DOMAIN R
        <4>1. A[n] = e
          BY <1>1, <1>3, <1>4, <3>3
        <4> QED
          BY <1>2, <1>3, <2>2, <2>3, <3>3, <4>1
      <3>4. CASE m \notin DOMAIN R /\ n \in DOMAIN R
        <4>1. A[m] = e
          BY <1>1, <1>3, <1>4, <3>4
        <4> QED
          BY <1>2, <1>3, <2>2, <2>3, <3>4, <4>1
      <3> QED
        BY <3>1, <3>2, <3>3, <3>4
    <2> QED
      BY <1>3, <2>1, <2>3 DEF Entries
  <1>6. Live(A) = Live(R) \cup {o}
    <2>1. ASSUME NEW x \in Live(A) PROVE x \in Live(R) \cup {o}
      <3>1. PICK k \in DOMAIN A : A[k].prio # Invalid /\ A[k].obj = x
        BY <2>1 DEF Live
      <3>2. CASE k \in DOMAIN R
        BY <1>3, <3>1, <3>2 DEF Live
      <3>3. CASE k \notin DOMAIN R
        BY <1>1, <1>2, <1>3, <1>4, <3>1, <3>3
      <3> QED
        BY <3>2, <3>3
    <2>2. o \in Live(A)
      <3>1. Len(R) + 1 \in DOMAIN A
        BY <1>1, <1>4
      <3> QED
        BY <1>2, <1>3, <3>1 DEF Live
    <2>3. ASSUME NEW x \in Live(R) PROVE x \in Live(A)
      <3>1. PICK k \in DOMAIN R : R[k].prio # Invalid /\ R[k].obj = x
        BY <2>3 DEF Live
      <3>2. k \in DOMAIN A /\ A[k] = R[k]
        BY <1>1, <1>3, <1>4
      <3> QED
        BY <3>1, <3>2 DEF Live
    <2> QED
      BY <2>1, <2>2, <2>3
  <1>7. ASSUME NEW p \in Nat, NEW c, NEW d, NEW u, Ahead(R, p, c, d, u)
        PROVE  Ahead(A, p, c, d, u)
    <2> DEFINE from == IF c = None THEN p ELSE p + 1
    <2>1. PICK b \in 0 .. Len(R) : d = Between(R, from, b) /\ (u \/ InOrder(R, b))
      BY <1>7 DEF Ahead
    <2>2. b \in 0 .. Len(A) /\ from \in Nat
      BY <1>1, <1>3
    <2>3. \A k \in DOMAIN A : k <= b => k \in DOMAIN R /\ A[k] = R[k]
      BY <1>1, <1>3, <1>4
    <2> HIDE DEF from
    <2>4. Between(A, from, b) = Between(R, from, b)
      <3>1. {i \in DOMAIN A : from <= i /\ i <= b /\ A[i].prio # Invalid}
              = {i \in DOMAIN R : from <= i /\ i <= b /\ R[i].prio # Invalid}
        BY <1>1, <1>3, <1>4, <2>3
      <3>2. \A i \in DOMAIN R : A[i] = R[i]
        BY <1>3
      <3> QED
        BY <3>1, <3>2 DEF Between
    <2>5. InOrder(R, b) => InOrder(A, b)
      <3> SUFFICES ASSUME InOrder(R, b), NEW m \in DOMAIN A, NEW n \in DOMAIN A, m < n, n <= b,
                          A[m].prio # Invalid, A[n].prio # Invalid
                   PROVE  A[m].prio >= A[n].prio
        BY DEF InOrder
      <3>1. m \in DOMAIN R /\ n \in DOMAIN R /\ A[m] = R[m] /\ A[n] = R[n]
        BY <1>1, <1>4, <2>3
      <3> QED
        BY <3>1 DEF InOrder
    <2> QED
      BY <2>1, <2>2, <2>4, <2>5 DEF Ahead, from
  <1> QED
    BY <1>3, <1>5, <1>6, <1>7 DEF A, e

(* A user is removed: the pass under way has not to call him any more, and *)
(* the others keep their places.                                           *)
Invalidated(R, o) == [k \in DOMAIN R |-> IF R[k].obj = o THEN [R[k] EXCEPT !.prio = Invalid] ELSE R[k]]

LEMMA InvalidatedIs ==
  ASSUME NEW l \in Lists, NEW R, Entries(l, R), NEW o \in Users(l)
  PROVE  LET A == Invalidated(R, o) IN
         /\ Entries(l, A) /\ Len(A) = Len(R)
         /\ \A p, c, d, u : Ahead(R, p, c, d, u) => Ahead(A, p, c, d \ {o}, u)
  <1> DEFINE A == Invalidated(R, o)
  <1>1. R \in Seq(Entry) /\ Len(R) \in Nat /\ DOMAIN R = 1 .. Len(R)
    BY DEF Entries
  <1>2. ASSUME NEW k \in DOMAIN R
        PROVE  /\ A[k] \in Entry /\ A[k].obj = R[k].obj
               /\ A[k].prio = IF R[k].obj = o THEN Invalid ELSE R[k].prio
    <2>1. R[k] \in Entry /\ A[k] = IF R[k].obj = o THEN [R[k] EXCEPT !.prio = Invalid] ELSE R[k]
      BY <1>1 DEF Invalidated
    <2> QED
      BY <2>1 DEF Entry, Invalid
  <1>3. A \in Seq(Entry) /\ Len(A) = Len(R) /\ DOMAIN A = DOMAIN R
    <2>1. A = [k \in 1 .. Len(R) |-> A[k]]
      BY <1>1 DEF Invalidated
    <2> QED
      BY <1>1, <1>2, <2>1
  <1> HIDE DEF A
  <1>4. Entries(l, A)
    BY <1>2, <1>3 DEF Entries
  <1>5. ASSUME NEW p, NEW c, NEW d, NEW u, Ahead(R, p, c, d, u)
        PROVE  Ahead(A, p, c, d \ {o}, u)
    <2> DEFINE from == IF c = None THEN p ELSE p + 1
    <2>1. PICK b \in 0 .. Len(R) : d = Between(R, from, b) /\ (u \/ InOrder(R, b))
      BY <1>5 DEF Ahead
    <2> HIDE DEF from
    <2>2. Between(A, from, b) = Between(R, from, b) \ {o}
      <3>1. ASSUME NEW x \in Between(A, from, b) PROVE x \in Between(R, from, b) \ {o}
        <4>1. PICK k \in DOMAIN A : from <= k /\ k <= b /\ A[k].prio # Invalid /\ A[k].obj = x
          BY <3>1 DEF Between
        <4>2. R[k].obj # o /\ R[k].prio # Invalid /\ R[k].obj = x
          BY <1>2, <1>3, <4>1
        <4> QED
          BY <1>3, <4>1, <4>2 DEF Between
      <3>2. ASSUME NEW x \in Between(R, from, b) \ {o} PROVE x \in Between(A, from, b)
        <4>1. PICK k \in DOMAIN R : from <= k /\ k <= b /\ R[k].prio # Invalid /\ R[k].obj = x
          BY <3>2 DEF Between
        <4>2. A[k].prio # Invalid /\ A[k].obj = x
          BY <1>2, <3>2, <4>1
        <4> QED
          BY <1>3, <4>1, <4>2 DEF Between
      <3> QED
        BY <3>1, <3>2
    <2>3. InOrder(R, b) => InOrder(A, b)
      <3> SUFFICES ASSUME InOrder(R, b), NEW m \in DOMAIN A, NEW n \in DOMAIN A, m < n, n <= b,
                          A[m].prio # Invalid, A[n].prio # Invalid
                   PROVE  A[m].prio >= A[n].prio
        BY DEF InOrder
      <3>1. A[m].prio = R[m].prio /\ A[n].prio = R[n].prio
        BY <1>2, <1>3
      <3> QED
        BY <1>3, <3>1 DEF InOrder
    <2> QED
      BY <1>3, <2>1, <2>2, <2>3 DEF Ahead, from
  <1> QED
    BY <1>3, <1>4, <1>5 DEF A

(* Add and Remove, of any list and in the middle of any pass.              *)
LEMMA AddKeeps ==
  ASSUME ListsInv, NEW l \in Lists, NEW o \in Users(l), Add(l, o), UNCHANGED <<passes, unsorted>>
  PROVE  ListsInv'
  <1> DEFINE r == reg[l]
             A == Append(r.R, [obj |-> o, prio |-> Priority[l][o]])
             x == [r EXCEPT !.R = A]
  <1>1. PICK w \in Settled(x) : reg' = [reg EXCEPT ![l] = w]
    BY DEF Add
  <1>2. /\ Registrator(l, r) /\ r \in Record /\ Entries(l, r.R)
        /\ Passing(l, r, pos[l], running[l], due[l], unsorted[l])
    BY DEF ListsInv, ListInv, Registrator
  <1>3. /\ Entries(l, A) /\ Len(A) = Len(r.R) + 1 /\ A \in Seq(Entry)
        /\ \A p, c, d, u : p \in Nat /\ Ahead(r.R, p, c, d, u) => Ahead(A, p, c, d, u)
    BY <1>2, Appended DEF Add, Entries
  <1> HIDE DEF A
  <1>4. x \in Record /\ x.R = A /\ x.in_process = r.in_process /\ x.changed = r.changed
    BY <1>2, <1>3 DEF Record
  <1> HIDE DEF x
  <1>5. /\ Registrator(l, w) /\ w.in_process = r.in_process
        /\ r.in_process => w.R = A
    BY <1>2, <1>3, <1>4, SettledIs DEF Registrator
  <1>6. Passing(l, w, pos[l], running[l], due[l], unsorted[l])
    <2>1. CASE pos[l] = 0
      <3>1. Len(w.R) \in Nat
        BY <1>5 DEF Registrator, Record
      <3> QED
        BY <1>2, <2>1, <3>1 DEF Passing
    <2>2. CASE pos[l] # 0
      <3>1. r.in_process /\ w.R = A
        BY <1>2, <1>5, <2>2 DEF Passing
      <3>2. Len(r.R) \in Nat
        BY <1>2 DEF Record
      <3> QED
        BY <1>2, <1>3, <1>5, <2>2, <3>1, <3>2 DEF Passing
    <2> QED
      BY <2>1, <2>2
  <1>7. /\ Sets(l, reg, reg', w) /\ Sets(l, pos, pos', pos[l])
        /\ Sets(l, running, running', running[l])
        /\ Sets(l, due, due', due[l]) /\ Sets(l, unsorted, unsorted', unsorted[l])
    BY <1>1 DEF Sets, ListsInv, Add, passes
  <1> QED
    BY <1>5, <1>6, <1>7, OneList

LEMMA RemoveKeeps ==
  ASSUME ListsInv, NEW l \in Lists, NEW o \in Users(l), Remove(l, o), UNCHANGED <<passes, unsorted>>
  PROVE  ListsInv'
  <1> DEFINE r == reg[l]
             A == Invalidated(r.R, o)
             x == [r EXCEPT !.R = A]
  <1>1. PICK w \in Settled(x) : reg' = [reg EXCEPT ![l] = w]
    BY DEF Remove, Invalidated
  <1>2. /\ Registrator(l, r) /\ r \in Record /\ Entries(l, r.R)
        /\ Passing(l, r, pos[l], running[l], due[l], unsorted[l])
    BY DEF ListsInv, ListInv, Registrator
  <1>3. /\ Entries(l, A) /\ Len(A) = Len(r.R) /\ A \in Seq(Entry)
        /\ \A p, c, d, u : Ahead(r.R, p, c, d, u) => Ahead(A, p, c, d \ {o}, u)
    BY <1>2, InvalidatedIs DEF Entries
  <1> HIDE DEF A
  <1>4. x \in Record /\ x.R = A /\ x.in_process = r.in_process /\ x.changed = r.changed
    BY <1>2, <1>3 DEF Record
  <1> HIDE DEF x
  <1>5. /\ Registrator(l, w) /\ w.in_process = r.in_process
        /\ r.in_process => w.R = A
    BY <1>2, <1>3, <1>4, SettledIs DEF Registrator
  <1>6. Passing(l, w, pos[l], running[l], due[l] \ {o}, unsorted[l])
    <2>1. CASE pos[l] = 0
      <3>1. Len(w.R) \in Nat
        BY <1>5 DEF Registrator, Record
      <3> QED
        BY <1>2, <2>1, <3>1 DEF Passing
    <2>2. CASE pos[l] # 0
      <3>1. r.in_process /\ w.R = A
        BY <1>2, <1>5, <2>2 DEF Passing
      <3> QED
        BY <1>2, <1>3, <1>5, <2>2, <3>1 DEF Passing
    <2> QED
      BY <2>1, <2>2
  <1>7. /\ Sets(l, reg, reg', w) /\ Sets(l, pos, pos', pos[l])
        /\ Sets(l, running, running', running[l])
        /\ Sets(l, due, due', due[l] \ {o}) /\ Sets(l, unsorted, unsorted', unsorted[l])
    BY <1>1 DEF Sets, ListsInv, Remove, passes
  <1> QED
    BY <1>5, <1>6, <1>7, OneList

-----------------------------------------------------------------------------
(* What CalledInOrder says of a step and a list.                           *)
Called(l) ==
    /\ running[l] = None /\ running'[l] # None =>
           /\ running'[l] \in Live(reg[l].R)
           /\ IF running'[l] \in due[l]
              THEN unsorted[l] \/ \A o \in due[l] :
                      Priority[l][o] <= Priority[l][running'[l]]
              ELSE due[l] = {}
    /\ pos[l] > 0 /\ pos'[l] = 0 => due[l] = {}

(* A pass begins: whom it has to call are all those in the list.           *)
LEMMA BeginPassKeeps ==
  ASSUME ListsInv, NEW l \in Lists, NEW leave, BeginPass(l, leave)
  PROVE  ListsInv' /\ \A m \in Lists : Called(m)
  <1> DEFINE r == reg[l]
             w == [r EXCEPT !.in_process = TRUE]
  <1>1. /\ Registrator(l, r) /\ r \in Record /\ Entries(l, r.R)
        /\ Passing(l, r, 0, running[l], due[l], unsorted[l])
        /\ pos[l] = 0
    BY DEF ListsInv, ListInv, Registrator, BeginPass
  <1>2. running[l] = None /\ due[l] = {} /\ unsorted[l] \in BOOLEAN
    BY <1>1 DEF Passing
  <1>3. w \in Record /\ w.R = r.R /\ w.in_process = TRUE /\ w.changed = r.changed
    BY <1>1 DEF Record
  <1> HIDE DEF w
  <1>4. Registrator(l, w)
    BY <1>1, <1>3 DEF Registrator
  <1>5. r.R \in Seq(Entry) /\ Len(r.R) \in Nat /\ DOMAIN r.R = 1 .. Len(r.R)
    BY <1>1 DEF Record
  <1>6. Sets(l, reg, reg', w) /\ Sets(l, running, running', running[l])
    BY DEF BeginPass, Sets, ListsInv, w
  <1>7. CASE r.R = <<>>
    <2>1. /\ Sets(l, pos, pos', 0) /\ Sets(l, due, due', due[l])
          /\ Sets(l, unsorted, unsorted', unsorted[l])
      BY <1>1, <1>7 DEF BeginPass, Sets, ListsInv
    <2>2. Passing(l, w, 0, running[l], due[l], unsorted[l])
      BY <1>1, <1>3 DEF Passing
    <2>3. ListsInv'
      BY <1>4, <1>6, <2>1, <2>2, OneList
    <2> QED
      BY <1>1, <1>6, <2>1, <2>3 DEF Called, Sets
  <1>8. CASE r.R # <<>>
    <2>1. /\ Sets(l, pos, pos', 1) /\ Sets(l, due, due', Live(r.R))
          /\ Sets(l, unsorted, unsorted', r.in_process)
      BY <1>8 DEF BeginPass, Sets, ListsInv
    <2>2. Len(r.R) >= 1
      BY <1>5, <1>8
    <2>3. Live(r.R) = Between(r.R, 1, Len(r.R))
      BY <1>5 DEF Live, Between
    <2>4. ~r.in_process => InOrder(r.R, Len(r.R))
      BY <1>1 DEF Registrator, Descending, InOrder
    <2>5. r.in_process \in BOOLEAN
      BY <1>1 DEF Record
    <2>6. Ahead(w.R, 1, None, Live(r.R), r.in_process)
      BY <1>3, <1>5, <2>3, <2>4, <2>5 DEF Ahead
    <2>7. Passing(l, w, 1, running[l], Live(r.R), r.in_process)
      BY <1>2, <1>3, <1>5, <2>2, <2>5, <2>6 DEF Passing
    <2>8. ListsInv'
      BY <1>4, <1>6, <2>1, <2>7, OneList
    <2>9. \A m \in Lists : running'[m] = running[m] /\ (pos'[m] = pos[m] \/ pos'[m] # 0)
      BY <1>6, <2>1 DEF Sets
    <2> QED
      BY <2>8, <2>9 DEF Called
  <1> QED
    BY <1>7, <1>8

(* The next entry: it is called, unless it was removed.                    *)
LEMMA PassStepKeeps ==
  ASSUME ListsInv, NEW l \in Lists, PassStep(l)
  PROVE  ListsInv' /\ \A m \in Lists : Called(m)
  <1> DEFINE r == reg[l]
             R == r.R
             p == pos[l]
             e == R[p]
  <1>1. /\ Registrator(l, r) /\ r \in Record /\ Entries(l, R)
        /\ Passing(l, r, p, None, due[l], unsorted[l])
        /\ running[l] = None
    BY DEF ListsInv, ListInv, Registrator, PassStep
  <1>2. /\ R \in Seq(Entry) /\ Len(R) \in Nat /\ DOMAIN R = 1 .. Len(R)
        /\ p \in 1 .. Len(R) /\ p # 0 /\ r.in_process /\ unsorted[l] \in BOOLEAN
    BY <1>1 DEF Record, PassStep, Passing
  <1>3. PICK b \in 0 .. Len(R) : /\ due[l] = Between(R, p, b)
                                 /\ unsorted[l] \/ InOrder(R, b)
    BY <1>1, <1>2 DEF Passing, Ahead
  <1>4. e \in Entry /\ e.obj \in Users(l) /\ e.prio \in {Invalid, Priority[l][e.obj]}
    BY <1>1, <1>2 DEF Entries
  <1>5. Users(l) \subseteq DOMAIN Priority[l] /\ \A o \in Users(l) : o # None
    BY FrameLoopAssumption DEF FrameLoopAssumption, Users
  <1> HIDE DEF R, p, e
  <1>6. Sets(l, reg, reg', r) /\ Sets(l, unsorted, unsorted', unsorted[l])
    BY DEF PassStep, Sets, ListsInv
  <1>7. CASE e.prio # Invalid
    <2>1. /\ Sets(l, running, running', e.obj) /\ Sets(l, due, due', due[l] \ {e.obj})
          /\ Sets(l, pos, pos', p)
      BY <1>7 DEF PassStep, Callable, Sets, ListsInv, R, p, e
    <2>2. due[l] \ {e.obj} = Between(R, p + 1, b)
      <3>1. ASSUME NEW x \in due[l] \ {e.obj} PROVE x \in Between(R, p + 1, b)
        <4>1. PICK k \in DOMAIN R : p <= k /\ k <= b /\ R[k].prio # Invalid /\ R[k].obj = x
          BY <1>3, <3>1 DEF Between
        <4>2. k # p
          BY <3>1, <4>1 DEF e
        <4>3. p + 1 <= k
          BY <1>2, <4>1, <4>2
        <4> QED
          BY <4>1, <4>3 DEF Between
      <3>2. ASSUME NEW x \in Between(R, p + 1, b) PROVE x \in due[l] \ {e.obj}
        <4>1. PICK k \in DOMAIN R : p + 1 <= k /\ k <= b /\ R[k].prio # Invalid /\ R[k].obj = x
          BY <3>2 DEF Between
        <4>2. k # p /\ p <= k
          BY <1>2, <4>1
        <4>3. x # e.obj
          BY <1>1, <1>2, <1>7, <4>1, <4>2 DEF Entries, e
        <4> QED
          BY <1>3, <4>1, <4>2, <4>3 DEF Between
      <3> QED
        BY <3>1, <3>2
    <2>3. Ahead(R, p, e.obj, due[l] \ {e.obj}, unsorted[l])
      BY <1>3, <1>4, <1>5, <2>2 DEF Ahead
    <2>4. Passing(l, r, p, e.obj, due[l] \ {e.obj}, unsorted[l])
      BY <1>2, <1>4, <2>3 DEF Passing, R
    <2>5. ListsInv'
      BY <1>1, <1>6, <2>1, <2>4, OneList
    <2>6. e.obj \in Live(R)
      BY <1>2, <1>7 DEF Live, e
    <2>7. CASE p <= b
      <3>1. e.obj \in due[l]
        BY <1>2, <1>3, <1>7, <2>7 DEF Between, e
      <3>2. ASSUME ~unsorted[l], NEW o \in due[l] PROVE Priority[l][o] <= Priority[l][e.obj]
        <4>1. PICK k \in DOMAIN R : p <= k /\ k <= b /\ R[k].prio # Invalid /\ R[k].obj = o
          BY <1>3 DEF Between
        <4>2. R[k].prio = Priority[l][o] /\ e.prio = Priority[l][e.obj] /\ e.prio \in Int
          BY <1>1, <1>4, <1>7, <4>1 DEF Entries, Entry
        <4>3. R[p].prio >= R[k].prio
          <5>1. CASE k = p
            BY <4>2, <5>1 DEF e
          <5>2. CASE k # p
            <6>1. p < k /\ p \in DOMAIN R
              BY <1>2, <4>1, <5>2
            <6> QED
              BY <1>3, <1>7, <3>2, <4>1, <6>1 DEF InOrder, e
          <5> QED
            BY <5>1, <5>2
        <4>4. R[k].prio \in Int
          <5>1. R[k] \in Entry
            BY <1>2, <4>1
          <5> QED
            BY <5>1 DEF Entry
        <4> QED
          BY <4>2, <4>3, <4>4 DEF e
      <3> QED
        BY <2>1, <2>5, <2>6, <3>1, <3>2, <1>2 DEF Called, Sets, R, p
    <2>8. CASE ~(p <= b)
      <3>1. due[l] = {}
        BY <1>2, <1>3, <2>8 DEF Between
      <3> QED
        BY <2>1, <2>5, <2>6, <3>1, <1>2 DEF Called, Sets, R, p
    <2> QED
      BY <2>7, <2>8
  <1>8. CASE e.prio = Invalid
    <2>1. /\ Sets(l, running, running', None) /\ Sets(l, due, due', due[l])
          /\ Sets(l, pos, pos', p + 1)
      BY <1>1, <1>8 DEF PassStep, Callable, Sets, ListsInv, R, p, e
    <2>2. Between(R, p, b) = Between(R, p + 1, b)
      <3>1. {i \in DOMAIN R : p <= i /\ i <= b /\ R[i].prio # Invalid}
              = {i \in DOMAIN R : p + 1 <= i /\ i <= b /\ R[i].prio # Invalid}
        BY <1>2, <1>8 DEF e
      <3> QED
        BY <3>1 DEF Between
    <2>3. Ahead(R, p + 1, None, due[l], unsorted[l])
      BY <1>3, <2>2 DEF Ahead
    <2>4. Passing(l, r, p + 1, None, due[l], unsorted[l])
      BY <1>2, <2>3 DEF Passing, R
    <2>5. ListsInv'
      BY <1>1, <1>6, <2>1, <2>4, OneList
    <2>6. \A m \in Lists : running'[m] = running[m] /\ (pos'[m] = pos[m] \/ pos'[m] # 0)
      BY <1>1, <1>2, <2>1 DEF Sets
    <2> QED
      BY <2>5, <2>6 DEF Called
  <1> QED
    BY <1>7, <1>8

(* The callback returns.                                                   *)
LEMMA ReturnKeeps ==
  ASSUME ListsInv, NEW l \in Lists, Return(l)
  PROVE  ListsInv' /\ \A m \in Lists : Called(m)
  <1> DEFINE r == reg[l]
             R == r.R
             p == pos[l]
  <1>1. /\ Registrator(l, r) /\ r \in Record
        /\ Passing(l, r, p, running[l], due[l], unsorted[l])
        /\ running[l] # None
    BY DEF ListsInv, ListInv, Registrator, Return
  <1>2. /\ Len(R) \in Nat /\ p \in 1 .. Len(R) /\ p # 0 /\ r.in_process /\ unsorted[l] \in BOOLEAN
    BY <1>1 DEF Record, Passing
  <1>3. Ahead(R, p, running[l], due[l], unsorted[l])
    BY <1>1, <1>2 DEF Passing
  <1> HIDE DEF R, p
  <1>4. /\ Sets(l, reg, reg', r) /\ Sets(l, unsorted, unsorted', unsorted[l])
        /\ Sets(l, running, running', None) /\ Sets(l, due, due', due[l])
        /\ Sets(l, pos, pos', p + 1)
    BY DEF Return, Sets, ListsInv, history, p
  <1>5. Ahead(R, p + 1, None, due[l], unsorted[l])
    BY <1>1, <1>3 DEF Ahead
  <1>6. Passing(l, r, p + 1, None, due[l], unsorted[l])
    BY <1>2, <1>5 DEF Passing, R
  <1>7. ListsInv'
    BY <1>1, <1>4, <1>6, OneList
  <1>8. \A m \in Lists : running'[m] \in {None, running[m]} /\ (pos'[m] = pos[m] \/ pos'[m] # 0)
    BY <1>2, <1>4 DEF Sets
  <1> QED
    BY <1>7, <1>8 DEF Called

(* The end of a pass: nobody is left to call.                              *)
LEMMA EndPassKeeps ==
  ASSUME ListsInv, NEW l \in Lists, NEW leave, EndPass(l, leave)
  PROVE  ListsInv' /\ \A m \in Lists : Called(m)
  <1> DEFINE r == reg[l]
             R == r.R
             p == pos[l]
  <1>1. /\ Registrator(l, r) /\ r \in Record /\ Entries(l, R)
        /\ Passing(l, r, p, None, due[l], unsorted[l])
        /\ running[l] = None /\ p > Len(R)
    BY DEF ListsInv, ListInv, Registrator, EndPass
  <1>2. /\ Len(R) \in Nat /\ p = Len(R) + 1 /\ p # 0 /\ r.in_process /\ unsorted[l] \in BOOLEAN
        /\ DOMAIN R = 1 .. Len(R)
    BY <1>1 DEF Record, Passing
  <1>3. PICK b \in 0 .. Len(R) : due[l] = Between(R, p, b)
    BY <1>1, <1>2 DEF Passing, Ahead
  <1>4. due[l] = {}
    BY <1>2, <1>3 DEF Between
  <1>5. PICK x \in IF r.changed THEN Resorted(r) ELSE {r} :
            reg' = [reg EXCEPT ![l] = [x EXCEPT !.in_process = FALSE]]
    BY DEF EndPass
  <1> HIDE DEF R, p
  <1>6. x \in Record /\ Entries(l, x.R) /\ Descending(x.R) /\ x.R = Popped(x.R) /\ x.changed = FALSE
    <2>1. CASE r.changed
      BY <1>1, <1>5, <2>1, ResortedIs DEF R
    <2>2. CASE ~r.changed
      BY <1>1, <1>5, <2>2 DEF Registrator, R, Record
    <2> QED
      BY <2>1, <2>2
  <1> DEFINE w == [x EXCEPT !.in_process = FALSE]
  <1>7. w \in Record /\ w.R = x.R /\ w.in_process = FALSE /\ w.changed = FALSE
    BY <1>6 DEF Record
  <1>8. Sets(l, reg, reg', w)
    BY <1>5 DEF Sets, ListsInv
  <1> HIDE DEF w
  <1>9. /\ Sets(l, unsorted, unsorted', unsorted[l])
        /\ Sets(l, running, running', None) /\ Sets(l, due, due', due[l])
        /\ Sets(l, pos, pos', 0)
    BY <1>1 DEF EndPass, Sets, ListsInv, history
  <1>10. Registrator(l, w)
    BY <1>6, <1>7 DEF Registrator
  <1>11. Passing(l, w, 0, None, due[l], unsorted[l])
    <2>1. Len(w.R) \in Nat
      BY <1>7 DEF Record
    <2> QED
      BY <1>2, <1>4, <2>1 DEF Passing
  <1>12. ListsInv'
    BY <1>8, <1>9, <1>10, <1>11, OneList
  <1>13. \A m \in Lists : running'[m] = running[m] /\ (pos'[m] = pos[m] \/ m = l)
    BY <1>1, <1>9 DEF Sets
  <1> QED
    BY <1>4, <1>12, <1>13 DEF Called

-----------------------------------------------------------------------------
(* The threads keep their places and the events their names.               *)
Threads ==
    /\ main \in Places
    /\ second \in {"asleep", "frame", "done", "exited"}
    /\ signal \subseteq {"processFrame", "frameDone", "threadExit"}
    /\ quit \in {"none", "posted", "taken", "lost"}
    /\ exiting \in BOOLEAN /\ loading \in BOOLEAN

PassInv == ListsInv /\ Threads

LEMMA InitPassInv == Init => PassInv
  <1> SUFFICES ASSUME Init PROVE PassInv
    OBVIOUS
  <1> DEFINE r == [R |-> <<>>, in_process |-> FALSE, changed |-> FALSE]
  <1>1. r \in Record /\ r.R = <<>> /\ r.in_process = FALSE /\ r.changed = FALSE
    BY DEF Record
  <1>2. Entries("frame", <<>>) /\ Entries("render", <<>>) /\ Entries("mt", <<>>)
    BY DEF Entries
  <1>3. Popped(<<>>) = <<>>
    <2>1. <<>> \in Seq(Entry) /\ Len(<<>>) = 0
      OBVIOUS
    <2>2. PICK b \in 0 .. Len(<<>>) : Popped(<<>>) \in Seq(Entry) /\ Len(Popped(<<>>)) = b
      BY <2>1, PoppedIs
    <2> QED
      BY <2>1, <2>2
  <1>4. Descending(<<>>)
    BY DEF Descending
  <1>5. ASSUME NEW l \in Lists PROVE ListInv(l)
    <2>1. reg[l] = r /\ pos[l] = 0 /\ running[l] = None /\ due[l] = {} /\ unsorted[l] = FALSE
      BY DEF Init
    <2> HIDE DEF r
    <2>2. Registrator(l, r)
      BY <1>1, <1>2, <1>3, <1>4 DEF Registrator, Lists
    <2>3. Passing(l, r, 0, None, {}, FALSE)
      BY <1>1 DEF Passing
    <2> QED
      BY <2>1, <2>2, <2>3 DEF ListInv
  <1>6. ListsInv
    BY <1>5 DEF ListsInv, Init
  <1>7. Threads
    BY DEF Init, Threads, Places
  <1> QED
    BY <1>6, <1>7 DEF PassInv

LEMMA PassKeeps ==
  ASSUME ListsInv, NEW l \in Lists, NEW leave, Pass(l, leave)
  PROVE  ListsInv' /\ \A m \in Lists : Called(m)
  BY BeginPassKeeps, PassStepKeeps, ReturnKeeps, EndPassKeeps DEF Pass

(* The steps of the threads that are not in a pass.                        *)
Handoff ==
    \/ Activate \/ ActivateDone \/ TakeQuit \/ Idle \/ LoadingEventDone \/ HandOver
    \/ FrameDone \/ Stop \/ Join \/ WaitTimeout \/ Wake \/ SecondDone \/ PostQuit \/ StartLoading \/ Over

LEMMA ListsKeep ==
  ASSUME ListsInv, [Next]_vars
  PROVE  ListsInv' /\ \A m \in Lists : Called(m)
  <1>1. CASE FramePass \/ RenderPass \/ MTPass
    BY <1>1, PassKeeps DEF FramePass, RenderPass, MTPass, Lists
  <1>2. CASE \E l \in Lists : \E o \in Users(l) : Change(l, o)
    <2>1. PICK l \in Lists : \E o \in Users(l) : Change(l, o)
      BY <1>2
    <2>2. PICK o \in Users(l) : Change(l, o)
      BY <2>1
    <2>3. UNCHANGED <<passes, unsorted>> /\ (Add(l, o) \/ Remove(l, o))
      BY <2>2 DEF Change
    <2>4. ListsInv'
      BY <2>3, AddKeeps, RemoveKeeps
    <2> QED
      BY <2>3, <2>4 DEF Called, passes
  <1>3. CASE Handoff \/ UNCHANGED vars
    <2>1. UNCHANGED <<reg, passes, history>>
      BY <1>3 DEF Handoff, Activate, ActivateDone, OnActivate, TakeQuit, Idle, LoadingEventDone, HandOver, FrameDone, Stop, Join,
                  WaitTimeout, Wake, SecondDone, PostQuit, StartLoading, Over, Elsewhere, vars
    <2>2. ListsInv'
      BY <2>1, Untouched
    <2> QED
      BY <2>1, <2>2 DEF Called, passes
  <1> QED
    BY <1>1, <1>2, <1>3 DEF Next, Primary, Secondary, GameCodeStep, Handoff

LEMMA ThreadsKeep ==
  ASSUME Threads, [Next]_vars
  PROVE  Threads'
  <1>1. CASE FramePass
    BY <1>1 DEF Threads, FramePass, Pass, BeginPass, PassStep, Return, EndPass, GoesTo, Places
  <1>2. CASE RenderPass
    BY <1>2 DEF Threads, RenderPass, Pass, BeginPass, PassStep, Return, EndPass, GoesTo, Places
  <1>3. CASE MTPass
    BY <1>3 DEF Threads, MTPass, Pass, BeginPass, PassStep, Return, EndPass, Places
  <1>4. CASE \E l \in Lists : \E o \in Users(l) : Change(l, o)
    BY <1>4 DEF Threads, Change, threads
  <1>5. CASE \/ Activate \/ ActivateDone \/ TakeQuit \/ Idle \/ LoadingEventDone
             \/ HandOver \/ FrameDone \/ Stop \/ Join
    BY <1>5 DEF Threads, Activate, ActivateDone, OnActivate, TakeQuit, Idle, LoadingEventDone, HandOver, FrameDone, Stop, Join,
                GoesTo, AfterQuit, Places
  <1>6. CASE WaitTimeout \/ Wake \/ SecondDone \/ PostQuit \/ StartLoading
    BY <1>6 DEF Threads, WaitTimeout, OnActivate, GoesTo, Places, Wake, SecondDone, PostQuit, StartLoading
  <1>7. CASE Over \/ UNCHANGED vars
    BY <1>7 DEF Threads, Over, vars, threads
  <1> QED
    BY <1>1, <1>2, <1>3, <1>4, <1>5, <1>6, <1>7 DEF Next, Primary, Secondary, GameCodeStep

LEMMA PassInvariance == Spec => []PassInv
  <1>1. PassInv /\ [Next]_vars => PassInv'
    BY ListsKeep, ThreadsKeep DEF PassInv
  <1> QED
    BY InitPassInv, <1>1, PTL DEF Spec

(* Whom a pass has to call is registered.                                  *)
LEMMA Tidied == PassInv => TypeOK
  <1> SUFFICES ASSUME PassInv PROVE TypeOK
    OBVIOUS
  <1>1. ASSUME NEW l \in Lists
        PROVE  /\ reg[l] \in Record
               /\ pos[l] \in 0 .. Len(reg[l].R) + 1
               /\ running[l] \in Live(reg[l].R) \cup Users(l) \cup {None}
               /\ due[l] \subseteq Live(reg[l].R)
               /\ ~reg[l].in_process => Descending(reg[l].R) /\ reg[l].R = Popped(reg[l].R)
    <2>1. Registrator(l, reg[l]) /\ Passing(l, reg[l], pos[l], running[l], due[l], unsorted[l])
      BY DEF PassInv, ListsInv, ListInv
    <2>2. due[l] \subseteq Live(reg[l].R)
      BY <2>1 DEF Passing, Ahead, Between, Live
    <2> QED
      BY <2>1, <2>2 DEF Registrator, Passing
  <1>2. Tidy
    BY <1>1 DEF Tidy
  <1> QED
    BY <1>1, <1>2 DEF TypeOK, Record, PassInv, Threads, Places

(* A list that is not gone through, nor left so by a pass over an empty    *)
(* one, is sorted and has no removed entry at its end (one may stay ahead  *)
(* of a callback with a priority less than REG_PRIORITY_INVALID); what a   *)
(* pass still has to call is registered.                                   *)
THEOREM TypeCorrect == Spec => []TypeOK
  BY PassInvariance, Tidied, PTL

(* A pass calls whoever was registered when it began once and in the order *)
(* of their priorities, unless Process found in_process set, then whoever  *)
(* was added since, and nobody who was removed before his turn, whatever   *)
(* the callbacks add and remove on the way.                                *)
THEOREM InOrderOfPriority == Spec => CalledInOrder
  <1>1. PassInv /\ [Next]_vars => [\A l \in Lists : Called(l)]_vars
    BY ListsKeep DEF PassInv
  <1> QED
    BY PassInvariance, <1>1, PTL DEF Spec, CalledInOrder, Called

=============================================================================
