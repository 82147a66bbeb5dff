------------------------------ MODULE FrameLoop ------------------------------
(***************************************************************************)
(* The frame of CRenderDevice: message_loop and on_idle on the primary     *)
(* thread, the second thread that Run starts, the events they hand over    *)
(* with, and the registrators (pure.h) whose callbacks they call: seqFrame *)
(* and seqRender on the primary thread, seqFrameMT on the second.          *)
(*                                                                         *)
(* A callback may add and remove callbacks, of its own list too.  A pass   *)
(* goes through R by index: what is added is called in the same pass, what *)
(* is removed only gets the priority REG_PRIORITY_INVALID, and the list is *)
(* sorted anew when the pass is over.  A pass over an empty list returns   *)
(* early and leaves in_process set.                                        *)
(*                                                                         *)
(* Two of the window's messages matter, and both are met by message_loop   *)
(* and by WaitEx: WM_QUIT, at which the one ends and which the other       *)
(* forgets, and WM_ACTIVATE, whose callbacks (seqAppActivate and           *)
(* seqAppDeactivate) run in place.  Who is registered for these does not   *)
(* change while the game runs, so their passes are not modelled.           *)
(*                                                                         *)
(* The jobs of seqParallel are the subject of PathBuilding.                *)
(***************************************************************************)
EXTENDS Integers, Sequences, FiniteSetsExt, Functions

CONSTANTS Priority,    \* for each list the priorities its users register with
          None,
          MaxEntries   \* bound: the length of each list at which nobody is added

Lists == {"frame", "render", "mt"}

Users(l) == DOMAIN Priority[l]

Invalid == -1  \* REG_PRIORITY_INVALID, as an int

ASSUME FrameLoopAssumption ==
    /\ DOMAIN Priority = Lists
    /\ \A l \in Lists : \A o \in Users(l) :
          o # None /\ Priority[l][o] \in Int \ {Invalid}
    /\ MaxEntries \in [Lists -> Nat]

VARIABLES
    reg,      \* the registrator of each list
    pos,      \* the index of the pass over a list, 0 while there is none
    running,  \* the callback of a list that runs, or None
    main,     \* where the primary thread is
    second,   \* where the second thread is
    signal,   \* the events that are set
    exiting,  \* mt_bMustExit
    quit,     \* what became of WM_QUIT
    loading,  \* g_loading_events is not empty
    due,      \* history: whom a pass has still to call
    unsorted  \* history: a pass began with in_process left over

passes == <<pos, running>>
threads == <<main, second, signal, exiting, quit, loading>>
history == <<due, unsorted>>
vars == <<reg, passes, threads, history>>

Entry == [obj : UNION {Users(l) : l \in Lists}, prio : Int]

Live(R) == {R[k].obj : k \in {n \in DOMAIN R : R[n].prio # Invalid}}

Init ==
    /\ reg = [l \in Lists |-> [R |-> <<>>, in_process |-> FALSE, changed |-> FALSE]]
    /\ pos = [l \in Lists |-> 0]
    /\ running = [l \in Lists |-> None]
    /\ main = "load" /\ second = "asleep" /\ signal = {} /\ exiting = FALSE
    /\ quit = "none" /\ loading = TRUE
    /\ due = [l \in Lists |-> {}]
    /\ unsorted = [l \in Lists |-> FALSE]

-----------------------------------------------------------------------------
(* The registrator.                                                        *)

Descending(R) == \A m, n \in DOMAIN R : m < n => R[m].prio >= R[n].prio

(* The invalid entries at the end are popped.                              *)
Popped(R) == SubSeq(R, 1, Max({0} \cup {k \in DOMAIN R : R[k].prio # Invalid}))

(* qsort, which leaves equals in any order.                                *)
Sorted(R) ==
    {S \in {[k \in DOMAIN R |-> R[p[k]]] : p \in Bijection(DOMAIN R, DOMAIN R)} :
        Descending(S)}

Resorted_OnlyPops(r) == {[r EXCEPT !.R = Popped(@), !.changed = FALSE]}

Resorted(r) == {[r EXCEPT !.R = Popped(S), !.changed = FALSE] : S \in Sorted(r.R)}

Settled(r) == IF r.in_process THEN {[r EXCEPT !.changed = TRUE]} ELSE Resorted(r)

Add(l, o) ==
    /\ o \notin Live(reg[l].R)
    /\ Len(reg[l].R) < MaxEntries[l]
    /\ \E r \in Settled([reg[l] EXCEPT !.R = Append(@, [obj |-> o, prio |-> Priority[l][o]])]) :
          reg' = [reg EXCEPT ![l] = r]
    /\ UNCHANGED due

Remove(l, o) ==
    /\ LET invalid(e) == IF e.obj = o THEN [e EXCEPT !.prio = Invalid] ELSE e
           R == reg[l].R
       IN  \E r \in Settled([reg[l] EXCEPT !.R = [k \in DOMAIN R |-> invalid(R[k])]]) :
              reg' = [reg EXCEPT ![l] = r]
    /\ due' = [due EXCEPT ![l] = @ \ {o}]

(* Process begins.  Nobody registers with REG_PRIORITY_CAPTURE.            *)
BeginPass(l, leave) ==
    /\ pos[l] = 0
    /\ reg' = [reg EXCEPT ![l].in_process = TRUE]
    /\ IF reg[l].R = <<>>
       THEN leave /\ UNCHANGED <<pos, due, unsorted>>
       ELSE /\ pos' = [pos EXCEPT ![l] = 1]
            /\ due' = [due EXCEPT ![l] = Live(reg[l].R)]
            /\ unsorted' = [unsorted EXCEPT ![l] = reg[l].in_process]
            /\ UNCHANGED <<main, second>>
    /\ UNCHANGED running

Callable_Always(e) == TRUE

Callable(e) == e.prio # Invalid

PassStep(l) ==
    /\ pos[l] \in 1 .. Len(reg[l].R)
    /\ running[l] = None
    /\ LET e == reg[l].R[pos[l]] IN
       IF Callable(e)
       THEN /\ running' = [running EXCEPT ![l] = e.obj]
            /\ due' = [due EXCEPT ![l] = @ \ {e.obj}]
            /\ UNCHANGED pos
       ELSE pos' = [pos EXCEPT ![l] = @ + 1] /\ UNCHANGED <<running, due>>
    /\ UNCHANGED <<reg, unsorted, main, second>>

Return(l) ==
    /\ running[l] # None
    /\ running' = [running EXCEPT ![l] = None]
    /\ pos' = [pos EXCEPT ![l] = @ + 1]
    /\ UNCHANGED <<reg, history, main, second>>

EndPass(l, leave) ==
    /\ pos[l] > Len(reg[l].R)
    /\ running[l] = None
    /\ pos' = [pos EXCEPT ![l] = 0]
    /\ \E r \in IF reg[l].changed THEN Resorted(reg[l]) ELSE {reg[l]} :
          reg' = [reg EXCEPT ![l] = [r EXCEPT !.in_process = FALSE]]
    /\ leave
    /\ UNCHANGED <<running, history>>

Pass(l, leave) ==
    /\ BeginPass(l, leave) \/ PassStep(l) \/ Return(l) \/ EndPass(l, leave)
    /\ UNCHANGED <<signal, exiting, quit, loading>>

-----------------------------------------------------------------------------
(* The primary thread.                                                     *)

GoesTo(place) == main' = place /\ UNCHANGED second

Elsewhere == UNCHANGED <<reg, passes, history>>

AfterQuit_NextMessage == "messages"

(* The condition of message_loop.                                          *)
AfterQuit == "ended"

(* OnWM_Activate calls who waits for the window to come or go.             *)
OnActivate(place) ==
    /\ GoesTo(place)
    /\ UNCHANGED <<signal, exiting, quit, loading>>
    /\ Elsewhere

(* message_loop dispatches WM_ACTIVATE.                                    *)
Activate == main = "messages" /\ OnActivate("activation")

(* The callbacks return to where the message was met.                      *)
ActivateDone ==
    /\ main \in {"activation", "waitActivation"}
    /\ GoesTo(IF main = "activation" THEN "messages" ELSE "wait")
    /\ UNCHANGED <<signal, exiting, quit, loading>>
    /\ Elsewhere

(* message_loop takes WM_QUIT, which comes last, and ends.                 *)
TakeQuit ==
    /\ main = "messages"
    /\ quit = "posted"
    /\ quit' = "taken"
    /\ GoesTo(AfterQuit)
    /\ UNCHANGED <<signal, exiting, loading>>
    /\ Elsewhere

(* on_idle: a loading event, or FrameMove.                                 *)
Idle ==
    /\ main = "messages"
    /\ quit # "posted"
    /\ GoesTo(IF loading THEN "load" ELSE "frame")
    /\ UNCHANGED <<signal, exiting, quit, loading>>
    /\ Elsewhere

(* on_idle returns without the rest of the frame.                          *)
LoadingEventDone ==
    /\ main = "load"
    /\ loading' \in BOOLEAN
    /\ GoesTo("messages")
    /\ UNCHANGED <<signal, exiting, quit>>
    /\ Elsewhere

FramePass == main = "frame" /\ Pass("frame", GoesTo("handover"))

(* syncProcessFrame.Set; an inactive window is not rendered.               *)
HandOver ==
    /\ main = "handover"
    /\ signal' = signal \cup {"processFrame"}
    /\ main' \in {"render", "wait"}
    /\ UNCHANGED <<second, exiting, quit, loading>>
    /\ Elsewhere

RenderPass == main = "render" /\ Pass("render", GoesTo("wait"))

WaitEnds_AtTimeout == TRUE

WaitEnds == "frameDone" \in signal

(* syncFrameDone.WaitEx returns.                                           *)
FrameDone ==
    /\ main = "wait"
    /\ WaitEnds
    /\ signal' = signal \ {"frameDone"}
    /\ GoesTo("messages")
    /\ UNCHANGED <<exiting, quit, loading>>
    /\ Elsewhere

(* It has waited for 66 ms: a message is taken and dispatched, WM_QUIT to  *)
(* no window at all.                                                       *)
WaitTimeout ==
    /\ main = "wait"
    /\ "frameDone" \notin signal
    /\ \/ OnActivate("waitActivation")
       \/ /\ quit = "posted"
          /\ quit' = "lost"
          /\ UNCHANGED <<main, second, signal, exiting, loading>>
          /\ Elsewhere

(* The end of Run: the second thread is to exit,                           *)
Stop ==
    /\ main = "ended"
    /\ exiting' = TRUE
    /\ signal' = signal \cup {"processFrame"}
    /\ GoesTo("join")
    /\ UNCHANGED <<quit, loading>>
    /\ Elsewhere

(* and is waited for.                                                      *)
Join ==
    /\ main = "join"
    /\ "threadExit" \in signal
    /\ signal' = signal \ {"threadExit"}
    /\ GoesTo("over")
    /\ UNCHANGED <<exiting, quit, loading>>
    /\ Elsewhere

Primary ==
    \/ ActivateDone \/ TakeQuit \/ Idle \/ LoadingEventDone \/ FramePass \/ HandOver
    \/ RenderPass \/ FrameDone \/ Stop \/ Join

-----------------------------------------------------------------------------
(* The second thread.                                                      *)

Wake ==
    /\ second = "asleep"
    /\ "processFrame" \in signal
    /\ IF exiting
       THEN second' = "exited" /\ signal' = {"threadExit"} \cup (signal \ {"processFrame"})
       ELSE second' = "frame" /\ signal' = signal \ {"processFrame"}
    /\ UNCHANGED <<main, exiting, quit, loading>>
    /\ Elsewhere

MTPass == second = "frame" /\ Pass("mt", second' = "done" /\ UNCHANGED main)

SecondDone ==
    /\ second = "done"
    /\ signal' = signal \cup {"frameDone"}
    /\ second' = "asleep"
    /\ UNCHANGED <<main, exiting, quit, loading>>
    /\ Elsewhere

Secondary == Wake \/ MTPass \/ SecondDone

-----------------------------------------------------------------------------
(* What a loading event or a callback does.  The users of seqFrameMT are   *)
(* added and removed while a frame or a level begins or ends.  When the    *)
(* window goes the keys are released, and an item that is being dragged    *)
(* leaves seqRender and seqFrame.                                          *)

InFrameMove == main = "load" \/ running["frame"] # None

Activating == main \in {"activation", "waitActivation"}

GameCode(l) == InFrameMove \/ (l # "mt" /\ (running["render"] # None \/ Activating))

Change(l, o) ==
    /\ GameCode(l)
    /\ Add(l, o) \/ Remove(l, o)
    /\ UNCHANGED <<passes, threads, unsorted>>

(* The event "KERNEL:quit", handled in a frame.                            *)
PostQuit ==
    /\ running["frame"] # None
    /\ quit \in {"none", "lost"}
    /\ quit' = "posted"
    /\ UNCHANGED <<main, second, signal, exiting, loading>>
    /\ Elsewhere

(* A level is to be loaded.                                                *)
StartLoading ==
    /\ running["frame"] # None
    /\ ~loading
    /\ loading' = TRUE
    /\ UNCHANGED <<main, second, signal, exiting, quit>>
    /\ Elsewhere

GameCodeStep == (\E l \in Lists : \E o \in Users(l) : Change(l, o)) \/ PostQuit \/ StartLoading

Over == main = "over" /\ UNCHANGED vars

Next == Primary \/ Activate \/ WaitTimeout \/ Secondary \/ GameCodeStep \/ Over

(* Both threads run, and every callback returns; nothing says that a wait  *)
(* takes longer than its timeout, or that the window comes or goes.  The   *)
(* window's messages do not come so fast for ever that message_loop would  *)
(* never find the queue empty, or with WM_QUIT alone.                      *)
Spec ==
    /\ Init /\ [][Next]_vars
    /\ WF_vars(Primary) /\ WF_vars(Secondary)
    /\ SF_vars(TakeQuit \/ Idle)

-----------------------------------------------------------------------------
(* A list that is not in process is sorted, and what was removed is gone:  *)
(* an invalid entry can only stay ahead of a callback whose priority is    *)
(* less than REG_PRIORITY_INVALID, as the cursor's is.                     *)
Tidy == \A l \in Lists : ~reg[l].in_process =>
           Descending(reg[l].R) /\ reg[l].R = Popped(reg[l].R)

(* Types, and the state of the lists at rest.                              *)
TypeOK ==
    /\ \A l \in Lists :
          /\ reg[l] \in [R : Seq(Entry), in_process : BOOLEAN, changed : BOOLEAN]
          /\ pos[l] \in 0 .. Len(reg[l].R) + 1
          /\ running[l] \in Live(reg[l].R) \cup Users(l) \cup {None}
          /\ due[l] \subseteq Live(reg[l].R)
    /\ main \in {"messages", "activation", "load", "frame", "handover", "render",
                 "wait", "waitActivation", "ended", "join", "over"}
    /\ second \in {"asleep", "frame", "done", "exited"}
    /\ signal \subseteq {"processFrame", "frameDone", "threadExit"}
    /\ quit \in {"none", "posted", "taken", "lost"}
    /\ exiting \in BOOLEAN /\ loading \in BOOLEAN
    /\ Tidy

(* A pass calls whoever is registered, once, in the order of priorities,   *)
(* and whoever was added meanwhile after them; nobody who was removed.     *)
(* Only the pass after one over an empty list may get the order wrong.     *)
CalledInOrder ==
    [][\A l \in Lists :
          /\ running[l] = None /\ running'[l] # None =>
                 /\ running'[l] \in Live(reg[l].R)
                 /\ IF running'[l] \in due[l]
                    THEN unsorted[l] \/ \A o \in due[l] :
                            Priority[l][o] <= Priority[l][running'[l]]
                    ELSE due[l] = {}
          /\ pos[l] > 0 /\ pos'[l] = 0 => due[l] = {}]_vars

(* The second thread works while the primary one renders or waits for it,  *)
(* never while a frame is moved, a level is loaded or message_loop handles *)
(* messages: what a callback of seqFrame changes, seqFrameMT and           *)
(* seqParallel too, is not in use.  The callbacks of WM_ACTIVATE are the   *)
(* exception: met in the wait, the message is handled with the second      *)
(* thread at work.                                                         *)
NeverTogether ==
    second \in {"frame", "done"} =>
        main \in {"render", "wait", "waitActivation"} /\ running["frame"] = None

(* Once WM_QUIT is posted the program ends, with its second thread, unless *)
(* WaitEx takes the message.                                               *)
QuitEnds == quit \in {"posted", "taken"} ~> main = "over" \/ quit = "lost"
=============================================================================
