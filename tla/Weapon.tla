------------------------------- MODULE Weapon -------------------------------
(* A magazine weapon of the actor (xrGame/Weapon.cpp, WeaponMagazined.cpp,  *)
(* HudItem.cpp) and the part of the inventory that takes it into the hands  *)
(* and puts it away (xrGame/Inventory.cpp).  A weapon changes its state by  *)
(* a message to itself: SwitchState sets the next state and sends the       *)
(* message; OnStateSwitch sets the state when it is back from the server.   *)
(* What is sent before the events of a frame are handled comes back in the  *)
(* same frame, what is sent later in the next one; and the inventory sets   *)
(* both states at once when it draws the weapon or puts it away.            *)
(*                                                                          *)
(* A frame is: the scheduled update of the actor, keys, the events, the     *)
(* per-frame update of the weapon.  Scripts may call at any time, between   *)
(* two shots of one update as well: each shot calls them back.              *)
(* Left out: zoom, addons and grenade launcher, other ammunition types,     *)
(* other items for the hands, dropping the weapon, unloading it.            *)
EXTENDS Integers, Sequences, SequencesExt

CONSTANTS
    MagazineSize,   \* iMagazineSize
    Features,       \* what Init chooses autoreload and unjams from
    MaxBlocks,      \* bound: m_blockCounter
    MaxSurplus,     \* bound: no misfire when so many cartridges are not counted
    MaxShots,       \* bound: shots that one frame is long enough for
    MaxMessages     \* bound: no key, call or update when so many are under way

ASSUME WeaponAssumption ==
    /\ MagazineSize \in Nat \ {0}
    /\ Features \subseteq [autoreload : BOOLEAN, unjams : BOOLEAN]
    /\ MaxBlocks \in Nat /\ MaxSurplus \in Nat /\ MaxShots \in Nat \ {0}
    /\ MaxMessages \in Nat

VARIABLES
    phase,      \* how far the frame is
    active,     \* m_iActiveSlot is the weapon's slot; otherwise it is none
    chosen,     \* m_iNextActiveSlot is
    previous,   \* m_iPrevActiveSlot is
    blocks,     \* m_blockCounter of the slot
    gun,        \* the weapon, and what it sent
    events,     \* game_events for it, in the frame that handles them
    features    \* Feature::autoreload_wpn; the weapon has anm_misfire

vars == <<phase, active, chosen, previous, blocks, gun, events, features>>

States == {"idle", "showing", "hiding", "hidden", "fire", "reload", "magempty",
           "misfire", "firemode", "bore"}

Motions == (States \ {"magempty", "misfire"}) \cup {"none"}

Guns ==
    [state : States,           \* GetState()
     next : States,            \* GetNextState()
     pending : BOOLEAN,        \* IsPending(): keys are ignored
     working : BOOLEAN,        \* bWorking
     single : BOOLEAN,         \* m_bFireSingleShot
     due : 0..MaxShots,        \* shots until fTime > 0 again
     motion : Motions,         \* m_startedMotionState of a running motion
     elapsed : Int,            \* iAmmoElapsed
     rounds : Nat,             \* m_magazine.size()
     misfire : BOOLEAN,        \* bMisfire
     afterUnjam : BOOLEAN,     \* bAfterUnjam
     sent : Seq(States)]       \* GE_WPN_STATE_CHANGE not yet received

(* Every variable has its type; and a cartridge is counted in iAmmoElapsed  *)
(* only if it is in m_magazine, which is not empty when one is taken out.   *)
TypeOK ==
    /\ phase \in {"update", "keys", "events", "firing"}
    /\ active \in BOOLEAN /\ chosen \in BOOLEAN /\ previous \in BOOLEAN
    /\ blocks \in 0..MaxBlocks
    /\ gun \in Guns
    /\ gun.elapsed <= MagazineSize /\ gun.elapsed <= gun.rounds
    /\ events \in Seq(States) /\ (events # <<>> => phase = "events")
    /\ features \in Features

Init ==
    /\ phase = "update"
    /\ active = FALSE /\ chosen = FALSE /\ previous = FALSE /\ blocks = 0
    /\ gun = [state |-> "hidden", next |-> "hidden", pending |-> FALSE,
              working |-> FALSE, single |-> FALSE, due |-> 1,
              motion |-> "none", elapsed |-> MagazineSize, rounds |-> MagazineSize,
              misfire |-> FALSE, afterUnjam |-> FALSE, sent |-> <<>>]
    /\ events = <<>>
    /\ features \in Features

-----------------------------------------------------------------------------
(* The functions of the weapon, on the record g.  spare: the inventory has  *)
(* ammunition for it.                                                       *)

SwitchState(g, s) == [g EXCEPT !.next = s, !.sent = Append(@, s)]

(* A new motion replaces the one that runs; its end is for this state.      *)
PlayHUDMotion(g) == [g EXCEPT !.motion = g.state]

StopFiring(g) == [g EXCEPT !.working = FALSE]

StopShooting(g) == StopFiring(SwitchState(g, "idle"))

CanReload(g, spare) == spare \/ (g.misfire /\ g.elapsed # 0)

TryReload(g, spare) ==
    IF CanReload(g, spare) THEN [SwitchState(g, "reload") EXCEPT !.pending = TRUE]
    ELSE SwitchState(g, "idle")

FireEnd(g, spare) ==
    IF features.autoreload /\ g.elapsed = 0 /\ g.state # "reload"
    THEN TryReload(StopFiring(g), spare)
    ELSE StopFiring(g)

OnMagazineEmpty(g) ==
    IF g.state # "idle" /\ g.next \notin {"magempty", "reload"}
    THEN SwitchState(g, "magempty") ELSE g

FireStart(g) ==
    CASE g.elapsed # 0 /\ ~g.misfire /\ ~g.working
                /\ g.state \notin {"reload", "firemode", "showing", "hiding", "misfire"} ->
             SwitchState([g EXCEPT !.working = TRUE], "fire")
      [] g.elapsed = 0 /\ ~g.misfire /\ g.state \notin {"reload", "misfire"} ->
             OnMagazineEmpty(g)
      [] OTHER -> g

(* ReloadMagazine: the magazine is filled up by the count, for which one    *)
(* box of ammunition or several may be enough or not.                       *)
Reloaded(g, n) ==
    [g EXCEPT !.misfire = FALSE, !.elapsed = @ + n, !.rounds = @ + n]

(* MyLittleMisfire counts a cartridge off that is still in the magazine.    *)
Unjammed(g) ==
    [g EXCEPT !.misfire = FALSE, !.afterUnjam = TRUE,
              !.elapsed = IF g.afterUnjam THEN @ - 1 ELSE @]

Switch2Idle_KeepsPending(g) ==
    [g EXCEPT !.motion = IF g.state = "idle" THEN "idle" ELSE @]

Switch2Idle(g) ==
    [g EXCEPT !.pending = FALSE, !.motion = IF g.state = "idle" THEN "idle" ELSE @]

OnAnimationEnd_HidingGoesOn(g, s, n) ==
    CASE s = "reload" -> SwitchState(Reloaded(g, n), "idle")
      [] s \in {"fire", "showing", "firemode"} -> SwitchState(g, "idle")
      [] s = "idle" -> Switch2Idle(g)
      [] OTHER -> g

(* The state a motion began in has its end: what follows, n being what a    *)
(* reload finds.                                                            *)
OnAnimationEnd(g, s, n) ==
    CASE s = "reload" ->
             SwitchState(IF g.misfire /\ features.unjams THEN Unjammed(g)
                         ELSE Reloaded(g, n), "idle")
      [] s = "hiding" -> SwitchState(g, "hidden")
      [] s \in {"fire", "showing", "firemode"} -> SwitchState(g, "idle")
      [] s = "idle" -> Switch2Idle(g)
      [] s \in {"bore", "hidden"} -> g

-----------------------------------------------------------------------------
(* OnStateSwitch: what a message does when it is back.                      *)

Entered(g, s) == [g EXCEPT !.state = s]

(* CanAssignIdleAnimNow: not while the motion of a shot runs.               *)
SwitchToIdle(g) == IF g.motion # "fire" THEN Switch2Idle(g) ELSE g

(* The case falls through to the one of eIdle.                              *)
SwitchToFiremode(g, spare) ==
    SwitchToIdle([PlayHUDMotion(FireEnd(g, spare)) EXCEPT !.pending = TRUE])

Switch2Empty(g, spare) ==
    IF ~features.autoreload THEN g
    ELSE IF CanReload(g, spare) THEN StopFiring(TryReload(g, spare))
    ELSE TryReload(g, spare)

SwitchToEmpty(g, spare) ==
    LET tried == Switch2Empty(g, spare)
    IN  IF tried.next # "reload" THEN SwitchState(tried, "idle") ELSE tried

Busy(g) == [PlayHUDMotion(g) EXCEPT !.pending = TRUE]

Switch2Hidden(g) == [StopFiring(g) EXCEPT !.motion = "none", !.pending = FALSE]

OnStateSwitch(g, s, spare) ==
    LET h == Entered(g, s) IN
    CASE s = "idle" -> SwitchToIdle(h)
      [] s = "fire" -> [h EXCEPT !.single = TRUE]
      [] s = "firemode" -> SwitchToFiremode(h, spare)
      [] s = "misfire" -> h
      [] s = "magempty" -> SwitchToEmpty(h, spare)
      [] s = "showing" -> Busy(h)
      [] s \in {"reload", "hiding"} -> Busy(StopFiring(h))
      [] s = "hidden" -> Switch2Hidden(h)
      [] s = "bore" -> [PlayHUDMotion(h) EXCEPT !.pending = FALSE]

(* Activate and Deactivate of the weapon: Show and OnActiveItem, Hide and   *)
(* OnHiddenItem.                                                            *)
InState_NotNext(g, s) == [g EXCEPT !.state = s]

InState(g, s) == [g EXCEPT !.state = s, !.next = s]

ItemActivate(g, now) ==
    InState(IF now THEN OnStateSwitch([g EXCEPT !.motion = "none"], "idle", FALSE)
            ELSE SwitchState(g, "showing"), "idle")

ItemDeactivate(g, now) ==
    InState(IF now THEN OnStateSwitch(g, "hidden", FALSE)
            ELSE SwitchState(g, "hiding"), "hidden")

-----------------------------------------------------------------------------
(* UpdateCL: a motion that ends, what CWeapon does, what the state does.    *)

MotionEnds(g, n) == OnAnimationEnd([g EXCEPT !.motion = "none"], g.motion, n)

(* After 20 seconds without a movement.                                     *)
Bores(g, idles) ==
    IF idles /\ active /\ g.state = "idle" /\ g.next = "idle"
    THEN SwitchState(g, "bore") ELSE g

(* The actor begins to walk or to sprint, or stops.                         *)
IdleStateChanges(g, moves) ==
    IF moves /\ g.state = "idle" /\ g.next \notin {"magempty", "reload"}
    THEN SwitchState(g, "idle") ELSE g

Jams(g, jams) == jams /\ g.elapsed > 1

CheckForMisfire(g, jams) ==
    IF Jams(g, jams) THEN SwitchState([StopFiring(g) EXCEPT !.misfire = TRUE], "misfire")
    ELSE g

(* A misfire is looked for before the cartridge is taken out.               *)
OnShot(g, jams) ==
    CheckForMisfire([PlayHUDMotion(g) EXCEPT !.afterUnjam = FALSE], jams)

FireTrace(g) == [g EXCEPT !.rounds = @ - 1, !.elapsed = @ - 1]

MayShoot_Unloaded(g, more) == g.due > 0 /\ (g.single \/ (g.working /\ more))

(* The loop of state_Fire goes on; more: the burst is not over.  It looks   *)
(* at the magazine, not at the count.                                       *)
MayShoot(g, more) ==
    g.rounds > 0 /\ g.due > 0 /\ (g.single \/ (g.working /\ more))

(* state_Fire is over, or there was nothing to fire.                        *)
FireDone(g) ==
    /\ phase' = "update"
    /\ IF g.due > 0
       THEN gun' = StopShooting(IF g.elapsed = 0 THEN OnMagazineEmpty(g) ELSE g)
       ELSE \E shots \in 0..MaxShots : gun' = [g EXCEPT !.due = shots]

(* The loop of state_Fire, up to the callback of the next shot or its end.  *)
Shoot(g) ==
    \E more, unjammed, jams \in BOOLEAN :
        LET stuck == g.afterUnjam /\ Jams(g, unjammed) IN
        /\ unjammed \/ jams => g.rounds - g.elapsed < MaxSurplus
        /\ \/ ~MayShoot(g, more) /\ FireDone(g)
           \/ MayShoot(g, more) /\ g.misfire /\ FireDone(StopShooting(g))
           \/ /\ MayShoot(g, more) /\ ~g.misfire /\ stuck
              /\ FireDone(StopShooting(CheckForMisfire(g, TRUE)))
           \/ /\ MayShoot(g, more) /\ ~g.misfire /\ ~stuck
              /\ phase' = "firing"
              /\ gun' = OnShot([g EXCEPT !.single = FALSE, !.due = @ - 1], jams)

(* What UpdateCL does in the other states; ready: fTime runs out.           *)
Rested(g, ready) ==
    CASE g.next = g.state /\ g.state \in {"showing", "hiding", "reload", "idle"} ->
             [g EXCEPT !.due = IF g.due > 0 \/ ready THEN 1 ELSE 0]
      [] g.next = g.state /\ g.state = "misfire" ->
             [SwitchState(g, "idle") EXCEPT !.misfire = TRUE]
      [] OTHER -> g

ToFire(g) == g.next = "fire" /\ g.state = "fire"

StateUpdate(g) ==
    \/ ToFire(g) /\ g.elapsed > 0 /\ Shoot(g)
    \/ ToFire(g) /\ g.elapsed <= 0 /\ FireDone(g)
    \/ ~ToFire(g) /\ phase' = "update" /\ \E ready \in BOOLEAN : gun' = Rested(g, ready)

-----------------------------------------------------------------------------
(* The inventory, on a record v of what it changes.                         *)

Current == [active |-> active, chosen |-> chosen, previous |-> previous, gun |-> gun]

Becomes(v) ==
    /\ active' = v.active
    /\ chosen' = v.chosen
    /\ previous' = v.previous
    /\ gun' = v.gun

(* What Activate returns; wants: the slot is the weapon's, not none.        *)
Accepts(v, wants, blocked) ==
    IF wants THEN ~blocked /\ ~v.active
    ELSE v.active /\ (v.chosen \/ v.gun.state # "hiding")

(* CInventory::Activate: the weapon in the hands is shown again if it is    *)
(* asked for; otherwise it is put away, now or by a message.                *)
Activate(v, wants, blocked, now) ==
    CASE wants /\ v.active /\ ~blocked -> [v EXCEPT !.gun = ItemActivate(@, FALSE)]
      [] wants /\ Accepts(v, wants, blocked) -> [v EXCEPT !.chosen = TRUE]
      [] ~wants /\ Accepts(v, wants, blocked) ->
             [v EXCEPT !.gun = ItemDeactivate(@, now), !.chosen = FALSE]
      [] OTHER -> v

SetActiveSlot(v, wants) == [v EXCEPT !.active = wants, !.chosen = wants]

(* SetSlotsBlocked first ends what is on the way: the drawing of a weapon,  *)
(* or the putting away of the one it hid before.                            *)
Hastened(v) ==
    CASE ~v.previous /\ v.chosen /\ v.gun.state = "showing" ->
             [SetActiveSlot(v, TRUE) EXCEPT !.gun = ItemActivate(@, TRUE)]
      [] v.previous /\ v.gun.state = "hiding" ->
             [SetActiveSlot(v, FALSE) EXCEPT !.gun = ItemDeactivate(@, TRUE)]
      [] OTHER -> v

(* Then it hides the weapon, or restores the one that was hidden.           *)
SlotBlocked(v, blocked, now) ==
    LET h == Hastened(v)
        wants == ~h.active
    IN  IF (IF wants THEN v.previous ELSE blocked) /\ Accepts(h, wants, blocked)
        THEN [Activate(h, wants, blocked, now) EXCEPT !.previous = ~wants]
        ELSE h

-----------------------------------------------------------------------------
Room == Len(gun.sent) + Len(events) < MaxMessages

Blocked == blocks > 0

(* Scripts, and what else blocks the slots.                                 *)
ActivateSlot(wants) ==
    /\ Room
    /\ Becomes(Activate(Current, wants, Blocked, FALSE))
    /\ UNCHANGED <<phase, blocks, events, features>>

SetSlotsBlocked(block, now) ==
    /\ Room
    /\ IF block THEN blocks < MaxBlocks ELSE blocks > 0
    /\ blocks' = IF block THEN blocks + 1 ELSE blocks - 1
    /\ IF Blocked' # Blocked THEN Becomes(SlotBlocked(Current, Blocked', now))
       ELSE Becomes(Current)
    /\ UNCHANGED <<phase, events, features>>

Call == (\E wants \in BOOLEAN : ActivateSlot(wants))
            \/ (\E block, now \in BOOLEAN : SetSlotsBlocked(block, now))

(* CInventory::Update, from the scheduled update of the actor: the hands    *)
(* change when nothing is visible in them.                                  *)
Update ==
    /\ phase = "update"
    /\ phase' = "keys"
    /\ IF chosen # active /\ (~active \/ gun.state = "hidden")
       THEN /\ active' = chosen
            /\ gun' = IF chosen THEN ItemActivate(gun, FALSE) ELSE gun
       ELSE UNCHANGED <<active, gun>>
    /\ UNCHANGED <<chosen, previous, blocks, events, features>>

-----------------------------------------------------------------------------
(* Keys, which go to the item in the active slot.                           *)
Key(g) ==
    /\ phase = "keys" /\ Room
    /\ active
    /\ gun' = g
    /\ UNCHANGED <<phase, active, chosen, previous, blocks, events, features>>

PressFire == ~gun.pending /\ Key(FireStart(gun))

ReleaseFire == \E spare \in BOOLEAN : Key(FireEnd(gun, spare))

PressReload ==
    /\ ~gun.pending
    /\ gun.elapsed < MagazineSize \/ gun.misfire
    /\ \E spare \in BOOLEAN : Key(TryReload(gun, spare))

PressFiremode == Key(SwitchState(gun, "firemode"))

PressSlot ==
    /\ phase = "keys" /\ Room
    /\ Becomes(Activate(Current, ~active, Blocked, FALSE))
    /\ UNCHANGED <<phase, blocks, events, features>>

Input == PressFire \/ ReleaseFire \/ PressReload \/ PressFiremode \/ PressSlot

-----------------------------------------------------------------------------
(* ClientReceive and ProcessGameEvents.                                     *)
Receive ==
    /\ phase = "keys"
    /\ phase' = "events"
    /\ events' = gun.sent
    /\ gun' = [gun EXCEPT !.sent = <<>>]
    /\ UNCHANGED <<active, chosen, previous, blocks, features>>

Handle ==
    /\ events # <<>>
    /\ events' = Tail(events)
    /\ \E spare \in BOOLEAN : gun' = OnStateSwitch(gun, Head(events), spare)
    /\ UNCHANGED <<phase, active, chosen, previous, blocks, features>>

(* UpdateCL; ends: the motion that runs is over.                            *)
UpdateCL(ends) ==
    /\ phase = "events" /\ events = <<>>
    /\ ends => gun.motion # "none"
    /\ \E idles, moves \in BOOLEAN, n \in 0..(MagazineSize - gun.elapsed) :
           LET ended == IF ends THEN MotionEnds(gun, n) ELSE gun
           IN  StateUpdate(IdleStateChanges(Bores(ended, idles), moves))
    /\ UNCHANGED <<active, chosen, previous, blocks, events, features>>

(* UpdateCL goes on after the callback of a shot, which may have called.    *)
FireOn ==
    /\ phase = "firing"
    /\ Shoot(FireTrace(gun))
    /\ UNCHANGED <<active, chosen, previous, blocks, events, features>>

Frame == Update \/ Receive \/ Handle \/ UpdateCL(TRUE) \/ UpdateCL(FALSE) \/ FireOn

Next == Call \/ Input \/ Frame

(* The frames go on, and a motion has an end.  Strong fairness asks a       *)
(* little more of the motions than the code: one that is replaced in every  *)
(* frame does not end there, and does here.                                 *)
Spec == Init /\ [][Next]_vars /\ WF_vars(Frame) /\ SF_vars(UpdateCL(TRUE))

-----------------------------------------------------------------------------
(* What the weapon was told last to be.                                     *)
LastTold ==
    IF gun.sent # <<>> THEN Last(gun.sent)
    ELSE IF events # <<>> THEN Last(events) ELSE gun.state

(* A weapon that is not in the hands does not fire, whatever keys, calls    *)
(* and messages overtook each other while it was put away, and whatever the *)
(* callback of a shot did.                                                  *)
ShotInHands == [][gun'.rounds < gun.rounds => active]_vars

(* A change of hands ends, unless the weapon was told something else since. *)
SwitchEnds ==
    chosen # active ~> (chosen = active \/ LastTold \notin {"hiding", "hidden"})

(* A weapon in the hands does not ignore the keys for ever.                 *)
PendingEnds == gun.pending /\ active ~> ~gun.pending \/ ~active

(* VERIFY((u32)iAmmoElapsed == m_magazine.size()) at the end of FireTrace:  *)
(* when a cartridge was taken out of the magazine the count is its size.    *)
AmmoVerified == [][gun'.rounds < gun.rounds => gun'.elapsed = gun'.rounds]_vars

(* VERIFY(GetState()==eFire || GetState()==eFire2) in PlayAnimShoot, where  *)
(* a shot sets its motion off.                                              *)
ShotVerified == [][FireOn /\ phase' = "firing" => gun.state = "fire"]_vars
=============================================================================
