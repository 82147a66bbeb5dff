---------------------------- MODULE WeaponProofs ----------------------------
(* Type correctness of Weapon, and that no shot is fired by a weapon that   *)
(* is not in the hands.  The argument: only FireStart asks for the state    *)
(* eFire, it is called for the item in the active slot, and whatever takes  *)
(* the weapon out of the hands sets another next state before.  So while    *)
(* eFire is the next state, the message that asked for it is the last one   *)
(* under way, or was handled and nothing was sent since; in both cases the  *)
(* hands cannot change.  And while state_Fire runs nothing that a callback  *)
(* of a shot does makes a slot active or inactive: it only begins that.     *)
EXTENDS Weapon, TLAPS

(* A cartridge is counted only if it is there.                              *)
Sound == {g \in Guns : g.elapsed <= MagazineSize /\ g.elapsed <= g.rounds}

(* What every function of the weapon but FireStart does to it: it may leave *)
(* the next state eFire, but then it sends nothing.                         *)
Passes(g, h) ==
    /\ h \in Sound
    /\ h.rounds >= g.rounds
    /\ h.next = "fire" => g.next = "fire" /\ h.sent = g.sent

Keeps(g, h) == Passes(g, h) /\ h.state = g.state

LEMMA PassesOn ==
    ASSUME NEW g \in Guns, NEW h \in Guns, NEW k, Passes(g, h), Passes(h, k)
    PROVE  Passes(g, k)
BY DEF Passes, Guns, Sound

LEMMA KeepsOn ==
    ASSUME NEW g \in Sound, NEW h, NEW k, Keeps(g, h), Keeps(h, k)
    PROVE  Keeps(g, k)
BY DEF Passes, Guns, Sound, Keeps

(* A function that changes only what the argument is not about.             *)
LEMMA Unchanged ==
    ASSUME NEW g \in Sound, NEW h \in Guns,
           h.state = g.state, h.next = g.next, h.sent = g.sent,
           h.elapsed = g.elapsed, h.rounds = g.rounds
    PROVE  Keeps(g, h)
BY DEF Keeps, Passes, Sound, Guns

LEMMA Switched ==
    ASSUME NEW g \in Sound, NEW s \in States \ {"fire"}
    PROVE  /\ Keeps(g, SwitchState(g, s))
           /\ SwitchState(g, s).elapsed = g.elapsed
           /\ SwitchState(g, s).misfire = g.misfire
           /\ SwitchState(g, s).next = s
           /\ SwitchState(g, s).afterUnjam = g.afterUnjam
           /\ SwitchState(g, s).motion = g.motion
  <1> DEFINE h == SwitchState(g, s)
  <1>1. g \in Guns
    BY DEF Sound
  <1>2. Append(g.sent, s) \in Seq(States)
    BY <1>1 DEF Guns
  <1>3. h \in Guns
    BY <1>1, <1>2 DEF Guns, SwitchState
  <1>4. /\ h.state = g.state /\ h.elapsed = g.elapsed /\ h.misfire = g.misfire
        /\ h.next = s /\ h.afterUnjam = g.afterUnjam /\ h.motion = g.motion
        /\ h.rounds = g.rounds
    BY <1>1 DEF Guns, SwitchState
  <1>5. h \in Sound
    BY <1>3, <1>4 DEF Sound
  <1>6. g.rounds \in Nat
    BY <1>1 DEF Guns
  <1> QED
    BY <1>4, <1>5, <1>6 DEF Passes, Keeps

LEMMA StoppedFiring ==
    ASSUME NEW g \in Sound
    PROVE  /\ Keeps(g, StopFiring(g))
           /\ StopFiring(g).next = g.next
           /\ StopFiring(g).elapsed = g.elapsed
           /\ StopFiring(g).misfire = g.misfire
           /\ StopFiring(g).motion = g.motion
  <1>1. g \in Guns
    BY DEF Sound
  <1>2. StopFiring(g) \in Guns
    BY <1>1 DEF Guns, StopFiring
  <1> QED
    BY <1>1, <1>2, Unchanged DEF StopFiring, Guns

LEMMA Reloads ==
    ASSUME NEW g \in Sound, NEW spare \in BOOLEAN
    PROVE  /\ Keeps(g, TryReload(g, spare))
           /\ TryReload(g, spare).next # "fire"
           /\ TryReload(g, spare).motion = g.motion
  <1>1. "reload" \in States \ {"fire"} /\ "idle" \in States \ {"fire"}
    BY DEF States
  <1> DEFINE h == SwitchState(g, "reload")
  <1>2. Keeps(g, h) /\ h \in Sound /\ h.next = "reload" /\ h.motion = g.motion
    BY <1>1, Switched DEF Keeps, Passes
  <1>3. h \in Guns
    BY <1>2 DEF Sound
  <1>4. [h EXCEPT !.pending = TRUE] \in Guns
    BY <1>3 DEF Guns
  <1> HIDE DEF h
  <1>5. Keeps(h, [h EXCEPT !.pending = TRUE])
    BY <1>2, <1>3, <1>4, Unchanged DEF Guns
  <1>6. Keeps(g, [h EXCEPT !.pending = TRUE])
    BY <1>2, <1>5, KeepsOn
  <1>7. [h EXCEPT !.pending = TRUE].next = "reload" /\ [h EXCEPT !.pending = TRUE].motion = g.motion
    BY <1>2, <1>3 DEF Guns
  <1> QED
    BY <1>1, <1>6, <1>7, Switched DEF TryReload, h

LEMMA FireEnds ==
    ASSUME NEW g \in Sound, NEW spare \in BOOLEAN
    PROVE  Keeps(g, FireEnd(g, spare)) /\ FireEnd(g, spare).motion = g.motion
  <1>1. Keeps(g, StopFiring(g)) /\ StopFiring(g) \in Sound /\ StopFiring(g).motion = g.motion
    BY StoppedFiring DEF Keeps, Passes
  <1>2. Keeps(StopFiring(g), TryReload(StopFiring(g), spare))
        /\ TryReload(StopFiring(g), spare).motion = g.motion
    BY <1>1, Reloads
  <1> QED
    BY <1>1, <1>2, KeepsOn DEF FireEnd

LEMMA KeepsItself == ASSUME NEW g \in Sound PROVE Keeps(g, g)
BY DEF Keeps, Passes, Sound, Guns

LEMMA MagazineEmpties ==
    ASSUME NEW g \in Sound
    PROVE  Keeps(g, OnMagazineEmpty(g))
  <1>1. Keeps(g, SwitchState(g, "magempty"))
    BY Switched DEF States
  <1> QED
    BY <1>1, KeepsItself DEF OnMagazineEmpty

LEMMA StopsShooting ==
    ASSUME NEW g \in Sound
    PROVE  Keeps(g, StopShooting(g))
  <1>1. Keeps(g, SwitchState(g, "idle")) /\ SwitchState(g, "idle") \in Sound
    BY Switched DEF States, Keeps, Passes
  <1> QED
    BY <1>1, StoppedFiring, KeepsOn DEF StopShooting

(* FireStart alone may ask for the state eFire.                             *)
LEMMA FireStarts ==
    ASSUME NEW g \in Sound
    PROVE  \/ Keeps(g, FireStart(g))
           \/ /\ FireStart(g) \in Sound
              /\ FireStart(g).state = g.state
              /\ FireStart(g).rounds = g.rounds
              /\ FireStart(g).sent # <<>> /\ Last(FireStart(g).sent) = "fire"
  <1> DEFINE w == [g EXCEPT !.working = TRUE]
             h == SwitchState(w, "fire")
  <1>1. g \in Guns
    BY DEF Sound
  <1>2. w \in Guns /\ w.sent = g.sent /\ w.state = g.state /\ w.elapsed = g.elapsed
        /\ w.rounds = g.rounds /\ w.misfire = g.misfire
    BY <1>1 DEF Guns
  <1> HIDE DEF w
  <1>3. Append(w.sent, "fire") \in Seq(States)
    BY <1>2 DEF Guns, States
  <1>4. Append(w.sent, "fire") # <<>> /\ Last(Append(w.sent, "fire")) = "fire"
    BY <1>2 DEF Guns, Last
  <1>5. h \in Guns
    BY <1>2, <1>3 DEF Guns, SwitchState, States
  <1>6. h.sent = Append(w.sent, "fire") /\ h.state = g.state /\ h.elapsed = g.elapsed
        /\ h.rounds = g.rounds /\ h.misfire = g.misfire /\ h.next = "fire"
    BY <1>2 DEF Guns, SwitchState
  <1>7. h \in Sound
    BY <1>5, <1>6 DEF Sound
  <1>8. FireStart(g) \in {h, OnMagazineEmpty(g), g}
    BY DEF FireStart, w
  <1> QED
    BY <1>4, <1>6, <1>7, <1>8, MagazineEmpties, KeepsItself

LEMMA Idles ==
    ASSUME NEW g \in Sound
    PROVE  Keeps(g, Switch2Idle(g))
  <1>1. g \in Guns
    BY DEF Sound
  <1>2. Switch2Idle(g) \in Guns
    BY <1>1 DEF Guns, Switch2Idle, Motions, States
  <1> QED
    BY <1>1, <1>2, Unchanged DEF Switch2Idle, Guns

(* A filled magazine, or a cleared jam, counts no cartridge that is not     *)
(* there.                                                                   *)
LEMMA ReloadEnds ==
    ASSUME NEW g \in Sound, NEW r \in Guns,
           r.state = g.state, r.rounds >= g.rounds,
           r.elapsed <= MagazineSize, r.elapsed <= r.rounds
    PROVE  Keeps(g, SwitchState(r, "idle"))
  <1> DEFINE h == SwitchState(r, "idle")
  <1>1. Append(r.sent, "idle") \in Seq(States)
    BY DEF Guns, States
  <1>2. h \in Guns
    BY <1>1 DEF Guns, SwitchState, States
  <1>3. h.state = r.state /\ h.elapsed = r.elapsed /\ h.rounds = r.rounds
        /\ h.misfire = r.misfire /\ h.next = "idle"
    BY DEF Guns, SwitchState
  <1>4. h \in Sound
    BY <1>2, <1>3 DEF Sound
  <1> QED
    BY <1>3, <1>4 DEF Keeps, Passes

LEMMA Fills ==
    ASSUME NEW g \in Sound, NEW n \in 0..(MagazineSize - g.elapsed)
    PROVE  Keeps(g, SwitchState(Reloaded(g, n), "idle"))
  <1> DEFINE r == Reloaded(g, n)
  <1>1. g \in Guns /\ MagazineSize \in Nat
    BY WeaponAssumption DEF Sound
  <1>2. g.elapsed \in Int /\ g.rounds \in Nat /\ g.elapsed <= g.rounds
    BY <1>1 DEF Guns, Sound
  <1>3. g.elapsed + n \in Int /\ g.rounds + n \in Nat /\ g.elapsed + n <= MagazineSize
        /\ g.elapsed + n <= g.rounds + n /\ g.rounds + n >= g.rounds
    BY <1>1, <1>2
  <1>4. r.elapsed = g.elapsed + n /\ r.rounds = g.rounds + n /\ r.state = g.state
    BY <1>1 DEF Guns, Reloaded
  <1>5. r \in Guns
    BY <1>1, <1>3 DEF Guns, Reloaded
  <1> QED
    BY <1>3, <1>4, <1>5, ReloadEnds

LEMMA Unjams ==
    ASSUME NEW g \in Sound
    PROVE  Keeps(g, SwitchState(Unjammed(g), "idle"))
  <1> DEFINE e == IF g.afterUnjam THEN g.elapsed - 1 ELSE g.elapsed
             r == Unjammed(g)
  <1>1. g \in Guns /\ MagazineSize \in Nat
    BY WeaponAssumption DEF Sound
  <1>2. g.elapsed \in Int /\ g.elapsed <= MagazineSize /\ g.rounds \in Nat
        /\ g.elapsed <= g.rounds
    BY <1>1 DEF Guns, Sound
  <1>3. e \in Int /\ e <= MagazineSize /\ e <= g.rounds
    BY <1>1, <1>2
  <1>4. r = [g EXCEPT !.misfire = FALSE, !.afterUnjam = TRUE, !.elapsed = e]
    BY <1>1 DEF Unjammed, Guns
  <1> HIDE DEF e, r
  <1>5. r \in Guns
    BY <1>1, <1>3, <1>4 DEF Guns
  <1>6. r.elapsed = e /\ r.rounds = g.rounds /\ r.state = g.state
    BY <1>1, <1>4 DEF Guns
  <1>7. r.rounds >= g.rounds
    BY <1>2, <1>6
  <1> QED
    BY <1>3, <1>5, <1>6, <1>7, ReloadEnds DEF r

LEMMA AnimationEnds ==
    ASSUME NEW g \in Sound, NEW s \in Motions \ {"none"},
           NEW n \in 0..(MagazineSize - g.elapsed)
    PROVE  Keeps(g, OnAnimationEnd(g, s, n))
  <1>1. CASE s = "reload" /\ g.misfire /\ features.unjams
    <2>1. OnAnimationEnd(g, s, n) = SwitchState(Unjammed(g), "idle")
      BY <1>1 DEF OnAnimationEnd
    <2> QED
      BY <1>1, <2>1, Unjams
  <1>2. CASE s = "reload" /\ ~(g.misfire /\ features.unjams)
    <2>1. OnAnimationEnd(g, s, n) = SwitchState(Reloaded(g, n), "idle")
      BY <1>2 DEF OnAnimationEnd
    <2> QED
      BY <2>1, Fills
  <1>3. CASE s = "hiding"
    <2>1. OnAnimationEnd(g, s, n) = SwitchState(g, "hidden")
      BY <1>3 DEF OnAnimationEnd
    <2> QED
      BY <2>1, Switched DEF States
  <1>4. CASE s \in {"fire", "showing", "firemode"}
    <2>1. OnAnimationEnd(g, s, n) = SwitchState(g, "idle")
      BY <1>4 DEF OnAnimationEnd
    <2> QED
      BY <2>1, Switched DEF States
  <1>5. CASE s = "idle"
    <2>1. OnAnimationEnd(g, s, n) = Switch2Idle(g)
      BY <1>5 DEF OnAnimationEnd
    <2> QED
      BY <2>1, Idles
  <1>6. CASE s \in {"bore", "hidden"}
    <2>1. OnAnimationEnd(g, s, n) = g
      BY <1>6 DEF OnAnimationEnd
    <2> QED
      BY <2>1, KeepsItself
  <1> QED
    BY <1>1, <1>2, <1>3, <1>4, <1>5, <1>6 DEF Motions, States

-----------------------------------------------------------------------------
(* OnStateSwitch, Activate and Deactivate.                                  *)

LEMMA Enters ==
    ASSUME NEW g \in Sound, NEW s \in States
    PROVE  Passes(g, Entered(g, s)) /\ Entered(g, s).state = s
  <1>1. g \in Guns
    BY DEF Sound
  <1>2. Entered(g, s) \in Guns
    BY <1>1 DEF Guns, Entered
  <1>3. /\ Entered(g, s).next = g.next /\ Entered(g, s).sent = g.sent
        /\ Entered(g, s).elapsed = g.elapsed /\ Entered(g, s).rounds = g.rounds
        /\ Entered(g, s).misfire = g.misfire /\ Entered(g, s).state = s
    BY <1>1 DEF Guns, Entered
  <1>4. g.rounds >= g.rounds
    BY <1>1 DEF Guns
  <1> QED
    BY <1>2, <1>3, <1>4 DEF Passes, Sound

LEMMA Plays ==
    ASSUME NEW g \in Sound, g.state \in Motions, NEW b \in BOOLEAN
    PROVE  Keeps(g, [PlayHUDMotion(g) EXCEPT !.pending = b])
  <1> DEFINE h == [PlayHUDMotion(g) EXCEPT !.pending = b]
  <1>1. g \in Guns
    BY DEF Sound
  <1>2. h \in Guns
    BY <1>1 DEF Guns, PlayHUDMotion
  <1>3. /\ h.state = g.state /\ h.next = g.next /\ h.sent = g.sent
        /\ h.elapsed = g.elapsed /\ h.rounds = g.rounds /\ h.misfire = g.misfire
    BY <1>1 DEF Guns, PlayHUDMotion
  <1> QED
    BY <1>2, <1>3, Unchanged

LEMMA IdlesAgain ==
    ASSUME NEW g \in Sound
    PROVE  Keeps(g, SwitchToIdle(g))
BY Idles, KeepsItself DEF SwitchToIdle

LEMMA FiremodeSwitches ==
    ASSUME NEW g \in Sound, g.state = "firemode", NEW spare \in BOOLEAN
    PROVE  Keeps(g, SwitchToFiremode(g, spare))
  <1> DEFINE e == FireEnd(g, spare)
             p == [PlayHUDMotion(e) EXCEPT !.pending = TRUE]
  <1>1. Keeps(g, e) /\ e \in Sound /\ e.state = "firemode"
    BY FireEnds DEF Keeps, Passes
  <1>2. Keeps(e, p) /\ p \in Sound
    BY <1>1, Plays DEF Motions, States, Keeps, Passes
  <1>3. Keeps(p, SwitchToIdle(p))
    BY <1>2, IdlesAgain
  <1>4. Keeps(g, p)
    BY <1>1, <1>2, KeepsOn
  <1> QED
    BY <1>3, <1>4, KeepsOn DEF SwitchToFiremode

LEMMA Empties ==
    ASSUME NEW g \in Sound, NEW spare \in BOOLEAN
    PROVE  Keeps(g, SwitchToEmpty(g, spare))
  <1> DEFINE t == TryReload(g, spare)
             e == Switch2Empty(g, spare)
  <1>1. Keeps(g, t) /\ t \in Sound
    BY Reloads DEF Keeps, Passes
  <1>2. Keeps(g, StopFiring(t))
    BY <1>1, StoppedFiring, KeepsOn
  <1>3. Keeps(g, e) /\ e \in Sound
    BY <1>1, <1>2, KeepsItself DEF Switch2Empty, Keeps, Passes
  <1>4. Keeps(e, SwitchState(e, "idle"))
    BY <1>3, Switched DEF States
  <1>5. Keeps(g, SwitchState(e, "idle"))
    BY <1>3, <1>4, KeepsOn
  <1> QED
    BY <1>3, <1>5 DEF SwitchToEmpty

LEMMA Hides ==
    ASSUME NEW g \in Sound
    PROVE  Keeps(g, Switch2Hidden(g))
  <1> DEFINE f == StopFiring(g)
             h == Switch2Hidden(g)
  <1>1. Keeps(g, f) /\ f \in Sound
    BY StoppedFiring DEF Keeps, Passes
  <1>2. f \in Guns
    BY <1>1 DEF Sound
  <1>3. h = [f EXCEPT !.motion = "none", !.pending = FALSE]
    BY DEF Switch2Hidden
  <1> HIDE DEF f, h
  <1>4. h \in Guns
    BY <1>2, <1>3 DEF Guns, Motions
  <1>5. /\ h.state = f.state /\ h.next = f.next /\ h.sent = f.sent
        /\ h.elapsed = f.elapsed /\ h.rounds = f.rounds /\ h.misfire = f.misfire
    BY <1>2, <1>3 DEF Guns
  <1>6. Keeps(f, h)
    BY <1>1, <1>4, <1>5, Unchanged
  <1> QED
    BY <1>1, <1>6, KeepsOn DEF h

LEMMA Switches ==
    ASSUME NEW g \in Sound, NEW s \in States, NEW spare \in BOOLEAN
    PROVE  Passes(g, OnStateSwitch(g, s, spare)) /\ OnStateSwitch(g, s, spare).state = s
  <1> DEFINE h == Entered(g, s)
             k == OnStateSwitch(g, s, spare)
  <1>1. Passes(g, h) /\ h \in Sound /\ h.state = s /\ g \in Guns /\ h \in Guns
    BY Enters DEF Passes, Sound
  <1> HIDE DEF h
  <1>2. Keeps(h, k)
    <2>1. CASE s = "idle"
      <3>1. k = SwitchToIdle(h)
        BY <2>1 DEF OnStateSwitch, h
      <3> QED
        BY <1>1, <3>1, IdlesAgain
    <2>2. CASE s = "fire"
      <3>1. k = [h EXCEPT !.single = TRUE]
        BY <2>2 DEF OnStateSwitch, h
      <3> HIDE DEF k
      <3>2. k \in Guns
        BY <1>1, <3>1 DEF Guns
      <3> QED
        BY <1>1, <3>1, <3>2, Unchanged DEF Guns
    <2>3. CASE s = "firemode"
      <3>1. k = SwitchToFiremode(h, spare)
        BY <2>3 DEF OnStateSwitch, h
      <3> QED
        BY <1>1, <2>3, <3>1, FiremodeSwitches
    <2>4. CASE s = "misfire"
      <3>1. k = h
        BY <2>4 DEF OnStateSwitch, h
      <3> QED
        BY <1>1, <3>1, KeepsItself
    <2>5. CASE s = "magempty"
      <3>1. k = SwitchToEmpty(h, spare)
        BY <2>5 DEF OnStateSwitch, h
      <3> QED
        BY <1>1, <3>1, Empties
    <2>6. CASE s = "showing"
      <3>1. k = Busy(h)
        BY <2>6 DEF OnStateSwitch, h
      <3>2. h.state \in Motions
        BY <1>1, <2>6 DEF Motions, States
      <3> QED
        BY <1>1, <3>1, <3>2, Plays DEF Busy
    <2>7. CASE s \in {"reload", "hiding"}
      <3>1. k = Busy(StopFiring(h))
        BY <2>7 DEF OnStateSwitch, h
      <3>2. Keeps(h, StopFiring(h)) /\ StopFiring(h) \in Sound /\ StopFiring(h).state = s
        BY <1>1, StoppedFiring DEF Keeps, Passes
      <3>3. s \in Motions
        BY <2>7 DEF Motions, States
      <3>4. Keeps(StopFiring(h), Busy(StopFiring(h)))
        BY <3>2, <3>3, Plays DEF Busy
      <3> QED
        BY <1>1, <3>1, <3>2, <3>4, KeepsOn
    <2>8. CASE s = "hidden"
      <3>1. k = Switch2Hidden(h)
        BY <2>8 DEF OnStateSwitch, h
      <3> QED
        BY <1>1, <3>1, Hides
    <2>9. CASE s = "bore"
      <3>1. k = [PlayHUDMotion(h) EXCEPT !.pending = FALSE]
        BY <2>9 DEF OnStateSwitch, h
      <3>2. h.state \in Motions
        BY <1>1, <2>9 DEF Motions, States
      <3> QED
        BY <1>1, <3>1, <3>2, Plays
    <2> QED
      BY <2>1, <2>2, <2>3, <2>4, <2>5, <2>6, <2>7, <2>8, <2>9 DEF States
  <1>3. k \in Guns
    BY <1>2 DEF Keeps, Passes, Sound
  <1> QED
    BY <1>1, <1>2, <1>3, PassesOn DEF Keeps

LEMMA InStateHolds ==
    ASSUME NEW g \in Sound, NEW s \in {"idle", "hidden"}
    PROVE  Passes(g, InState(g, s)) /\ InState(g, s).next # "fire"
  <1> DEFINE h == InState(g, s)
  <1>1. g \in Guns /\ s \in States
    BY DEF Sound, States
  <1>2. h \in Guns
    BY <1>1 DEF Guns, InState
  <1>3. /\ h.next = s /\ h.elapsed = g.elapsed /\ h.rounds = g.rounds
        /\ h.misfire = g.misfire
    BY <1>1 DEF Guns, InState
  <1>4. g.rounds >= g.rounds
    BY <1>1 DEF Guns
  <1> QED
    BY <1>2, <1>3, <1>4 DEF Passes, Sound

LEMMA ItemActivates ==
    ASSUME NEW g \in Sound, NEW now \in BOOLEAN
    PROVE  /\ Passes(g, ItemActivate(g, now)) /\ ItemActivate(g, now).next # "fire"
           /\ Passes(g, ItemDeactivate(g, now)) /\ ItemDeactivate(g, now).next # "fire"
  <1> DEFINE q == [g EXCEPT !.motion = "none"]
             a == IF now THEN OnStateSwitch(q, "idle", FALSE) ELSE SwitchState(g, "showing")
             d == IF now THEN OnStateSwitch(g, "hidden", FALSE) ELSE SwitchState(g, "hiding")
  <1>1. g \in Guns /\ {"idle", "hidden", "showing", "hiding"} \subseteq States \ {"fire"}
    BY DEF Sound, States
  <1>2. q \in Guns
    BY <1>1 DEF Guns, Motions
  <1>3. Passes(g, q) /\ q \in Sound
    BY <1>1, <1>2, Unchanged DEF Guns, Keeps, Passes
  <1> HIDE DEF q
  <1>4. Passes(q, OnStateSwitch(q, "idle", FALSE)) /\ Passes(g, OnStateSwitch(g, "hidden", FALSE))
    BY <1>1, <1>3, Switches
  <1>5. Passes(g, OnStateSwitch(q, "idle", FALSE))
    BY <1>1, <1>2, <1>3, <1>4, PassesOn DEF Passes, Sound
  <1>6. Passes(g, SwitchState(g, "showing")) /\ Passes(g, SwitchState(g, "hiding"))
    BY <1>1, Switched DEF Keeps
  <1>7. Passes(g, a) /\ a \in Sound /\ a \in Guns /\ Passes(g, d) /\ d \in Sound /\ d \in Guns
    BY <1>4, <1>5, <1>6 DEF Passes, Sound
  <1> HIDE DEF a, d
  <1>8. /\ Passes(a, InState(a, "idle")) /\ InState(a, "idle").next # "fire"
        /\ Passes(d, InState(d, "hidden")) /\ InState(d, "hidden").next # "fire"
    BY <1>7, InStateHolds
  <1>9. Passes(g, InState(a, "idle")) /\ Passes(g, InState(d, "hidden"))
    BY <1>1, <1>7, <1>8, PassesOn
  <1> QED
    BY <1>8, <1>9 DEF ItemActivate, ItemDeactivate, a, d, q

-----------------------------------------------------------------------------
(* UpdateCL.                                                                *)

LEMMA MotionEnded ==
    ASSUME NEW g \in Sound, g.motion # "none",
           NEW n \in 0..(MagazineSize - g.elapsed)
    PROVE  Keeps(g, MotionEnds(g, n))
  <1> DEFINE q == [g EXCEPT !.motion = "none"]
  <1>1. g \in Guns /\ g.motion \in Motions \ {"none"}
    BY DEF Sound, Guns
  <1>2. q \in Guns
    BY <1>1 DEF Guns, Motions
  <1>3. Keeps(g, q) /\ q \in Sound /\ q.elapsed = g.elapsed
    BY <1>1, <1>2, Unchanged DEF Guns, Keeps, Passes
  <1> HIDE DEF q
  <1>4. Keeps(q, OnAnimationEnd(q, g.motion, n))
    BY <1>1, <1>3, AnimationEnds
  <1> QED
    BY <1>3, <1>4, KeepsOn DEF MotionEnds, q

LEMMA IdleMoves ==
    ASSUME NEW g \in Sound, NEW b \in BOOLEAN
    PROVE  Keeps(g, Bores(g, b)) /\ Keeps(g, IdleStateChanges(g, b))
  <1>1. Keeps(g, SwitchState(g, "idle")) /\ Keeps(g, SwitchState(g, "bore"))
    BY Switched DEF States
  <1> QED
    BY <1>1, KeepsItself DEF Bores, IdleStateChanges

LEMMA Misfires ==
    ASSUME NEW g \in Sound, NEW jams \in BOOLEAN
    PROVE  /\ Keeps(g, CheckForMisfire(g, jams))
           /\ CheckForMisfire(g, jams).rounds = g.rounds
  <1> DEFINE f == StopFiring(g)
             m == [f EXCEPT !.misfire = TRUE]
             h == SwitchState(m, "misfire")
  <1>1. CASE Jams(g, jams)
    <2>1. f \in Guns /\ g \in Guns
      BY StoppedFiring DEF Keeps, Passes, Sound
    <2>2. f.state = g.state /\ f.elapsed = g.elapsed /\ f.rounds = g.rounds
      BY <2>1 DEF StopFiring, Guns
    <2>3. g.rounds \in Nat /\ g.elapsed <= MagazineSize /\ g.elapsed <= g.rounds
      BY <2>1 DEF Sound, Guns
    <2> HIDE DEF f
    <2>4. m \in Guns
      BY <2>1 DEF Guns
    <2>5. m.state = g.state /\ m.elapsed = g.elapsed /\ m.rounds = g.rounds
      BY <2>1, <2>2 DEF Guns
    <2> HIDE DEF m
    <2>6. Append(m.sent, "misfire") \in Seq(States)
      BY <2>4 DEF Guns, States
    <2>7. h \in Guns
      BY <2>4, <2>6 DEF Guns, SwitchState, States
    <2>8. h.state = g.state /\ h.elapsed = g.elapsed /\ h.rounds = g.rounds
          /\ h.next = "misfire"
      BY <2>4, <2>5 DEF Guns, SwitchState
    <2>9. h \in Sound /\ h.rounds >= g.rounds
      BY <2>3, <2>7, <2>8 DEF Sound
    <2>10. Keeps(g, h)
      BY <2>8, <2>9 DEF Keeps, Passes
    <2>11. CheckForMisfire(g, jams) = h
      BY <1>1 DEF CheckForMisfire, m, f
    <2> QED
      BY <2>8, <2>10, <2>11
  <1>2. CASE ~Jams(g, jams)
    BY <1>2, KeepsItself DEF CheckForMisfire
  <1> QED
    BY <1>1, <1>2

(* What the weapon is in while state_Fire runs, callbacks included.         *)
Settled == {"fire", "idle", "hidden"}

LEMMA ShotSetsOff ==
    ASSUME NEW g \in Sound, g.state \in Settled, NEW jams \in BOOLEAN
    PROVE  Keeps(g, OnShot(g, jams)) /\ OnShot(g, jams).rounds = g.rounds
  <1> DEFINE shot == [PlayHUDMotion(g) EXCEPT !.afterUnjam = FALSE]
             j == CheckForMisfire(shot, jams)
  <1>1. g \in Guns /\ g.state \in Motions
    BY DEF Sound, Settled, Motions, States
  <1>2. shot \in Guns
    BY <1>1 DEF Guns, PlayHUDMotion
  <1>3. /\ shot.state = g.state /\ shot.next = g.next /\ shot.sent = g.sent
        /\ shot.elapsed = g.elapsed /\ shot.rounds = g.rounds
    BY <1>1 DEF Guns, PlayHUDMotion
  <1>4. Keeps(g, shot) /\ shot \in Sound
    BY <1>2, <1>3, Unchanged DEF Keeps, Passes
  <1> HIDE DEF shot
  <1>5. Keeps(shot, j) /\ j.rounds = g.rounds
    BY <1>3, <1>4, Misfires
  <1>6. Keeps(g, j)
    BY <1>4, <1>5, KeepsOn
  <1> QED
    BY <1>5, <1>6 DEF OnShot, j, shot

LEMMA Due ==
    ASSUME NEW g \in Sound, NEW d \in 0..MaxShots
    PROVE  Keeps(g, [g EXCEPT !.due = d]) /\ [g EXCEPT !.due = d].rounds = g.rounds
  <1>1. g \in Guns
    BY DEF Sound
  <1>2. [g EXCEPT !.due = d] \in Guns
    BY <1>1 DEF Guns
  <1> QED
    BY <1>1, <1>2, Unchanged DEF Guns

LEMMA FiringDone ==
    ASSUME NEW g \in Sound, FireDone(g)
    PROVE  Keeps(g, gun') /\ phase' = "update"
  <1> DEFINE m == IF g.elapsed = 0 THEN OnMagazineEmpty(g) ELSE g
  <1>1. Keeps(g, m) /\ m \in Sound
    BY MagazineEmpties, KeepsItself DEF Keeps, Passes
  <1>2. Keeps(g, StopShooting(m))
    BY <1>1, StopsShooting, KeepsOn
  <1> QED
    BY <1>2, Due DEF FireDone

(* The loop of state_Fire takes nothing out of the magazine before the      *)
(* callback of the shot.                                                    *)
LEMMA Shoots ==
    ASSUME NEW g \in Sound, g.state \in Settled, Shoot(g)
    PROVE  /\ Keeps(g, gun')
           /\ phase' = "update" \/ (phase' = "firing" /\ gun'.rounds > 0)
  <1>1. PICK more \in BOOLEAN, unjammed \in BOOLEAN, jams \in BOOLEAN :
            \/ FireDone(g)
            \/ FireDone(StopShooting(g))
            \/ FireDone(StopShooting(CheckForMisfire(g, TRUE)))
            \/ /\ MayShoot(g, more)
               /\ phase' = "firing"
               /\ gun' = OnShot([g EXCEPT !.single = FALSE, !.due = @ - 1], jams)
    BY DEF Shoot
  <1>2. Keeps(g, StopShooting(g)) /\ StopShooting(g) \in Sound
    BY StopsShooting DEF Keeps, Passes
  <1> DEFINE c == CheckForMisfire(g, TRUE)
  <1>3. Keeps(g, c) /\ c \in Sound
    BY Misfires DEF Keeps, Passes
  <1> HIDE DEF c
  <1>4. Keeps(g, StopShooting(c)) /\ StopShooting(c) \in Sound
    BY <1>3, StopsShooting, KeepsOn DEF Keeps, Passes
  <1>5. CASE FireDone(g)
    BY <1>5, FiringDone
  <1>6. CASE FireDone(StopShooting(g))
    BY <1>2, <1>6, FiringDone, KeepsOn
  <1>7. CASE FireDone(StopShooting(c))
    BY <1>4, <1>7, FiringDone, KeepsOn
  <1>8. CASE /\ MayShoot(g, more)
             /\ phase' = "firing"
             /\ gun' = OnShot([g EXCEPT !.single = FALSE, !.due = @ - 1], jams)
    <2> DEFINE s == [g EXCEPT !.single = FALSE, !.due = @ - 1]
    <2>1. g \in Guns /\ g.rounds > 0 /\ g.due > 0 /\ g.due \in 0..MaxShots
          /\ MaxShots \in Nat
      BY <1>8, WeaponAssumption DEF Sound, Guns, MayShoot
    <2>2. g.due - 1 \in 0..MaxShots
      BY <2>1
    <2>3. s \in Guns
      BY <2>1, <2>2 DEF Guns
    <2>4. /\ s.state = g.state /\ s.next = g.next /\ s.sent = g.sent
          /\ s.elapsed = g.elapsed /\ s.rounds = g.rounds
      BY <2>1 DEF Guns
    <2>5. Keeps(g, s) /\ s \in Sound
      BY <2>3, <2>4, Unchanged DEF Keeps, Passes
    <2> HIDE DEF s
    <2>6. Keeps(s, OnShot(s, jams)) /\ OnShot(s, jams).rounds = s.rounds
      BY <2>4, <2>5, ShotSetsOff
    <2>7. Keeps(g, OnShot(s, jams))
      BY <2>5, <2>6, KeepsOn
    <2> QED
      BY <1>8, <2>1, <2>4, <2>6, <2>7 DEF s
  <1> QED
    BY <1>1, <1>5, <1>6, <1>7, <1>8 DEF c

LEMMA Rests ==
    ASSUME NEW g \in Sound, NEW ready \in BOOLEAN
    PROVE  Keeps(g, Rested(g, ready))
  <1> DEFINE d == IF g.due > 0 \/ ready THEN 1 ELSE 0
             h == SwitchState(g, "idle")
             q == [h EXCEPT !.misfire = TRUE]
  <1>1. d \in 0..MaxShots
    BY WeaponAssumption
  <1>2. Keeps(g, [g EXCEPT !.due = d])
    BY <1>1, Due
  <1>3. Keeps(g, h) /\ h \in Sound /\ h \in Guns
    BY Switched DEF States, Keeps, Passes, Sound
  <1> HIDE DEF h
  <1>4. q \in Guns
    BY <1>3 DEF Guns
  <1>5. Keeps(h, q)
    BY <1>3, <1>4, Unchanged DEF Guns
  <1>6. Keeps(g, q)
    BY <1>3, <1>5, KeepsOn
  <1>7. Rested(g, ready) \in {[g EXCEPT !.due = d], q, g}
    BY DEF Rested, h
  <1> QED
    BY <1>2, <1>6, <1>7, KeepsItself

LEMMA StateUpdates ==
    ASSUME NEW g \in Sound, StateUpdate(g)
    PROVE  /\ Keeps(g, gun')
           /\ \/ phase' = "update"
              \/ phase' = "firing" /\ gun'.rounds > 0 /\ g.next = "fire" /\ g.state = "fire"
  <1>1. CASE ToFire(g) /\ Shoot(g)
    BY <1>1, Shoots DEF ToFire, Settled
  <1>2. CASE FireDone(g)
    BY <1>2, FiringDone
  <1>3. CASE phase' = "update" /\ \E ready \in BOOLEAN : gun' = Rested(g, ready)
    BY <1>3, Rests
  <1> QED
    BY <1>1, <1>2, <1>3 DEF StateUpdate

(* The cartridge of a shot goes.                                            *)
LEMMA Traces ==
    ASSUME NEW g \in Sound, g.rounds > 0
    PROVE  /\ FireTrace(g) \in Sound
           /\ FireTrace(g).state = g.state /\ FireTrace(g).next = g.next
           /\ FireTrace(g).sent = g.sent
  <1> DEFINE t == FireTrace(g)
  <1>1. g \in Guns /\ g.elapsed \in Int /\ g.rounds \in Nat /\ MagazineSize \in Nat
        /\ g.elapsed <= MagazineSize /\ g.elapsed <= g.rounds
    BY WeaponAssumption DEF Sound, Guns
  <1>2. g.elapsed - 1 \in Int /\ g.rounds - 1 \in Nat
        /\ g.elapsed - 1 <= MagazineSize /\ g.elapsed - 1 <= g.rounds - 1
    BY <1>1
  <1>3. t = [g EXCEPT !.rounds = g.rounds - 1, !.elapsed = g.elapsed - 1]
    BY <1>1 DEF FireTrace, Guns
  <1> HIDE DEF t
  <1>4. t \in Guns
    BY <1>1, <1>2, <1>3 DEF Guns
  <1>5. /\ t.state = g.state /\ t.next = g.next /\ t.sent = g.sent
        /\ t.rounds = g.rounds - 1 /\ t.elapsed = g.elapsed - 1
    BY <1>1, <1>3 DEF Guns
  <1>6. t \in Sound
    BY <1>2, <1>4, <1>5 DEF Sound
  <1> QED
    BY <1>5, <1>6 DEF t

-----------------------------------------------------------------------------
(* The inventory.                                                           *)

Hands == [active : BOOLEAN, chosen : BOOLEAN, previous : BOOLEAN, gun : Sound]

(* The hands do not change while the weapon is to fire next.                *)
Leaves(v, w) ==
    /\ w \in Hands
    /\ w.gun.rounds >= v.gun.rounds
    /\ w.gun.next = "fire" => w.gun = v.gun /\ w.active = v.active

LEMMA LeavesOn ==
    ASSUME NEW u \in Hands, NEW v \in Hands, NEW w, Leaves(u, v), Leaves(v, w)
    PROVE  Leaves(u, w)
  <1>1. u.gun.rounds \in Nat /\ v.gun.rounds \in Nat /\ w.gun.rounds \in Nat
    BY DEF Leaves, Hands, Sound, Guns
  <1> QED
    BY <1>1 DEF Leaves

LEMMA SameGun ==
    ASSUME NEW v \in Hands, NEW b \in BOOLEAN
    PROVE  Leaves(v, v) /\ Leaves(v, [v EXCEPT !.chosen = b]) /\ Leaves(v, [v EXCEPT !.previous = b])
  <1>1. v.gun.rounds >= v.gun.rounds
    BY DEF Hands, Sound, Guns
  <1> QED
    BY <1>1 DEF Leaves, Hands

LEMMA OtherGun ==
    ASSUME NEW v \in Hands, NEW g, Passes(v.gun, g), g.next # "fire", NEW w \in Hands, w.gun = g
    PROVE  Leaves(v, w)
BY DEF Leaves, Passes

LEMMA Activates ==
    ASSUME NEW v \in Hands, NEW wants \in BOOLEAN, NEW blocked \in BOOLEAN, NEW now \in BOOLEAN
    PROVE  Leaves(v, Activate(v, wants, blocked, now))
  <1> DEFINE a == ItemActivate(v.gun, FALSE)
             d == ItemDeactivate(v.gun, now)
             va == [v EXCEPT !.gun = a]
             vd == [v EXCEPT !.gun = d, !.chosen = FALSE]
  <1>1. /\ Passes(v.gun, a) /\ a.next # "fire" /\ a \in Sound
        /\ Passes(v.gun, d) /\ d.next # "fire" /\ d \in Sound
    BY ItemActivates DEF Hands, Passes
  <1> HIDE DEF a, d
  <1>2. va \in Hands /\ va.gun = a /\ vd \in Hands /\ vd.gun = d
    BY <1>1 DEF Hands
  <1>3. Leaves(v, va) /\ Leaves(v, vd)
    BY <1>1, <1>2, OtherGun
  <1>4. Leaves(v, v) /\ Leaves(v, [v EXCEPT !.chosen = TRUE])
    BY SameGun
  <1>5. Activate(v, wants, blocked, now) \in {va, vd, v, [v EXCEPT !.chosen = TRUE]}
    BY DEF Activate, a, d
  <1> QED
    BY <1>3, <1>4, <1>5

LEMMA Hastens ==
    ASSUME NEW v \in Hands
    PROVE  Leaves(v, Hastened(v))
  <1> DEFINE a == ItemActivate(v.gun, TRUE)
             d == ItemDeactivate(v.gun, TRUE)
             va == [SetActiveSlot(v, TRUE) EXCEPT !.gun = ItemActivate(@, TRUE)]
             vd == [SetActiveSlot(v, FALSE) EXCEPT !.gun = ItemDeactivate(@, TRUE)]
  <1>1. /\ Passes(v.gun, a) /\ a.next # "fire" /\ a \in Sound
        /\ Passes(v.gun, d) /\ d.next # "fire" /\ d \in Sound
    BY ItemActivates DEF Hands, Passes
  <1>2. /\ va = [v EXCEPT !.active = TRUE, !.chosen = TRUE, !.gun = a]
        /\ vd = [v EXCEPT !.active = FALSE, !.chosen = FALSE, !.gun = d]
    BY DEF SetActiveSlot, Hands
  <1> HIDE DEF a, d, va, vd
  <1>3. va \in Hands /\ va.gun = a /\ vd \in Hands /\ vd.gun = d
    BY <1>1, <1>2 DEF Hands
  <1>4. Leaves(v, va) /\ Leaves(v, vd)
    BY <1>1, <1>3, OtherGun
  <1>5. Hastened(v) \in {va, vd, v}
    BY DEF Hastened, va, vd
  <1> QED
    BY <1>4, <1>5, SameGun

LEMMA SlotBlocks ==
    ASSUME NEW v \in Hands, NEW blocked \in BOOLEAN, NEW now \in BOOLEAN
    PROVE  Leaves(v, SlotBlocked(v, blocked, now))
  <1> DEFINE h == Hastened(v)
             w == ~h.active
             a == Activate(h, w, blocked, now)
             p == [a EXCEPT !.previous = ~w]
  <1>1. Leaves(v, h) /\ h \in Hands /\ w \in BOOLEAN
    BY Hastens DEF Leaves
  <1> HIDE DEF h
  <1>2. Leaves(h, a) /\ a \in Hands
    <2>1. Leaves(h, a)
      BY <1>1, Activates
    <2> QED
      BY <2>1 DEF Leaves
  <1>3. Leaves(a, p)
    BY <1>1, <1>2, SameGun
  <1>4. Leaves(v, a)
    BY <1>1, <1>2, LeavesOn
  <1>5. Leaves(v, p)
    BY <1>2, <1>3, <1>4, LeavesOn
  <1>6. SlotBlocked(v, blocked, now) \in {p, h}
    BY DEF SlotBlocked, h
  <1> QED
    BY <1>1, <1>5, <1>6

(* What the callback of a shot does leaves the slot active.                 *)
HandsSettled(v) == v.active /\ v.gun.state \in Settled

LEMMA InStateSettled ==
    ASSUME NEW g \in Sound, NEW now \in BOOLEAN
    PROVE  ItemActivate(g, now).state \in Settled /\ ItemDeactivate(g, now).state \in Settled
  <1>1. ASSUME NEW h \in Guns, NEW s \in States PROVE InState(h, s).state = s
    BY DEF Guns, InState
  <1> DEFINE q == [g EXCEPT !.motion = "none"]
             a == IF now THEN OnStateSwitch(q, "idle", FALSE) ELSE SwitchState(g, "showing")
             d == IF now THEN OnStateSwitch(g, "hidden", FALSE) ELSE SwitchState(g, "hiding")
  <1>2. g \in Guns /\ {"idle", "hidden", "showing", "hiding"} \subseteq States \ {"fire"}
    BY DEF Sound, States
  <1>3. q \in Guns
    BY <1>2 DEF Guns, Motions
  <1>4. q \in Sound
    BY <1>2, <1>3, Unchanged DEF Guns, Keeps, Passes
  <1> HIDE DEF q
  <1>5. /\ OnStateSwitch(q, "idle", FALSE) \in Guns /\ OnStateSwitch(g, "hidden", FALSE) \in Guns
        /\ SwitchState(g, "showing") \in Guns /\ SwitchState(g, "hiding") \in Guns
    BY <1>2, <1>4, Switches, Switched DEF Passes, Keeps, Sound
  <1>6. a \in Guns /\ d \in Guns
    BY <1>5
  <1> HIDE DEF a, d
  <1>7. InState(a, "idle").state = "idle" /\ InState(d, "hidden").state = "hidden"
    BY <1>1, <1>2, <1>6
  <1> QED
    BY <1>7 DEF ItemActivate, ItemDeactivate, Settled, a, d, q

LEMMA ActivatesSettled ==
    ASSUME NEW v \in Hands, HandsSettled(v),
           NEW wants \in BOOLEAN, NEW blocked \in BOOLEAN, NEW now \in BOOLEAN
    PROVE  HandsSettled(Activate(v, wants, blocked, now))
  <1> DEFINE a == ItemActivate(v.gun, FALSE)
             d == ItemDeactivate(v.gun, now)
  <1>1. a.state \in Settled /\ d.state \in Settled
    BY InStateSettled DEF Hands
  <1> HIDE DEF a, d
  <1>2. /\ HandsSettled([v EXCEPT !.gun = a])
        /\ HandsSettled([v EXCEPT !.gun = d, !.chosen = FALSE])
        /\ HandsSettled([v EXCEPT !.chosen = TRUE])
    BY <1>1 DEF HandsSettled, Hands
  <1>3. Activate(v, wants, blocked, now) \in
            {[v EXCEPT !.gun = a], [v EXCEPT !.gun = d, !.chosen = FALSE],
             [v EXCEPT !.chosen = TRUE], v}
    BY DEF Activate, a, d
  <1> QED
    BY <1>2, <1>3

LEMMA SlotBlocksSettled ==
    ASSUME NEW v \in Hands, HandsSettled(v), NEW blocked \in BOOLEAN, NEW now \in BOOLEAN
    PROVE  HandsSettled(SlotBlocked(v, blocked, now))
  <1> DEFINE w == ~v.active
             a == Activate(v, w, blocked, now)
  <1>1. Hastened(v) = v
    BY DEF Hastened, HandsSettled, Settled
  <1>2. HandsSettled(a) /\ a \in Hands
    BY ActivatesSettled, Activates DEF Leaves
  <1> HIDE DEF a
  <1>3. HandsSettled([a EXCEPT !.previous = ~w])
    BY <1>2 DEF HandsSettled, Hands
  <1>4. SlotBlocked(v, blocked, now) \in {[a EXCEPT !.previous = ~w], v}
    BY <1>1 DEF SlotBlocked, a
  <1> QED
    BY <1>3, <1>4

-----------------------------------------------------------------------------
(* While eFire is the next state the weapon is in the hands, and the last   *)
(* message under way asks for eFire, or the last one handled did.           *)
FireIsAsked ==
    gun.next = "fire" =>
        /\ active
        /\ \/ gun.state = "fire" /\ gun.sent = <<>> /\ events = <<>>
           \/ phase = "keys" /\ gun.sent # <<>> /\ Last(gun.sent) = "fire"
           \/ phase = "events" /\ gun.sent = <<>> /\ events # <<>> /\ Last(events) = "fire"

(* Between a shot and its cartridge the weapon is in the hands, and there   *)
(* is a cartridge.                                                          *)
InFire == phase = "firing" => active /\ gun.state \in Settled /\ gun.rounds > 0

Inv == TypeOK /\ gun \in Sound /\ FireIsAsked /\ InFire

LEMMA InitInv == Init => Inv
  <1> SUFFICES ASSUME Init PROVE Inv
    OBVIOUS
  <1>1. MagazineSize \in Nat /\ MaxBlocks \in Nat
    BY WeaponAssumption
  <1>2. <<>> \in Seq(States)
    OBVIOUS
  <1>3. gun \in Guns
    <2>1. 1 \in 0..MaxShots
      BY WeaponAssumption
    <2> QED
      BY <1>1, <1>2, <2>1 DEF Init, Guns, Motions, States
  <1>4. gun.elapsed = MagazineSize /\ gun.rounds = MagazineSize /\ gun.next = "hidden"
        /\ phase = "update"
    BY DEF Init
  <1>5. gun \in Sound
    BY <1>1, <1>3, <1>4 DEF Sound
  <1>6. TypeOK
    <2>1. /\ phase = "update" /\ active = FALSE /\ chosen = FALSE /\ previous = FALSE
          /\ blocks = 0 /\ events = <<>> /\ features \in Features
      BY DEF Init
    <2>2. gun.elapsed <= MagazineSize /\ gun.elapsed <= gun.rounds
      BY <1>1, <1>4
    <2>3. blocks \in 0..MaxBlocks
      BY <1>1, <2>1
    <2> QED
      BY <1>2, <1>3, <2>1, <2>2, <2>3 DEF TypeOK
  <1> QED
    BY <1>4, <1>5, <1>6 DEF Inv, FireIsAsked, InFire

(* A step of the weapon alone that does not fire.                           *)
LEMMA GunKeeps ==
    ASSUME Inv, UNCHANGED <<phase, active, events, features, blocks>>,
           chosen' \in BOOLEAN, previous' \in BOOLEAN, Keeps(gun, gun')
    PROVE  Inv' /\ gun'.rounds >= gun.rounds
  <1>1. gun' \in Sound /\ gun' \in Guns /\ gun'.elapsed <= MagazineSize
        /\ gun'.elapsed <= gun'.rounds
    BY DEF Keeps, Passes, Sound
  <1>2. TypeOK'
    BY <1>1 DEF Inv, TypeOK
  <1>3. FireIsAsked'
    BY DEF Inv, FireIsAsked, Keeps, Passes
  <1>4. InFire'
    <2>1. gun.rounds \in Nat /\ gun'.rounds \in Nat /\ gun'.rounds >= gun.rounds
      BY <1>1 DEF Inv, Sound, Guns, Keeps, Passes
    <2> QED
      BY <2>1 DEF Inv, InFire, Keeps
  <1> QED
    BY <1>1, <1>2, <1>3, <1>4 DEF Inv, Keeps, Passes

(* A step of the inventory.                                                 *)
LEMMA HandsLeave ==
    ASSUME Inv, UNCHANGED <<phase, events, features>>, blocks' \in 0..MaxBlocks,
           NEW w, Leaves(Current, w), Becomes(w), phase = "firing" => HandsSettled(w)
    PROVE  Inv' /\ gun'.rounds >= gun.rounds
  <1>1. /\ gun' = w.gun /\ active' = w.active /\ chosen' = w.chosen /\ previous' = w.previous
    BY DEF Becomes
  <1>2. /\ gun' \in Sound /\ active' \in BOOLEAN /\ chosen' \in BOOLEAN
        /\ previous' \in BOOLEAN
    BY <1>1 DEF Leaves, Hands
  <1>3. gun'.rounds >= gun.rounds
    BY <1>1 DEF Leaves, Current
  <1>4. gun'.next = "fire" => gun' = gun /\ active' = active
    BY <1>1 DEF Leaves, Current
  <1>5. TypeOK'
    BY <1>2 DEF Inv, TypeOK, Sound
  <1>6. FireIsAsked'
    BY <1>4 DEF Inv, FireIsAsked
  <1>7. InFire'
    <2>1. gun.rounds \in Nat /\ gun'.rounds \in Nat
      BY <1>2 DEF Inv, Sound, Guns
    <2> QED
      BY <1>1, <1>3, <2>1 DEF Inv, InFire, HandsSettled
  <1> QED
    BY <1>2, <1>3, <1>5, <1>6, <1>7 DEF Inv

LEMMA CurrentHands ==
    Inv => Current \in Hands /\ (phase = "firing" => HandsSettled(Current))
BY DEF Inv, InFire, TypeOK, Current, Hands, HandsSettled

LEMMA CallStep == Inv /\ Call => Inv' /\ gun'.rounds >= gun.rounds
  <1> SUFFICES ASSUME Inv, Call PROVE Inv' /\ gun'.rounds >= gun.rounds
    OBVIOUS
  <1>1. Current \in Hands /\ blocks \in 0..MaxBlocks /\ MaxBlocks \in Nat
    BY CurrentHands, WeaponAssumption DEF Inv, TypeOK
  <1>2. ASSUME NEW wants \in BOOLEAN, ActivateSlot(wants)
        PROVE  Inv' /\ gun'.rounds >= gun.rounds
    <2>0. Blocked \in BOOLEAN
      BY DEF Blocked
    <2>1. /\ Leaves(Current, Activate(Current, wants, Blocked, FALSE))
          /\ phase = "firing" => HandsSettled(Activate(Current, wants, Blocked, FALSE))
      BY <1>1, <2>0, Activates, ActivatesSettled, CurrentHands
    <2> QED
      BY <1>1, <1>2, <2>1, HandsLeave DEF ActivateSlot
  <1>3. ASSUME NEW block \in BOOLEAN, NEW now \in BOOLEAN, SetSlotsBlocked(block, now)
        PROVE  Inv' /\ gun'.rounds >= gun.rounds
    <2>1. blocks' \in 0..MaxBlocks
      BY <1>1, <1>3 DEF SetSlotsBlocked
    <2>2. Blocked' \in BOOLEAN
      BY DEF Blocked
    <2>3. /\ Leaves(Current, SlotBlocked(Current, Blocked', now)) /\ Leaves(Current, Current)
          /\ phase = "firing" => /\ HandsSettled(SlotBlocked(Current, Blocked', now))
                                 /\ HandsSettled(Current)
      BY <1>1, <2>2, SlotBlocks, SameGun, SlotBlocksSettled, CurrentHands
    <2>4. Becomes(SlotBlocked(Current, Blocked', now)) \/ Becomes(Current)
      BY <1>3 DEF SetSlotsBlocked
    <2> QED
      BY <1>3, <2>1, <2>3, <2>4, HandsLeave DEF SetSlotsBlocked
  <1> QED
    BY <1>2, <1>3 DEF Call

LEMMA InputStep == Inv /\ Input => Inv' /\ gun'.rounds >= gun.rounds
  <1> SUFFICES ASSUME Inv, Input PROVE Inv' /\ gun'.rounds >= gun.rounds
    OBVIOUS
  <1>1. gun \in Sound /\ chosen \in BOOLEAN /\ previous \in BOOLEAN
    BY DEF Inv, TypeOK
  <1>2. ASSUME NEW g, Keeps(gun, g), Key(g)
        PROVE  Inv' /\ gun'.rounds >= gun.rounds
    BY <1>1, <1>2, GunKeeps DEF Key
  <1>3. CASE PressFire
    <2>1. Key(FireStart(gun))
      BY <1>3 DEF PressFire
    <2>2. CASE Keeps(gun, FireStart(gun))
      BY <1>2, <2>1, <2>2
    <2>3. CASE /\ FireStart(gun) \in Sound
               /\ FireStart(gun).rounds = gun.rounds
               /\ FireStart(gun).sent # <<>> /\ Last(FireStart(gun).sent) = "fire"
      <3>1. /\ gun' \in Sound /\ gun'.rounds = gun.rounds
            /\ gun'.sent # <<>> /\ Last(gun'.sent) = "fire"
            /\ phase' = "keys" /\ active'
        BY <2>1, <2>3 DEF Key
      <3>2. gun'.rounds >= gun.rounds
        BY <1>1, <3>1 DEF Sound, Guns
      <3>3. TypeOK'
        BY <2>1, <3>1 DEF Key, Inv, TypeOK, Sound
      <3>4. FireIsAsked' /\ InFire'
        BY <3>1 DEF FireIsAsked, InFire
      <3> QED
        BY <3>1, <3>2, <3>3, <3>4 DEF Inv
    <2> QED
      BY <1>1, <2>2, <2>3, FireStarts
  <1>4. CASE ReleaseFire
    BY <1>1, <1>2, <1>4, FireEnds DEF ReleaseFire
  <1>5. CASE PressReload
    BY <1>1, <1>2, <1>5, Reloads DEF PressReload
  <1>6. CASE PressFiremode
    BY <1>1, <1>2, <1>6, Switched DEF PressFiremode, States
  <1>7. CASE PressSlot
    <2>0. Blocked \in BOOLEAN /\ (~active) \in BOOLEAN /\ Current \in Hands
      BY CurrentHands DEF Blocked
    <2>1. Leaves(Current, Activate(Current, ~active, Blocked, FALSE))
      BY <2>0, Activates
    <2>2. blocks' \in 0..MaxBlocks
      BY <1>7 DEF PressSlot, Inv, TypeOK
    <2>3. phase # "firing"
      BY <1>7 DEF PressSlot
    <2> QED
      BY <1>7, <2>1, <2>2, <2>3, HandsLeave DEF PressSlot
  <1> QED
    BY <1>3, <1>4, <1>5, <1>6, <1>7 DEF Input

LEMMA UpdateStep == Inv /\ Update => Inv' /\ gun'.rounds >= gun.rounds
  <1> SUFFICES ASSUME Inv, Update PROVE Inv' /\ gun'.rounds >= gun.rounds
    OBVIOUS
  <1> DEFINE a == ItemActivate(gun, FALSE)
  <1>1. gun \in Sound /\ gun.rounds >= gun.rounds /\ chosen \in BOOLEAN /\ active \in BOOLEAN
        /\ events = <<>> /\ phase = "update" /\ phase' = "keys" /\ events' = <<>>
    BY DEF Inv, TypeOK, Update, Sound, Guns
  <1>2. /\ a \in Sound /\ a.rounds >= gun.rounds /\ a.next # "fire"
    BY <1>1, ItemActivates DEF Passes
  <1> HIDE DEF a
  <1>3. \/ gun' = a /\ active' = chosen
        \/ gun' = gun /\ active' = active
        \/ gun' = gun /\ chosen = FALSE /\ active' = FALSE /\ active /\ gun.state = "hidden"
    BY <1>1 DEF Update, a
  <1>4. gun' \in Sound /\ gun'.rounds >= gun.rounds /\ active' \in BOOLEAN
    BY <1>1, <1>2, <1>3
  <1>5. TypeOK'
    BY <1>1, <1>4 DEF Update, Inv, TypeOK, Sound
  <1>6. gun.next = "fire" => active /\ gun.state = "fire" /\ gun.sent = <<>>
    BY <1>1 DEF Inv, FireIsAsked
  <1>7. gun'.next = "fire" => gun' = gun /\ active' = active
    BY <1>2, <1>3, <1>6
  <1>8. FireIsAsked' /\ InFire'
    BY <1>1, <1>6, <1>7 DEF FireIsAsked, InFire
  <1> QED
    BY <1>4, <1>5, <1>8 DEF Inv

LEMMA ReceiveStep == Inv /\ Receive => Inv' /\ gun'.rounds >= gun.rounds
  <1> SUFFICES ASSUME Inv, Receive PROVE Inv' /\ gun'.rounds >= gun.rounds
    OBVIOUS
  <1>1. gun \in Sound /\ gun \in Guns /\ phase = "keys" /\ phase' = "events"
        /\ events' = gun.sent /\ gun' = [gun EXCEPT !.sent = <<>>] /\ active' = active
    BY DEF Inv, TypeOK, Receive
  <1>2. gun.sent \in Seq(States) /\ <<>> \in Seq(States)
    BY <1>1 DEF Guns
  <1>3. gun' \in Guns
    BY <1>1, <1>2 DEF Guns
  <1>4. /\ gun'.sent = <<>> /\ gun'.next = gun.next /\ gun'.state = gun.state
        /\ gun'.elapsed = gun.elapsed /\ gun'.rounds = gun.rounds /\ gun'.misfire = gun.misfire
    BY <1>1 DEF Guns
  <1>5. gun' \in Sound /\ gun'.rounds >= gun.rounds
    BY <1>1, <1>3, <1>4 DEF Sound, Guns
  <1>6. TypeOK'
    BY <1>1, <1>2, <1>5 DEF Receive, Inv, TypeOK, Sound
  <1>7. FireIsAsked' /\ InFire'
    BY <1>1, <1>4 DEF Inv, FireIsAsked, InFire
  <1> QED
    BY <1>5, <1>6, <1>7 DEF Inv

LEMMA TailOfMessages ==
    ASSUME NEW s \in Seq(States), s # <<>>
    PROVE  /\ Head(s) \in States
           /\ Tail(s) \in Seq(States)
           /\ Tail(s) = <<>> => Last(s) = Head(s)
           /\ Tail(s) # <<>> => Last(Tail(s)) = Last(s)
  <1> DEFINE t == Tail(s)
  <1>1. Len(s) \in Nat \ {0} /\ Head(s) = s[1] /\ s[1] \in States
    OBVIOUS
  <1>2. /\ t \in Seq(States) /\ Len(t) = Len(s) - 1
        /\ \A i \in 1..Len(s) - 1 : t[i] = s[i + 1]
    OBVIOUS
  <1>3. Last(s) = s[Len(s)] /\ Last(t) = t[Len(t)]
    BY DEF Last
  <1> HIDE DEF t
  <1>4. ASSUME t = <<>> PROVE Last(s) = Head(s)
    <2>1. Len(t) = 0
      BY <1>4
    <2>2. Len(s) = 1
      BY <1>1, <1>2, <2>1
    <2> QED
      BY <1>1, <1>3, <2>2
  <1>5. ASSUME t # <<>> PROVE Last(t) = Last(s)
    <2>1. Len(t) \in Nat \ {0}
      BY <1>2, <1>5
    <2> QED
      BY <1>1, <1>2, <1>3, <2>1
  <1> QED
    BY <1>1, <1>2, <1>4, <1>5 DEF t

LEMMA HandleStep == Inv /\ Handle => Inv' /\ gun'.rounds >= gun.rounds
  <1> SUFFICES ASSUME Inv, Handle PROVE Inv' /\ gun'.rounds >= gun.rounds
    OBVIOUS
  <1>1. gun \in Sound /\ events \in Seq(States) /\ events # <<>> /\ phase = "events"
        /\ events' = Tail(events) /\ phase' = "events" /\ active' = active
    BY DEF Inv, TypeOK, Handle
  <1>2. PICK spare \in BOOLEAN : gun' = OnStateSwitch(gun, Head(events), spare)
    BY DEF Handle
  <1>3. Head(events) \in States /\ events' \in Seq(States)
    BY <1>1, TailOfMessages
  <1>4. Passes(gun, gun') /\ gun'.state = Head(events)
    BY <1>1, <1>2, <1>3, Switches
  <1>5. gun' \in Sound /\ gun'.rounds >= gun.rounds
    BY <1>4 DEF Passes
  <1>6. TypeOK'
    BY <1>1, <1>3, <1>5 DEF Handle, Inv, TypeOK, Sound
  <1>7. FireIsAsked'
    <2> SUFFICES ASSUME gun'.next = "fire"
                 PROVE  /\ active'
                        /\ gun'.sent = <<>>
                        /\ \/ gun'.state = "fire" /\ events' = <<>>
                           \/ events' # <<>> /\ Last(events') = "fire"
      BY <1>1 DEF FireIsAsked
    <2>1. gun.next = "fire" /\ gun'.sent = gun.sent
      BY <1>4 DEF Passes
    <2>2. active /\ gun.sent = <<>> /\ Last(events) = "fire"
      BY <1>1, <2>1 DEF Inv, FireIsAsked
    <2> QED
      BY <1>1, <1>4, <2>1, <2>2, TailOfMessages
  <1>8. InFire'
    BY <1>1 DEF InFire
  <1> QED
    BY <1>5, <1>6, <1>7, <1>8 DEF Inv

LEMMA UpdateCLStep ==
    ASSUME Inv, NEW ends \in BOOLEAN, UpdateCL(ends)
    PROVE  Inv' /\ gun'.rounds >= gun.rounds
  <1>1. gun \in Sound /\ phase = "events" /\ events = <<>> /\ events' = <<>>
        /\ active' = active
    BY DEF Inv, TypeOK, UpdateCL
  <1>2. PICK idles \in BOOLEAN, moves \in BOOLEAN, n \in 0..(MagazineSize - gun.elapsed) :
            StateUpdate(IdleStateChanges(Bores(
                IF ends THEN MotionEnds(gun, n) ELSE gun, idles), moves))
    BY DEF UpdateCL
  <1> DEFINE e == IF ends THEN MotionEnds(gun, n) ELSE gun
             b == Bores(e, idles)
             i == IdleStateChanges(b, moves)
  <1>3. Keeps(gun, e) /\ e \in Sound
    <2>1. CASE ends
      <3>1. gun.motion # "none"
        BY <2>1 DEF UpdateCL
      <3> QED
        BY <1>1, <1>2, <2>1, <3>1, MotionEnded DEF Keeps, Passes
    <2>2. CASE ~ends
      BY <1>1, <2>2, KeepsItself
    <2> QED
      BY <2>1, <2>2
  <1> HIDE DEF e
  <1>4. Keeps(e, b) /\ b \in Sound
    BY <1>3, IdleMoves DEF Keeps, Passes
  <1> HIDE DEF b
  <1>5. Keeps(b, i) /\ i \in Sound
    BY <1>4, IdleMoves DEF Keeps, Passes
  <1> HIDE DEF i
  <1>6. Keeps(gun, i)
    BY <1>1, <1>3, <1>4, <1>5, KeepsOn
  <1>7. /\ Keeps(i, gun')
        /\ \/ phase' = "update"
           \/ phase' = "firing" /\ gun'.rounds > 0 /\ i.next = "fire" /\ i.state = "fire"
    BY <1>2, <1>5, StateUpdates DEF e, b, i
  <1>8. Keeps(gun, gun') /\ gun' \in Sound
    BY <1>1, <1>6, <1>7, KeepsOn DEF Keeps, Passes
  <1>9. TypeOK'
    BY <1>1, <1>7, <1>8 DEF UpdateCL, Inv, TypeOK, Sound
  <1>10. FireIsAsked'
    BY <1>1, <1>8 DEF Inv, FireIsAsked, Keeps, Passes
  <1>11. InFire'
    <2> SUFFICES ASSUME phase' = "firing"
                 PROVE  active' /\ gun'.state \in Settled /\ gun'.rounds > 0
      BY DEF InFire
    <2>1. gun'.rounds > 0 /\ i.next = "fire" /\ i.state = "fire"
      BY <1>7
    <2>2. gun.next = "fire" /\ gun'.state = "fire"
      BY <1>6, <1>7, <2>1 DEF Keeps, Passes
    <2>3. active
      BY <2>2 DEF Inv, FireIsAsked
    <2> QED
      BY <1>1, <2>1, <2>2, <2>3 DEF Settled
  <1> QED
    BY <1>8, <1>9, <1>10, <1>11 DEF Inv, Keeps, Passes

LEMMA FireOnStep ==
    ASSUME Inv, FireOn
    PROVE  Inv' /\ active
  <1> DEFINE t == FireTrace(gun)
  <1>1. gun \in Sound /\ phase = "firing" /\ active /\ gun.state \in Settled /\ gun.rounds > 0
        /\ events = <<>> /\ events' = <<>> /\ active' = active /\ Shoot(t)
    BY DEF Inv, InFire, TypeOK, FireOn
  <1>2. t \in Sound /\ t.state = gun.state /\ t.next = gun.next /\ t.sent = gun.sent
    BY <1>1, Traces
  <1> HIDE DEF t
  <1>3. Keeps(t, gun') /\ (phase' = "update" \/ (phase' = "firing" /\ gun'.rounds > 0))
    BY <1>1, <1>2, Shoots
  <1>4. gun' \in Sound /\ gun'.state = gun.state
        /\ (gun'.next = "fire" => gun.next = "fire" /\ gun'.sent = gun.sent)
    BY <1>2, <1>3 DEF Keeps, Passes
  <1>5. TypeOK'
    BY <1>1, <1>3, <1>4 DEF FireOn, Inv, TypeOK, Sound
  <1>6. FireIsAsked'
    BY <1>1, <1>4 DEF Inv, FireIsAsked
  <1>7. InFire'
    BY <1>1, <1>3, <1>4 DEF InFire
  <1> QED
    BY <1>1, <1>4, <1>5, <1>6, <1>7 DEF Inv

LEMMA NextInv ==
    ASSUME Inv, [Next]_vars
    PROVE  Inv' /\ (gun'.rounds < gun.rounds => active)
  <1>0. gun.rounds \in Nat
    BY DEF Inv, Sound, Guns
  <1>1. ASSUME Inv', gun'.rounds >= gun.rounds PROVE ~(gun'.rounds < gun.rounds)
    <2>1. gun'.rounds \in Nat
      BY <1>1 DEF Inv, Sound, Guns
    <2> QED
      BY <1>0, <1>1, <2>1
  <1>2. CASE Call
    BY <1>1, <1>2, CallStep
  <1>3. CASE Input
    BY <1>1, <1>3, InputStep
  <1>4. CASE Update
    BY <1>1, <1>4, UpdateStep
  <1>5. CASE Receive
    BY <1>1, <1>5, ReceiveStep
  <1>6. CASE Handle
    BY <1>1, <1>6, HandleStep
  <1>7. CASE UpdateCL(TRUE) \/ UpdateCL(FALSE)
    BY <1>1, <1>7, UpdateCLStep
  <1>8. CASE FireOn
    BY <1>8, FireOnStep
  <1>9. CASE UNCHANGED vars
    BY <1>0, <1>9 DEF vars, Inv, TypeOK, FireIsAsked, InFire
  <1> QED
    BY <1>2, <1>3, <1>4, <1>5, <1>6, <1>7, <1>8, <1>9 DEF Next, Frame

-----------------------------------------------------------------------------
(* A cartridge is counted only if it is in the magazine, and the magazine   *)
(* is not empty when a shot takes one out, whatever jams, reloads, messages *)
(* and calls follow each other, however many shots one frame has time for.  *)
(* The count itself may go below zero.                                      *)
THEOREM TypeCorrect == Spec => []TypeOK
  <1>1. Inv /\ [Next]_vars => Inv'
    BY NextInv
  <1>2. Inv => TypeOK
    BY DEF Inv
  <1> QED
    BY InitInv, <1>1, <1>2, PTL DEF Spec

(* No shot by a weapon that is not in the hands.                            *)
THEOREM ShotOnlyInHands == Spec => ShotInHands
  <1>1. Inv /\ [Next]_vars => Inv'
    BY NextInv
  <1>2. Inv /\ [Next]_vars => [gun'.rounds < gun.rounds => active]_vars
    BY NextInv
  <1> QED
    BY InitInv, <1>1, <1>2, PTL DEF Spec, ShotInHands
=============================================================================
