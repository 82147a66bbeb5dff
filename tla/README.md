# Models of the STSoC engine

TLA+ modules for the parts of the engine in `src/ogsr_engine` whose correctness
depends on the order in which things happen: the server's entity table and the
ownership of items, the switching of objects between online and offline, the
message queue between the in-process server and its client, the id generator,
the scheduler, the client's object list, the frame with its two threads and
registrators, the paths that the second thread builds, the actor's inventory, and
the weapon in the actor's hands.
The game runs as a single player game only: server and
client live in one process, the network is a direct call, and there is one main
loop.  What makes it hard all the same is that the client acts on a view that
lags behind the server's by up to a frame, that ids are used again, that game
code runs in the middle of almost every loop, and that containers are changed
while they are being walked through.

Paths below are relative to `src/ogsr_engine`.

## 1. Inventory

| Component | State it keeps | Operations | Modelled by |
|---|---|---|---|
| Entity table of the server (`xrGame/xrServer*.cpp`, `game_sv_single.cpp`) | `entities`, the ids in use, `ID_Parent` and `children` of each entity | `Process_spawn`, `Process_event_ownership`, `Process_event_reject`, `Process_event_destroy`, `Perform_destroy`, `entity_Destroy`; `OnCreate`, `OnTouch`, `OnDetach` of the single player game | `ServerEntities` |
| ALife object registry and switching (`xrGame/alife_*.cpp`) | `m_objects`, `m_bOnline` | `spawn_item`, `release`, `add_online`, `remove_online`, `add_online_impl`, `add_offline_impl` | `ServerEntities` |
| Id generator (`xrGame/id_generator.h`) | blocks of free ids with the time of their last return | `tfGetID`, `vfFreeID` | `IdGenerator`, abstractly `IdPool` |
| Client (`xrGame/Level*.cpp`, `NET_Queue.h`) | net queue, `game_events`, `m_just_destroyed` | `ClientReceive`, `ProcessGameEvents`, `cl_Process_Spawn`, `g_sv_Spawn`, `cl_Process_Event`, `OnFrame` | `GameSession` |
| Client objects and owners (`xr_3da/xr_object*.cpp`, `xrGame/InventoryBox.cpp`, `Inventory.cpp`, `ai/stalker/ai_stalker_events.cpp`) | `map_NETID`, `destroy_queue`, `CObject::Parent` | `net_Register`, `setDestroy`, `ProcessDestroyQueue`, `H_SetParent`, take and reject of stalkers and boxes | `GameSession` |
| Client object list (`xr_3da/xr_object_list.cpp`, `xr_object.cpp`) | `objects_active`, `objects_sleeping`, the two crow lists, `destroy_queue`; of an object `Props.crow`, `bDestroy`, `dwFrame_UpdateCL`, `Parent` | `Update`, `SingleUpdate`, `o_activate`, `o_sleep`, `MakeMeCrow`, `setDestroy`, `ProcessDestroyQueue`, `net_Spawn` | `ObjectList` |
| Scheduler (`xr_3da/xrSheduler.cpp`, `ISheduled.cpp`) | `ItemsRT`, the heap `Items`, `ItemsProcessed`, `Registration` | `Register`, `Unregister`, `internal_Registration`, `ProcessStep`, `Update` | `Scheduler`, abstractly `ScheduleRegistry` |
| Frame loop and second thread of the device (`xr_3da/device.cpp`) | `seqParallel`, `seqFrameMT`, the auto-reset events of the handoff, `mt_bMustExit`, `g_loading_events` | `message_loop`, `on_idle`, `FrameMove`, the handoff of a frame, `WaitEx`, exit; `remove_from_seq_parallel` | `FrameLoop`; `seqParallel` in `PathBuilding` |
| Movement managers and path builders (`xrGame/movement_manager*.cpp`, `*_path_builder.h`) | `m_path_state`, `m_wait_for_distributed_computation` | `update_path`, `set_path_type`, `clear_path`, `on_restrictions_change`, `build_special`, the path builders' jobs | `PathBuilding` |
| Frame registrators (`xr_3da/pure.h`) | the sorted list, `in_process`, `changed` | `Add`, `Remove`, `Process`, `Resort` | `FrameLoop` |
| ALife graph, level and schedule registries, online groups (`xrGame/alife_*_registry.cpp`) | lists of objects per vertex of the graph, on the level, of what is scheduled | `add`, `remove`, `change`, `assign`, `update` | not modelled |
| Inventory slots, belt and ruck (`xrGame/Inventory.cpp`, `ui/uiinventorywnd2.cpp`, `Actor_Events.cpp`) | three containers, the place of each item and the slot it is meant for, active and next slot, the processing counter | `Slot`, `Belt`, `Ruck`, `Take`, `DropItem`, `Activate`, `Update`; `ToSlot`, `ToBag`, `ToBelt` of the window | `Inventory` |
| Weapons and blocked slots (`xrGame/HudItem.cpp`, `Weapon*.cpp`, `Inventory.cpp`) | state and next state of a weapon, its motion, magazine, `IsPending()`, `m_blockCounter`, `m_iPrevActiveSlot` | `SwitchState`, `OnStateSwitch`, `OnAnimationEnd`, `state_Fire`, keys; `Activate`, `SetSlotsBlocked`, `Update` of the inventory | `Weapon` |

`PROJECT.json` lists the rest (renderers, sound, physics, user interface, file
system, vendored libraries) with the reason each is left out.

### How they interact

* Game code on the client asks (`GE_OWNERSHIP_TAKE`, `GE_OWNERSHIP_REJECT`,
  spawn requests, `GE_DESTROY`); the server handles the request inside the call
  and answers with broadcasts, which go to the client's net queue.
* `CLevel::OnFrame` moves the net queue to `game_events` and drains it; each
  event is applied to the client's objects.  Event handlers and scripts run
  in the middle of the drain and may ask again.
* `ALife` switches objects online and offline from an update of its own.  With
  `mtALife` (the default) it runs on the second thread, between the two events
  of the frame handoff, while the main thread renders: never together with the
  drain.  The scheduler, the other place it is called from, is updated outside
  of the drain too.  Hence the guard `phase = "play"` of `ALife`.
* The server frees the id of whatever it destroys at once; the generator
  decides when that id is new again.  The client may have an object under that
  id until the end of the frame that handles its `GE_DESTROY`.
* A movement manager that needs a path queues a job in `seqParallel`; the second
  thread runs the list while the main thread renders, and changes the manager.
  Objects remove their jobs when they are destroyed.
* A frame begins with the window's messages (`message_loop`); then the primary
  thread calls the callbacks of `seqFrame`, among them the level with the drain,
  the scheduler and the object list, sets `syncProcessFrame`, renders, and waits
  for `syncFrameDone`.  The second thread calls `seqParallel` and `seqFrameMT` in
  between.  Loading events replace the frame altogether.  The wait pumps the
  window's messages too: a change of activation runs the callbacks of
  `seqAppActivate` and `seqAppDeactivate` beside the second thread.
* The object list updates its crows once a frame; whoever is in nobody's hands,
  near the camera or scheduled becomes one.  Destruction is a mark first
  (`setDestroy`), a queue next and `net_Destroy` at the end of the update.
* A weapon changes its state by a message to itself (`GE_WPN_STATE_CHANGE`): sent
  by a key, it is back in the same frame, sent by the end of a motion in
  the next one.  The inventory sets the state directly when it draws the weapon
  or puts it away, and looks at it to know when the hands are free.
* Objects on the client register with the scheduler while they are alive and
  unregister in their destructors, possibly from another object's update.

### What is hard, and what must hold

* *Table and forest.*  Two records of the same relation (`ID_Parent`,
  `children`), changed by six handlers and by ALife, which empties, saves and
  fills child lists while it moves subtrees.  They must agree, no child may be
  listed twice, an id must be in use exactly while somebody has an object under
  it, and ALife's idea of who is online must be the server's.
* *Client and server.*  What is under way between them can be overtaken by a
  destruction, a switch, a refusal, an id that is used again.  When all is
  handled they must agree, no item may point to an owner that is gone, no take
  may reach the client before the reject it follows, no two objects may have one
  id, and the client must catch up.
* *Ids.*  No id in two hands, none lost, and one that was freed must rest.
* *Scheduler.*  Updates register, unregister and raise exceptions while the
  loop walks.  No object may be in the loop twice, run twice a frame, run after
  its owner is gone, be forgotten, or starve; the loop must end.
* *Object list.*  Objects wake, sleep, change hands, are marked and spawned again
  while the lists they are in are walked through, and one flag stands for two
  lists.  No list may keep an object that is gone, nobody awake may be left out,
  and children must go before their parents.
* *Frame.*  Callbacks add and remove callbacks of the list that is being called,
  and of lists that belong to the other thread.  The second thread must not work
  while the primary one handles messages or moves the frame on, each pass must call whoever is registered once
  and in order, and the program must end when it is told to.
* *Inventory.*  The window moves an item at once and again when its message is
  back; takes, rejects and thrown away items come in between.  An item must be in
  the container its record names, be processed while it is in use, and leave
  when it was thrown away.
* *Weapon.*  Two records of what a weapon does, the state and the next one, set at
  once by some and by messages by others; keys, calls of scripts and ends of motions come in
  any order, and each shot calls scripts back before its cartridge is gone.  It
  must not fire out of the hands, each change of hands must end,
  keys must not be ignored for ever, no cartridge may be counted that is
  not there, and no shot may take one from an empty magazine.
* *Paths.*  Targets, path types and restrictions change, and objects go, while a
  job is queued; two builders share one wait flag.  Who waits must have a job to
  come, no job may outlive its object, and what a job leaves behind must suit
  the path that is wanted by then.

## 2. Plan

Done, in this order:

1. `ServerEntities` with `ServerEntitiesProofs`: the centre of the game.
2. `Scheduler`, refining `ScheduleRegistry`, with `SchedulerProofs`.
3. `GameSession`, composing `ServerEntities` with the client and the messages; that
   it does, keeps what `ServerEntities` guarantees, and what the client may rely on,
   is in `ServerEntitiesProofs`.
4. `IdGenerator`, refining `IdPool`, with `IdGeneratorProofs`.
5. `PathBuilding` with `PathBuildingProofs`: the managers of paths and the second
   thread's list of jobs.
6. `Inventory` with `InventoryProofs`: the actor's containers, under the window and
   its late messages.
7. `ObjectList` with `ObjectListProofs`: lists that change while they are walked
   through.
8. `FrameLoop` with `FrameLoopProofs`: the two threads, and the registrators.
9. `Weapon` with `WeaponProofs`: drawing, firing and blocking.

Left:

10. The graph, level and schedule registries of ALife under switches, location
   changes and releases, and the online groups.

## 3. Modules

### ServerEntities

`used` is what the id generator has given out, `entities` the keys of
`xrServer::entities`, `objects` those of `CALifeObjectRegistry`, `online` the
flag `m_bOnline`, `parent` and `kids` the two records of ownership; `kids` is a
bag, so that a child listed twice can be told from one listed once.  One action
per operation: `ProcessSpawn`, `ProcessOwnership`, `ProcessReject`,
`ProcessDestroy` for the server's handlers, `SpawnItem` and `Release` for ALife
acting on offline objects, `AddOnline` and `RemoveOnline` for switches.  An
action is the whole handler with what it calls: `RemoveOnline` does what
`Perform_destroy`, the rejections in it, `OnDetach`, `PerformIDgen` and
`add_offline_impl` do together.

Classes of objects matter by three facts only, given per id: what it may own,
whether `can_save()` holds, and whether its class carries its children online
and offline (`Boxes`).  `Disciplined` names what `remove_online` relies on and
nothing in the code checks: savable items lie directly in an owner of that kind,
which lies in nothing.

### GameSession

Extends `ServerEntities` with the client (`present`, `dying`, `holder`,
`justDestroyed`) and two queues (`wire`, `events`).  The server's actions are
those of `ServerEntities` with the broadcasts they send, in the order of the
code: a destruction sends its event pack children first (`Dismantled`), a switch
to offline rejects and destroys from the top (`TakenApart`).  Each is the set of
the orders in which the code may send the farewells of a subtree: what concerns
an object and all below it is sent in one piece that ends with its destruction,
and siblings go in any order, as the child lists have no order of their own here.  Game code may act
at any time, by the client's view; ALife outside of the drain; and
`ClientReceive`, the handlers and `EndFrame` are the frame.

Owners are stalkers, which may refuse an item (`CanTakeItem`), or boxes, which
do not.  An assertion that fails ends the program: `failed` names it, and nothing
happens afterwards.  Some of them can fail in this model, as in the program, see
section 6.

`Rested` is the interface to the id generator.  `quickReuse` is chosen at the
start, from `Reuse`: if it is `TRUE` an id may be new again at once; if it is
`FALSE` the id is new again only when no message and no client object has it.  The generator promises something in between
(`RestsLongest` of `IdGenerator`): an id comes back after all that rested longer.

### IdGenerator

`free` is the stack of each block, `stamp` its time, `available` the count of
blocks that have an id; `held` is what the callers have.  `GetFresh`,
`GetGiven`, `FreeObject` and `FreeMarker` are the calls; `SpawnIntoOnline` is
the script's way of spawning into an online owner, which takes a new id, frees
it with the time 0 and asks for it again.  `ahead` and `hurried` are history
variables for `RestsLongest`.

### Scheduler

`itemsRT`, `items`, `processed` and `pending` are the four containers; `pc`,
`it`, `i` and `current` say where the loop stands.  An owner's call is possible
between frames and within a `shedule_Update`, so it may interleave with the loop
at every point where the code hands control out.  An update may raise an exception,
after which its item is dropped (`NormalFault`), and so may the question whether it is needed
(`NeededFault`), after which the loop begins again with the same item: an object
for which the question fails for ever holds the loop for ever, so the step has no fairness, and
that it is not taken for ever is assumed.  The heap is a sorted sequence,
and times are counted in frames until due.  Which objects are real time ones
(`realTime`) is chosen at the start.  `owned`, `dropped` and `updated` are
history variables.  `ScheduleRegistry` is what an owner sees: a set of
registered objects, of which each is updated at most once a frame, and nobody
outside of it.

"Registered" has two readings, and the model keeps them apart.  `Effective` is what
takes part in the loop, the object in its update included; the refinement uses it.
`Registered` is what `CSheduler::Registered` counts: the three containers and what is
pending, and not the object that is being updated, which `ProcessStep` has taken out of the
heap (`Unheld`).  `RegistryKept` says that nothing is in the loop twice and that
the count is one for exactly the objects that their owners registered, except for what
the loop dropped and for an object that is unheld.  The exception is what
`UnregisterVerified` (section 6) is about.

### Subsequences

`Remainders` is what `std::remove` and `erase` leave of a vector, given the indexes
of what is kept.  `PathBuilding` uses it for the jobs that are removed and
`ObjectList` for the crows.  What is left is the one member of a set, described by the order
of its indexes instead of computed step by step; so it can be reasoned about without
an induction.

### PathBuilding

`man` is what the properties need of each `CMovementManager`: the type of path,
the state, the flags, and whether its level path, its intermediate game vertex
and its intermediate index are valid.  `jobs` is `seqParallel` and `next` the
position of the second thread in it, 0 between `syncFrameDone` and
`syncProcessFrame`, when game code runs.  `UpdatePath` is one call of
`update_path`: the restart of a path that is not actual (`Restarted`), the
checks before the switch (`Checked`), and the switch with its falling through
(`Process`).  `SetPathType`, `SetTarget`, `BuildSpecial`, `ClearPath`,
`OnRestrictionsChange`, `NetSpawn`, `SetDestroy` and `NetDestroy` are what game
code does to a manager in between; `RunJob` is `process` of a builder.

Whether a path that exists is still actual depends on positions, masks and
restrictions; it may turn inactual at any time.  Searches may fail at any time.

`clear_path` deserves attention: it tells the detail path builder only to remove
its job, but what it clears is the flag of both.  A level job stays in the list
while its manager goes on, may queue another one, change its type of path, or
give it up; the job then sets `m_path_state` to a state of its own.  `StateFitsType` and
`DetailFitsLevel` say that this does no harm, and it is the checks before the
switch that see to it.

### ObjectList

`list` is `CObjectList` with what its objects record of themselves: the active
and the sleeping objects, the two crow vectors and which of them is current, the
flags of the objects, and the destroy queue; `work` is what is left of the
workload of `Update`.  Game code acts between updates (`Spawn`, `SheduleUpdate`,
`Render`, `Toggle`, `Take`, `Reject`, `DestroyEvent`) and inside of the
`UpdateCL` of an object, where the object handler of a stalker moves items when
it is not left to the second thread.  `RemoveObjects` is the end of a level:
everything is destroyed in updates that make nobody a crow.  The destroy queue is
processed in one step: no object is queued twice, so what is left of the lists
does not depend on the order.  An entry that
outlives its object is `Freed`; what the program does with it is not followed
any further.  `asked`, `missed` and `moved` are history variables.

### FrameLoop

`reg` is a registrator per list, `pos` and `running` where its pass stands;
`main` and `second` are the program counters of the two threads, `signal` the
events that are set, `quit` what became of `WM_QUIT`.  A pass is
`BeginPass`, `PassStep`, `Return`, `EndPass`; between `PassStep` and `Return`
the callback runs and may do whatever `GameCodeStep` says: add and remove
callbacks, post `WM_QUIT`, queue a loading event.  `Activate` is `WM_ACTIVATE` in
`message_loop`, `WaitTimeout` a wait whose time runs out: `WaitEx` then dispatches what it
finds, which loses `WM_QUIT` and runs the callbacks of a change of activation in the
place "waitActivation", while the second thread works.  These callbacks are game code
like any other; the two registrators they are in are not lists of their own here.
  Entries of equal priority may
end in any order, as `qsort` leaves them.

### Inventory

`ruck`, `belt` and `slots` are the containers, `place` is `m_eItemPlace`,
`chosen` is `GetSlot()`, `processing` is `Props.bActiveCounter`, which counts who
wants an object to be processed every frame.  The functions of the code call each other, so
the operators `Slot`, `Belt`, `Ruck`, `Take`, `DropItem` and `Activate` take the
variables as a record and return it, and an action is one call from outside:
`TakeItem` and `Receive` for `CActor::OnEvent`, `DragToSlot`, `DragToBag` and
`DragToBelt` for the window, `ThrowAway` for its mark, `ActivateSlot` for keys
and scripts, and `Update` for the actor's scheduled update.  The window's moves
send the message that repeats them; it is handled when the item may be elsewhere
or nobody's.  What the weapon in the hands is doing (`HandStates`) is chosen
anew in every step, which includes everything a weapon may do.

What is asked of an item without a place (`RuckDefault`, the feature
`ruck_flag_preferred`) and of its owner (an `m_tmp_next_item_slot` of 0) is whether
`Take` may use the slot or the belt; every answer is possible in every take.

An item that a late message puts back into a container after it was dropped
stays there without an owner until it is taken again; `HeldOnce` holds for it
too, which is why the next take does no harm.  If it was thrown away twice it is
marked as well: `DropTasks` then clears the mark and sends nothing, where
`UpdateDropItem` would ask for the id of an owner it does not have
(`Inventory.cpp:756`).

### Weapon

`gun` is the weapon with what it has sent, `events` the messages of this frame;
`active`, `chosen` and `previous` say whether the three slot numbers of the
inventory are the weapon's slot or none, and `blocks` is the slot's
`m_blockCounter`.  A frame is the actor's scheduled update (`Update`), keys
(`Input`), the client's drain (`Receive`, `Handle`) and the weapon's
`UpdateCL`, in this order; scripts, and whatever else blocks slots, act at any point
(`Call`).  The functions of the code are operators on the record of the weapon,
or on that of the inventory, under their names: `OnStateSwitch`, `OnAnimationEnd`,
`CheckForMisfire`, `Activate`, `SlotBlocked`.  Of a motion the model keeps for which
state it was begun; it may end in any `UpdateCL`, and so may the 20 seconds
after which the actor gets bored, or the interval between two shots.

`state_Fire` is a loop that fires as often as the frame has time for (`due`, the shots
until `fTime` is positive again), and each shot calls scripts back between `OnShot` and
`FireTrace`.  So it is several steps: `UpdateCL` runs it up to the first callback,
the phase "firing" is the callback, in which `Call` is possible, and `FireOn` takes the
cartridge and goes on up to the next callback or the end (`FireDone`).  The count is
looked at once before the loop (`StateUpdate`); the loop looks at the magazine
(`MayShoot`).

A weapon that is pending ignores most keys; a message that comes late reaches
it always.  Hence the properties.  Stated more strongly they do not hold,
and TLC shows why:

* A slot that is blocked between `Activate` and the inventory's update does not keep
  the weapon from being drawn.
* A weapon that was put away is brought back to the state `eIdle` by the message of a
  motion that ended before, though not into the hands.
* Hiding the weapon and restoring it within one frame leaves it put away:
  `SetSlotsBlocked` looks at `eHiding`, which comes with the message.
* The fire key in the frame of the holster key still fires, from the hands, while
  the weapon is on its way out of them.  `ShotInHands` is what holds.
* The unjamming of a second misfire without a shot in between takes a cartridge off the
  count, which stays in `m_magazine` (`MyLittleMisfire`); with a count of 1 and two
  cartridges, two shots in a long frame take the count to -1.  `TypeOK` says that the
  count is never the larger one, so that a magazine with a count is never empty
  (`VERIFY(!m_magazine.empty())`, `WeaponMagazined.cpp:621`), and that no shot takes a
  cartridge from an empty one.
* A script that puts the weapon away in the callback of a shot does not stop the
  loop: further shots of the frame are fired in the state `eHidden`, though still from
  the slot in the hands.
* `eBore` has no end of its own: `CWeaponMagazined::OnAnimationEnd` does not call the
  one of `CHudItem`, which has a case for it.

## 4. Runs

An operator named after another with an underscore (`Ruck_AlwaysDeactivates`)
is a plausible error in it: put in its place, it makes a property of a run fail.

| Run | Instance | Shows |
|---|---|---|
| `server_entities` | three owners, a launcher with its rocket, a bolt | table, forest, ids and ALife agree after every step |
| `nested_containers` | box, container, item | a violation, section 6 |
| `scheduler` | three objects, one or all of them real time, the budget looked at after each, two queued operations | once in the loop, what the scheduler counts is what owners asked for, `ScheduleRegistry` is implemented, no starvation |
| `session` | stalker, box, item; ids new at once with three messages, rested with five | never two objects with an id, never a take of an item somebody has, owners exist, client and server agree, the client catches up |
| `dropped_by_holder` | as `session`, rested ids | a violation, section 6 |
| `object_list` | a stalker and its item | lists and objects agree, no stale crow, nobody left out twice, children before parents |
| `frame_loop` | a callback per frame, a level and a cursor to render, one on the second thread; two, three and one entries | the second thread works only while the primary one renders or waits, each called once and in order, `WM_QUIT` ends the program |
| `path_building` | a stalker with all types of path, a monster that may want a path at once; three jobs | no job outlives its object, the state suits the path, waiting ends |
| `inventory` | a rifle for two slots, a device for the second or the belt, two messages | one container, the recorded one; processed while in use; hands let go; thrown away items leave |
| `processing_overflow` | an artefact and the belt | a violation, section 6 |
| `id_generator` | five ids in blocks of two, times up to 2 | exact count, `IdPool` is implemented (each id once), ids rest longest |
| `weapon` | three cartridges, with and without autoreload and unjamming; one block, two messages, two shots in a frame | no cartridge that is not there, no shot out of the hands, changes of hands and pending states end |

**Bounds.**  `server_entities`: six ids allow each class that differs, and trees
of the greatest depth that the classes give; nothing else is bounded.
`GameSession`: `MaxQueue` bounds what is under way.  A destruction of an owner
with an item is three messages, so five let it overlap with
a spawn, take or reject before and after; with ids that are new at once three show
how two objects meet under one id, and what is claimed of these for any number of messages is
proved; an item, two owners and ids that come
back are what it takes for one message to be overtaken by the end of another
object with the same id.  `Scheduler`: `MaxPending` bounds the queue of
registrations (a pair is enough to cancel), `MaxWait` the frames an item waits
(one that is due and one that is not is all the heap's order tells apart);
`Period` is 3 in the code and 1 here, so that two heap objects can exceed the
budget.  Three real time objects are one that runs, one it erases before itself
and one that is passed over.
`ObjectList`: a parent and its child are all that the order of destruction and
of updates relates; nothing else is bounded.  Three objects exceed what can be
enumerated; the first 3.5 million states of that instance show nothing new.
`FrameLoop`: two callbacks that render, one with the cursor's priority, make
each kind of disorder; `MaxEntries` ends the growth that hazard
`UICursor.cpp:9` describes.
`PathBuilding`: a stalker and a monster differ in `clear_path`
and `build_special`; three jobs are a forgotten one, its successor and another
manager's.  `Inventory`: two items that
share a slot, one of which has a second slot and the other the belt, give every
pair of containers and an item in the way of another; `MaxEvents` lets the window act
once more while a message is under way, and a forced move makes four;
an item is not moved while its counter is at `MaxProcessing`, which the cycle of section 6
would otherwise raise for ever.  `processing_overflow` has the full counter.
`Weapon`: three cartridges are a shot that leaves one, a jam that needs two, and a full magazine;
`MaxBlocks` 1 is a slot that is free or blocked, all that is ever asked of the
counter; two messages are one that is overtaken by another; `MaxSurplus` ends
the growth of what `MyLittleMisfire` does not take out.  `MaxShots` 2 is a shot with one
after it: the device cuts a frame's time to a tenth of a second (`device.cpp:437-438`), so
there is a largest number for each weapon, and three are two and one more.  All
these bounds are in guards or choices, and the proofs hold for any value of them.
`IdGenerator`: five ids in blocks of two give two full blocks and a short one;
`MaxTime = 2` gives the time 0 of markers and two more.  The clock is 32 bits of
milliseconds in the code; its wrap after 49 days is not reached.

**Fairness.**  `Weapon`: weak fairness of `Frame`, and strong fairness of an
`UpdateCL` that ends a motion: a motion has a length, so one that is not replaced
over and over again ends.  This asks a little more than the code gives: a motion that game
code replaced in every single frame would never end, and here one does.  `Scheduler`: weak fairness of `Engine`: the main loop calls
`Update` in every frame and every `shedule_Update` returns.  Owners need do
nothing.  `NeededFault` may come any number of times, but not for ever.  `PathBuilding`: weak fairness of `Device`: the main loop hands frames
over for ever, and every job returns; no manager need ask for anything.
`FrameLoop`: weak fairness of each thread: both run, and every
callback returns; game code need do nothing, and nothing says that a wait lasts
longer than its 66 ms (`WaitTimeout` has no fairness) or that it does not.  Nor need a
window ever be activated (`Activate` has no fairness); strong fairness of
`TakeQuit \/ Idle` says that windows are not activated so fast for ever that `message_loop`
never gets to the end of its queue.
`Inventory`: weak fairness of `Update` and of `Receive`: the actor is updated and
messages come back as long as the game runs; the player need do nothing.
`GameSession`: weak fairness of `Frame`: `CLevel::OnFrame` is called
for ever, the drain loop goes on until `game_events` is empty and
the destroy queue is processed at the end of each frame.  Game code and ALife
have no fairness.  The session's configurations switch the deadlock check off,
because a failed assertion stops the program; so does `object_list`, which ends
with `remove_objects` or with memory that was freed.

## 5. Proofs

`ServerEntitiesProofs` proves, for all sets of ids and classes:

* `TypeCorrect`, `ChildListedOnce`, `NoTheft` (an object passes from one owner to
  another only by way of having none): without any assumption on
  what holds what.  `ChildListedOnce` needs a strengthening: what is not a
  parent's own child is listed by it not at all, so a link can only add the
  first entry.
* `MapVerified`, `NoIdLeaks`, `OnlineIsServed`: assuming `Disciplined`.  The
  inductive invariant adds to the stated ones that links never leave the set of
  ids in use, that parent and children lists describe one forest also among
  offline objects, and that only holders that may hold have children.  The
  subtree of a destruction is defined as a least closed set, and the lemmas about
  it (it contains its root, is closed, and what is in it but is not the root has its
  parent in it) carry the proof; under `Disciplined` a savable member of a subtree
  is the root or one of its children.
* `SessionServed`: a `GameSession` is a behaviour of `ServerEntities`, whatever the
  client believes; in particular an item that a stalker refuses is given back by a
  handler of the server.  `SessionVerified` draws the conclusion: the invariants
  of the server hold in the session, and no item is stolen there.
* `SessionTyped`: server, messages and client keep their types in every session.
* `NoDoubleRegistration` (`RegisteredOnce`), `NoTakeOfHeld` (`TakenWhenFree`),
  `NoDanglingHolder` (`HolderExists`) and `ClientAgreesWithServer` (`ClientAgrees`):
  what the client may rely on, for any ids, any bound on what is under way and every
  interleaving of game code, ALife and drain, assuming `Disciplined`.  The first one
  holds even if ids are new at once; the others claim something for ids that rest.

The invariant behind the last four (`ClientInv`) says that the messages under way are a
true history.  `Pending` is what was sent and not handled; `Views` is a table of
objects and owners before each of these messages and after the last one, in which each
message finds what it is about (`Before`) and leaves what it says (`After`), and no
table has an item without its owner.  The last table is the server's.

* `InSync`: there is such a history that begins with what the client has.  If ids are
  new at once this says only that the client has nothing the first table lacks, which
  is enough for `RegisteredOnce`.  If they rest, `Followed` says how far the two may
  differ: what the client holds is held so in the table; what the client lacks and the
  table has is going to be destroyed; and where the table has an owner and the client
  has none, as after a refusal, the rejection is under way.
* `Buried`: what is destroyed, now or by a message under way, is in no later table.
  So a destruction takes only the object and not what will be spawned in its place,
  and with `OwnersThere` nothing is left that has it as its owner.
* `SkipsEnd`: the spawn of an object that was just destroyed is skipped only if its destruction
  is still to come; otherwise the client would lack it for good.
* `LookedAtGone`: an object whose destruction is under way and that ALife has again was
  switched in this very update, so `add_online` does not spawn it before the client has
  let it go.  This is where the round of `CSSafeMapIterator` matters.
* `BetweenFrames` and `FreeUnlessPresent`: ALife and the arrival of messages find the client
  with its queue and its destroy queue empty; who is gone has no owner.

`Disciplined` is needed because a switch spawns an owner and the items that lie directly
in it: with one level more, items would be on the server's side only.  That the farewells
of a subtree make a history of this kind, in whichever order the code sends them, is the
longest part of the proof (`FarewellsTold`); it counts on ids being finite (they
are `u16`), which `IdsAssumption` says.

`IdGeneratorProofs` proves, for every number of ids, block size and clock:
`TypeCorrect`, `IdsOnce` (the generator has exactly the ids nobody has, each once),
`CountKept` (by the cardinality of the set of blocks
that have an id), `Implementation` (every step is a step of `IdPool` or
a stutter), and `LongestRest`.  The last one needs an invariant about the
history: what has been free for longer than `x` is free, lies in another block,
and, unless the block of `x` was hurried by a marker, that block's time is later.

`SchedulerProofs` proves, for all objects, kinds and periods:

* `TypeCorrect` and `RegistrationsKept` (`RegistryKept`): an object is in one container
  of the loop, once, and `CSheduler::Registered` counts one for what the owners
  registered, less what the loop dropped and less the object that is unheld, and none for
  everything else.  Of the operations that are pending for an object the count is
  the registrations less the removals, which is why it matters in the proof that they
  alternate (`Balanced`, `Counted`).  The strengthening
  follows an object from a call of its owner to the container it ends up in: the
  pending operations of one object alternate (`Alternate`), they begin with its
  removal if it is in the loop (`GoneFirst`), and there is none for what
  `Unregister` takes out of a container at once (`NothingPending`): without
  these `internal_Registration`, which adds without looking, would add twice.
  `KindsApart`, `OneContainer` and `Phases` say where an object may be at each
  point of `Update`, the one that is being updated (`current`) included.
* `Implementation`: every step is a step of `ScheduleRegistry` or a stutter.  An
  update of an object must be its first in the frame, for which `NotYet` says
  that what the loop has still to come to was not updated in this frame;
  and `internal_Registration` must change nothing that an owner can see, for
  which a registry is defined by the last operation that is pending for an object.

`PathBuildingProofs` proves, for all managers and lists of jobs of any length:

* `TypeCorrect`; `LivingJobs`: no job runs for an object that is gone;
  `DetailStillFits`: a detail job that waits finds its index within the level path of
  its manager, whoever built that path since;
  `SwitchesFit`: the switches of `update_path` meet only states they know, with the
  paths these need.  What `clear_path` forgets is what makes the invariant: a
  forgotten job is a stalker's level job, and its manager is in a state from which
  it does not come to a detail path in the same call (`Forgotten`, `Low`); so who has a
  detail job has no other job (`DetailAlone`).  `Good` is what every function
  leaves true of a manager.
* `WaitersServed`: who waits has a job that has not run yet.  This is what
  is left of the liveness property `WaitEnds` when the fairness of the second
  thread is taken away, and the part of it that game code could break.

`InventoryProofs` proves, for all items and slots.  An action is a chain of
functions from states to states; one record stands for the variables, and
each function has a lemma that says what it keeps.

* `TypeCorrect` and `Once` (`HeldOnce`), for which an item the actor
  has must be somewhere (`Owned`), and no item may be rejected twice
  (`RejectedOnce`): the second reject would take it from where it came to since.
* `Processed` (`EquippedProcessed`): the counter is never below the number of uses
  an item has now (`Uses`), nor above what it will be when all messages under way
  have arrived (`Charge`).  The theorem assumes that the bounds of the model, in
  their sum, are below the size of the counter (`NoWrap`).  The assumption is needed:
  the counter of the code has 8 bits, and `processing_overflow` (section 6) fills it.
  In the run `inventory` the sum is 6.
* `HandsLetGo` (`LetsGo`): when the item in the hands leaves its slot, the next
  `Update` does not leave that slot active.

`FrameLoopProofs` proves, for all lists, priorities and bounds:

* `ThreadsApart`: the second thread works only while the primary one renders or
  is in `WaitEx`, where it may be in a callback of `WM_ACTIVATE`.  The argument is that a frame is a token: it is with the second thread,
  or in `syncProcessFrame`, or in `syncFrameDone`, or nowhere, and never in two of these
  places (`Token`); while the primary thread renders or waits it is in one of
  them, and otherwise in none, unless the thread is to exit
  (`ExitingAtTheEnd`).  `InPlace` says that a pass over `seqFrame` happens in
  `FrameMove` only.  Nothing is assumed beyond the types of the constants.
* `TypeCorrect` and `InOrderOfPriority` (`CalledInOrder`).  A registrator is sorted and
  has no removed entry at its end (ahead of an entry like the cursor's it may have some), or is marked `changed` and in process (`Registrator`).  In a
  pass there is a boundary: up to it are the entries that were there when the
  pass began, in order, of which those ahead have still to be called; behind it is
  what callbacks added since (`Ahead`).  A pass over an empty list leaves
  `in_process` set, and then the next one claims no order (`unsorted`).

`WeaponProofs` proves, for every magazine, any number of messages under way
and any features:

* `TypeCorrect`: no more cartridges are counted than the magazine has, and no shot takes one
  from an empty magazine, however many shots a frame has time for.  The strengthening
  (`Sound`) is that the count is bounded by the magazine's size and that the loop, once
  begun, has a settled weapon with a cartridge under its hammer (`InFire`): the
  callback of a shot may block slots and activate others, but none of its calls
  touches the magazine.
* `ShotOnlyInHands`.  Each function of the weapon but `FireStart` leaves the next
  state `eFire` alone only if it sends nothing (`Passes`, `Keeps`); and whatever
  takes the weapon out of the hands sets another next state (`Leaves`).  So while
  `eFire` is the next state, the weapon is in the hands and the last message
  under way asks for it, or the last one handled did (`FireIsAsked`).

`ObjectListProofs` proves, for all objects, holders and handlers, each of the
invariants of the run, from one inductive invariant:

* `TypeCorrect`: the lists of objects agree with the fields of the objects, and who
  is marked for destruction is queued once (`Exact`).
* `ChildrenFirst` (`DestroyedBottomUp`).  `BottomUp` alone is not inductive: an object could
  be queued as a child whose own children are not, or a child be taken by a parent that is
  queued already.  `Families` excludes both: who has a parent is no holder, so families
  have two generations, and it is marked if and only if its parent is.
* `NoStale` (`NoStaleCrow`).  `erase` removes one entry of each list only, so all
  depends on having no second one.  `CrowsKnown` says that every entry is an object that lives or
  was freed, and that whoever has the flag has an entry.  Until an `UpdateCL` moves an item,
  the entries of a list are different, and those of the current one have the flag (`Fresh`); in an
  `Update`, where `SingleUpdate` takes the flag away, those in the current one were updated
  already and will not be again (`Untouched`).
* `Answered` (`AnsweredInTwo`): nobody misses two updates (`MissedOnce`).  Between two of them, who
  was left out and is a crow is in the list that comes next (`AskedAreNext`); inside of one,
  who was left out of the last one and was asked for again is updated or still to come
  (`AskedAreInWork`).

A lemma of `SchedulerProofs`, `KeptIndexes`, is about the definitions and not about the
code: that `Kept`, by which `Scheduler` says what `std::remove_if` leaves of a vector, is what its
name says.
`Kept` is recursive, and the
provers have no induction they could apply to it; instead, the set of lengths for
which the claim fails has a least member (`Least`, from the theorem about minimal
elements of well-founded orders), and the table for that length is the one for the
length before it and one entry more.  The same
fact finds the last entry a `FrameLoop` list keeps, and the message of a `GameSession` that
ends what the client believes of a holder.

Checked on the instances only:

* All liveness: `WaitEnds`, `ThrownAwayLeaves`, `NobodyStarves`, `QuitEnds`,
  `ClientCatchesUp`, `SwitchEnds`, `PendingEnds`.  Fairness is
  defined by `ENABLED`, which is beyond the provers.

## 6. Disagreements with the code's own assertions

* `nested_containers`: `remove_online` frees the ids of all that is below a box
  and takes back those of the box and its direct children.  A savable item in a
  container in a box stays in the ALife registry under an id the generator will
  hand out again; `CALifeObjectRegistry::add` then finds "Object with the
  specified ID is already presented in the Object Registry!".  The car body
  window lets the player move filled containers into boxes.
* `dropped_by_holder`: a stalker that cannot take an item answers the take with
  a reject; the server's broadcast of it tells the stalker to drop an item it
  never had, and `CInventory::DropItem` asserts that it has.
* `processing_overflow`: `Belt` and `Slot` call `processing_activate` for each item
  they take, `Ruck` takes that back only for an item that was in a slot.  Each move
  from the belt to the ruck leaves the counter one too high: the item in the ruck is
  processed every frame from then on, and the 255th cycle trips "Invalid sequence of
  processing enable/disable calls: overflow" (`xr_object.cpp:72`).

Three more assertions fail in the model as they do in the program.  Each is stated beside the
properties of its module, and TLC finds a counterexample when it is added as a `PROPERTY` to the
module's configuration; the properties that are checked say what holds in its place.

* `UnregisterVerified` (`Scheduler`): `CSheduler::Unregister` asserts
  `VERIFY (Registered(A))` (`xrSheduler.cpp:232`).  `ProcessStep` takes an object out of the heap
  for the time of its update, so one that unregisters itself in there is not counted, and
  `Registered` is false.  `CSpaceRestrictor::shedule_Update` calls back scripts for who enters and
  leaves (`space_restrictor.cpp:244-264`), and scripts may call `schedule_unregister`
  (`derived_client_classes.cpp:57-58`).  Without the assertion the removal is queued, and
  the `internal_Registration` that closes the frame carries it out, when the object is in the heap
  again; `RegistryImplemented` covers this case, and `RegistryKept` names it.  An object
  that the loop dropped fails the assertion as well when its owner unregisters it.
* `AmmoVerified` (`Weapon`): `VERIFY((u32)iAmmoElapsed == m_magazine.size())`
  (`WeaponFire.cpp:100`, `WeaponMagazined.cpp:414`).  When a weapon is unjammed twice without a
  shot in between, `MyLittleMisfire` counts a cartridge less and leaves it in the
  magazine (`WeaponMagazined.cpp:795`); the next shot finds the two apart.
* `ShotVerified` (`Weapon`): `PlayAnimShoot` asserts
  `GetState()==eFire || GetState()==eFire2` (`WeaponMagazined.cpp:1442`).  The callback of the
  first of two shots of a frame (`WeaponMagazined.cpp:649`) lets a script put the weapon away,
  which sets `eHidden` at once; the loop goes on and plays the second shot.

Met while modelling, and recorded under "hazards":

* `WaitEx` dispatches `WM_ACTIVATE` too (`Event.cpp:21-25`), so the callbacks of
  `seqAppActivate` and `seqAppDeactivate` (`device.cpp:554-560`) may run while the
  second thread works.  `NeverTogether` says that no other code of the primary thread
  but rendering does.
* `ProcessStep` goes on without a `Pop` when `shedule_Needed` raises an exception
  (`xrSheduler.cpp:302`): an item for which it always does ends all scheduling.
* `CObject::shedule_Update` says that it "Makes sure that update-cl called at least
  with freq of shedule-update" (`xr_object.cpp:300-301`).  The mark it looks at
  may be that of an entry in the list that the next `Update` empties, which then
  leaves the object out; `AnsweredInTwo` is what does hold.
* `Props.crow` is one flag for two lists.  Once an `UpdateCL` has moved another
  object, an object can be listed twice; `Destroy` erases one entry, and the next
  `Update` goes through freed memory.  `NoStaleCrow` says that nothing else does it.
* `WM_QUIT` is lost when `WaitEx` pumps messages; `QuitEnds` says that this is
  the only way to lose it.
* The cursor registers with `-3`, below `REG_PRIORITY_INVALID` (`UICursor.cpp:9`;
  `MainMenu.cpp:137` has a comment about the order that is not true any more), so
  removed entries stay in `seqRender` as long as it is there.
* A pass over an empty list leaves `in_process` set, and the next one may begin
  with a list that is not sorted (`pure.h:82`).
* `Unload` leaves the objects it destroys in `destroy_queue`, which the
  destructor asserts to be empty (`xr_object_list.cpp:320`).

The model shows three more assertions that the lag of the client can make fail
(`R_ASSERT(e_parent)` in `xrServer_process_event_ownership.cpp:26`, `R_ASSERT3`
in `xrServer_process_event_reject.cpp:38`, `VERIFY(itm)` in
`InventoryBox.cpp:25,48`); they are recorded in `failed`.

Two things the session relies on and the models make visible: of ids that are
new again at once neither `HolderExists` and `ClientAgrees` nor `TakenWhenFree` is
claimed, and with five messages under way they do not hold of them, so the order in which the generator hands out blocks is part of the
session's correctness; and user markers, freed with the time 0
(`map_manager.cpp:71`), break that order for their block.

## 7. Not modelled

* Scripts: they appear as arbitrary game code.
* Other jobs of the second thread (visibility, sound, particles, ALife); a job
  that changed `seqParallel` while it is walked through would
  break the loop of `device.cpp:381`, and no job of the repository's own code does.
* In `FrameLoop`: window messages other than `WM_QUIT` and `WM_ACTIVATE`, the registrators
  `seqAppActivate` and `seqAppDeactivate` as lists (their callbacks are game code),
  timers, pause, reset, rendering itself, and `REG_PRIORITY_CAPTURE`, with which nobody registers.
* In `ObjectList`: `Unload`, relcase callbacks, spatial and export of objects,
  and the object handler on the second thread, which pushes to the crow lists
  while `Render` does (`ai_stalker.cpp:624`): a data race on the vectors.
* `enable_movement(false)`: a manager that is not enabled is one whose
  `update_path` is not called.
* In `Inventory`: persistent slots, grenades, eating, weights, items that attach
  to the actor's body, an `m_tmp_next_item_slot` that names a slot, places on the belt that come and go with an outfit, and
  what loading a game does otherwise.  A persistent slot that is busy makes
  `ToSlot` return after it has changed the slot the item is meant for
  (`uiinventorywnd2.cpp:226`, `:259`); which slots are persistent, and whether an
  item fits into one of them and another, is data outside of the repository.
* In `GameSession`: the actor and traders as owners, ammunition transfer, hits, the
  `client_spawn_manager` callback and a `net_Spawn` that fails.
* In `Weapon`: zoom, addons and grenade launchers, other ammunition types and unloading, other
  items in the hands, dropping the weapon, pistols (`CheckForMiss`) and the other
  classes of weapons, bullets and their effects.
* The registries of ALife by graph vertex, level and schedule, and online groups: they
  index the objects of `ServerEntities` by place, and what could go wrong
  needs the game graph.
* The save and load of the server and of ALife, smart terrains, graph
  movement of offline objects.
* `CSheduler::EnsureOrder` has no caller; `Initialize` and `Destroy` belong to
  the start and the end of the program.
* Physics, rendering, sound, geometry: floating point computations without
  interleavings of their own.
