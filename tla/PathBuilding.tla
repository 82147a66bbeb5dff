---------------------------- MODULE PathBuilding ----------------------------
(***************************************************************************)
(* CMovementManager of monsters and stalkers: the state machine that turns *)
(* a target into a game path, a level path and a detail path, and its two  *)
(* path builders, which queue their work in CRenderDevice::seqParallel for *)
(* the second thread.  A manager that queued work waits for it:            *)
(* update_path returns at once until the job has cleared                   *)
(* m_wait_for_distributed_computation.  Both builders share that flag.     *)
(*                                                                         *)
(* Game code runs while the main thread moves the frame; then the handoff  *)
(* lets the second thread run all jobs, in their order, and clear the list *)
(* while the main thread renders, and the main thread waits for it.        *)
(*                                                                         *)
(* Whether a path is still actual depends on positions, masks and targets  *)
(* that any code may set: an actual path may turn inactual at any time.    *)
(***************************************************************************)
EXTENDS Integers, Sequences, Subsequences

CONSTANTS Managers,
          Monsters,  \* managers of CBaseMonster, the others are stalkers'
          Types,     \* the values of EPathType each manager is given, beside "none"
          MaxJobs    \* bound: the length of seqParallel

ASSUME PathAssumption ==
    /\ Monsters \subseteq Managers
    /\ Types \in [Managers -> SUBSET {"game", "level", "patrol"}]
    /\ \A m \in Monsters : "level" \in Types[m]
    /\ MaxJobs \in Nat

(* EPathState, whose order the code uses.                                  *)
SelectGameVertex == 0
BuildGamePath == 1
ContinueGamePath == 2
SelectPatrolPoint == 3
BuildLevelPath == 4
ContinueLevelPath == 5
BuildDetailPath == 6
PathVerification == 7
PathCompleted == 8
Teleport == 9
Dummy == -1

VARIABLES
    man,     \* the state of each manager
    spawned, \* managers between net_Spawn and net_Destroy
    jobs,    \* seqParallel
    next     \* the job the second thread runs next, 0 while it waits

vars == <<man, spawned, jobs, next>>

Manager == [
    type : {"none", "game", "level", "patrol"},  \* m_path_type
    state : -1 .. 9,    \* m_path_state
    actual : BOOLEAN,   \* m_path_actuality
    wait : BOOLEAN,     \* m_wait_for_distributed_computation
    atOnce : BOOLEAN,   \* m_build_at_once
    level : BOOLEAN,    \* level_path() has a path and has not failed
    chosen : BOOLEAN,   \* game_path() has an intermediate vertex
    indexed : BOOLEAN,  \* m_path_vertex_index is an index of the level path
    doomed : BOOLEAN]   \* getDestroy() of the object

Job == [man : Managers, kind : {"level", "detail"}]

TypeOK ==
    /\ man \in [Managers -> Manager]
    /\ spawned \subseteq Managers
    /\ jobs \in Seq(Job)
    /\ next \in 0 .. Len(jobs) + 1

(* reinit.                                                                 *)
Reinit == [type |-> "none", state |-> Dummy, actual |-> TRUE, wait |-> FALSE,
           atOnce |-> FALSE, level |-> FALSE, chosen |-> FALSE,
           indexed |-> FALSE, doomed |-> FALSE]

Init ==
    /\ man = [m \in Managers |-> Reinit]
    /\ spawned = {}
    /\ jobs = <<>>
    /\ next = 0

-----------------------------------------------------------------------------
(* What becomes of a manager r, and what job it queues.                    *)

Step(r, kind) == [man |-> r, kind |-> kind]

Direct(R) == {Step(r, "none") : r \in R}

(* can_use_distributed_computations: a monster leaves nothing to the second *)
(* thread while the actor sees it, and everything when there is no actor.   *)
CanDistribute(m, r) == IF m \in Monsters THEN BOOLEAN ELSE {~r.atOnce /\ ~r.doomed}

(* level_path().build_path and what its callers make of its result.        *)
BuiltLevel(r) ==
    {[r EXCEPT !.level = TRUE, !.indexed = FALSE, !.state = ContinueLevelPath],
     [r EXCEPT !.level = FALSE, !.indexed = FALSE, !.state = BuildLevelPath]}

BuiltDetail(r) ==
    {[r EXCEPT !.state = PathVerification], [r EXCEPT !.state = BuildLevelPath]}

(* In what follows d says whether the second thread is to do the work: the *)
(* builders are set up, or the path is built at once.                      *)
Level(r, d) ==
    IF d THEN {Step([r EXCEPT !.wait = TRUE], "level")} ELSE Direct(BuiltLevel(r))

Detail(r, d) ==
    IF d THEN {Step([r EXCEPT !.wait = TRUE], "detail")} ELSE Direct(BuiltDetail(r))

(* select_intermediate_vertex, then the detail path.                       *)
ContinueLevel(r, d) ==
    Detail([r EXCEPT !.indexed = TRUE, !.state = BuildDetailPath], d)

(* With a plain target that is wanted at once, a level path is followed by *)
(* the detail path in the same call.                                       *)
LevelThenDetail(r, d) ==
    UNION {IF x.man.state = ContinueLevelPath /\ ~d /\ r.atOnce
           THEN ContinueLevel(x.man, FALSE) ELSE {x} : x \in Level(r, d)}

ContinueGame(r, d) ==
    LET c == [r EXCEPT !.chosen = TRUE] IN
    {Step([c EXCEPT !.state = Teleport], "none")}
        \cup Level([c EXCEPT !.state = BuildLevelPath], d)

BuildGame(r, d) ==
    {Step([r EXCEPT !.chosen = FALSE, !.state = BuildGamePath], "none")}
        \cup ContinueGame(r, d)

SelectGame(r, d) == {Step(r, "none")} \cup BuildGame(r, d)

SelectPatrol(r, d) ==
    {Step(r, "none"), Step([r EXCEPT !.state = PathCompleted], "none")}
        \cup Level([r EXCEPT !.state = BuildLevelPath], d)

(* The states a verification may lead to, by what is not actual any more   *)
(* and by what is completed.                                               *)
Verified(r) ==
    {r.state, BuildLevelPath, ContinueLevelPath, PathCompleted}
        \cup CASE r.type = "game" -> {SelectGameVertex, BuildGamePath, ContinueGamePath}
               [] r.type = "patrol" -> {SelectPatrolPoint}
               [] OTHER -> {}

Completed(r) ==
    {r.state} \cup CASE r.type = "game" -> {SelectGameVertex}
                     [] r.type = "patrol" -> {SelectPatrolPoint}
                     [] OTHER -> {BuildLevelPath}

(* The switch of process_game_path, process_level_path, process_patrol_path*)
Process(r, d) ==
    CASE r.state = SelectGameVertex -> SelectGame(r, d)
      [] r.state = BuildGamePath -> BuildGame(r, d)
      [] r.state = ContinueGamePath -> ContinueGame(r, d)
      [] r.state = SelectPatrolPoint -> SelectPatrol(r, d)
      [] r.state = BuildLevelPath ->
            IF r.type = "level" THEN LevelThenDetail(r, d) ELSE Level(r, d)
      [] r.state = ContinueLevelPath -> ContinueLevel(r, d)
      [] r.state = BuildDetailPath -> Detail(r, d)
      [] r.state = PathVerification -> Direct({[r EXCEPT !.state = s] : s \in Verified(r)})
      [] r.state = PathCompleted -> Direct({[r EXCEPT !.state = s] : s \in Completed(r)})
      [] OTHER -> {Step(r, "none")}

-----------------------------------------------------------------------------
FirstState == [none |-> Dummy, game |-> SelectGameVertex, level |-> BuildLevelPath,
               patrol |-> SelectPatrolPoint]

(* A manager whose path is not actual starts again.                        *)
Restarted(r) ==
    IF r.actual THEN r ELSE [r EXCEPT !.state = FirstState[r.type], !.actual = TRUE]

(* r, or r in an earlier state s, which it must take when the path that s  *)
(* builds does not exist and may take when that path is not actual.        *)
FallsBack(r, s, exists) ==
    IF r.state <= s \/ (r.type = "game" /\ r.state = Teleport) THEN {r}
    ELSE {[r EXCEPT !.state = s]} \cup {x \in {r} : exists}

OnLevel(r) == FallsBack(r, BuildLevelPath, r.level)

OnGame_Unchecked(r) == FallsBack(r, BuildGamePath, TRUE)

OnGame(r) == FallsBack(r, BuildGamePath, r.chosen)

(* The checks before the switch, which also discard what a level job that  *)
(* clear_path forgot left behind.                                          *)
Checked(r) ==
    CASE r.type = "game" ->
            UNION {OnGame(x) : x \in OnLevel(r)}
      [] r.type = "patrol" ->
            UNION {FallsBack(x, SelectPatrolPoint, TRUE) : x \in OnLevel(r)}
      [] r.type = "level" -> OnLevel(r)
      [] OTHER -> {r}

(* update_path of a manager that does not wait.                            *)
Updated(r, d) ==
    {Step([x.man EXCEPT !.atOnce = FALSE], x.kind) :
        x \in UNION {IF c.type = "none" THEN {Step(c, "none")} ELSE Process(c, d) :
                        c \in Checked(Restarted(r))}}

-----------------------------------------------------------------------------
(* Game code, between two handoffs.                                        *)

GameCode_Unsynchronised(m) == m \in spawned

GameCode(m) == next = 0 /\ m \in spawned

Become(m, r) == man' = [man EXCEPT ![m] = r]

Queue(m, kind) ==
    jobs' = IF kind = "none" THEN jobs ELSE Append(jobs, [man |-> m, kind |-> kind])

JobsOf(m, kinds) == {k \in DOMAIN jobs : jobs[k].man = m /\ jobs[k].kind \in kinds}

Without(m, kinds) == Remainders(jobs, DOMAIN jobs \ JobsOf(m, kinds))

Removed_OnlyDetail(m) == Without(m, {"detail"})

(* remove of both builders.                                                *)
Removed(m) == Without(m, {"level", "detail"})

Update(m, r) ==
    \E d \in CanDistribute(m, r) : \E x \in Updated(r, d) :
        /\ Become(m, x.man)
        /\ Queue(m, x.kind)
        /\ Len(jobs') <= MaxJobs

(* update_path, of on_frame and of the scheduled updates.                  *)
UpdatePath(m) ==
    /\ GameCode(m)
    /\ ~man[m].wait
    /\ Update(m, man[m])
    /\ UNCHANGED <<spawned, next>>

(* set_path_type.                                                          *)
SetPathType(m, type) ==
    /\ GameCode(m)
    /\ Become(m, [man[m] EXCEPT !.type = type, !.actual = @ /\ type = man[m].type])
    /\ UNCHANGED <<spawned, jobs, next>>

(* set_level_dest_vertex, set_game_dest_vertex and the like, with another  *)
(* target.                                                                 *)
SetTarget(m) ==
    /\ GameCode(m)
    /\ Become(m, [man[m] EXCEPT !.actual = FALSE])
    /\ UNCHANGED <<spawned, jobs, next>>

(* CControlPathBuilder::build_special: a path at once, unless the manager  *)
(* waits.                                                                  *)
BuildSpecial(m) ==
    /\ GameCode(m)
    /\ m \in Monsters
    /\ LET r == [man[m] EXCEPT !.type = "level", !.atOnce = TRUE,
                              !.actual = @ /\ man[m].type = "level"]
       IN  \E actual \in {r.actual, FALSE} :
              IF r.wait THEN Become(m, [r EXCEPT !.actual = actual]) /\ UNCHANGED jobs
              ELSE Update(m, [r EXCEPT !.actual = actual])
    /\ UNCHANGED <<spawned, next>>

Cleared_KeepsWaiting(m) == man[m].wait

Cleared(m) == FALSE

(* clear_path, when a stalker begins to fight: only the detail path        *)
(* builder is told to remove its job, but the flag is both builders'.      *)
ClearPath(m) ==
    /\ GameCode(m)
    /\ m \notin Monsters
    /\ Become(m, [man[m] EXCEPT !.wait = Cleared(m)])
    /\ jobs' \in Without(m, {"detail"})
    /\ UNCHANGED <<spawned, next>>

OnRestrictionsChange(m) ==
    /\ GameCode(m)
    /\ Become(m, [man[m] EXCEPT !.actual = FALSE, !.wait = FALSE])
    /\ jobs' \in Removed(m)
    /\ UNCHANGED <<spawned, next>>

(* A new object: constructor and reinit.                                   *)
NetSpawn(m) ==
    /\ next = 0
    /\ m \notin spawned
    /\ spawned' = spawned \cup {m}
    /\ Become(m, Reinit)
    /\ UNCHANGED <<jobs, next>>

SetDestroy(m) ==
    /\ GameCode(m)
    /\ Become(m, [man[m] EXCEPT !.doomed = TRUE])
    /\ UNCHANGED <<spawned, jobs, next>>

(* What is left of the manager is never read again.                        *)
NetDestroy(m) ==
    /\ GameCode(m)
    /\ man[m].doomed
    /\ spawned' = spawned \ {m}
    /\ Become(m, Reinit)
    /\ jobs' \in Removed(m)
    /\ UNCHANGED next

-----------------------------------------------------------------------------
(* The second thread.                                                      *)

(* syncProcessFrame.Set().                                                 *)
Handoff ==
    /\ next = 0
    /\ next' = 1
    /\ UNCHANGED <<man, spawned, jobs>>

(* process of the builder.                                                 *)
RunJob ==
    /\ next \in DOMAIN jobs
    /\ LET j == jobs[next]
           r == [man[j.man] EXCEPT !.wait = FALSE]
       IN  \E x \in IF j.kind = "level" THEN BuiltLevel(r) ELSE BuiltDetail(r) : Become(j.man, x)
    /\ next' = next + 1
    /\ UNCHANGED <<spawned, jobs>>

FrameDone_KeepsJobs ==
    /\ next = Len(jobs) + 1
    /\ next' = 0
    /\ UNCHANGED <<man, spawned, jobs>>

(* The list is cleared; syncFrameDone.Set().                               *)
FrameDone ==
    /\ next = Len(jobs) + 1
    /\ next' = 0
    /\ jobs' = <<>>
    /\ UNCHANGED <<man, spawned>>

-----------------------------------------------------------------------------
Device == Handoff \/ RunJob \/ FrameDone

Objects(m) ==
    \/ UpdatePath(m) \/ SetTarget(m) \/ BuildSpecial(m) \/ ClearPath(m)
    \/ OnRestrictionsChange(m) \/ NetSpawn(m) \/ SetDestroy(m) \/ NetDestroy(m)
    \/ \E type \in Types[m] \cup {"none"} : SetPathType(m, type)

Next == Device \/ \E m \in Managers : Objects(m)

Spec == Init /\ [][Next]_vars

(* The main loop hands a frame over for ever, and the second thread        *)
(* finishes it.                                                            *)
FairSpec == Spec /\ WF_vars(Device)

-----------------------------------------------------------------------------
Waiting(k) == next <= k

(* No job of an object that went through net_Destroy is left in the list:  *)
(* the second thread never touches an object that is gone.                 *)
JobsOfTheLiving == \A k \in DOMAIN jobs : jobs[k].man \in spawned

(* The level path of a manager with a waiting detail job has the entry its *)
(* index names (m_path_vertex_index), although a level job that clear_path *)
(* forgot may be in the same list and build that path anew.                *)
DetailFitsLevel ==
    \A k \in DOMAIN jobs :
        Waiting(k) /\ jobs[k].kind = "detail" => man[jobs[k].man].indexed

Cases == [none |-> -1 .. 9,
          game |-> {SelectGameVertex, BuildGamePath, ContinueGamePath, BuildLevelPath,
                    ContinueLevelPath, BuildDetailPath, PathVerification, PathCompleted, Teleport},
          level |-> BuildLevelPath .. PathCompleted,
          patrol |-> SelectPatrolPoint .. PathCompleted]

(* The NODEFAULT of the three switches and the VERIFYs inside of them      *)
(* ("!failed() && !m_path.empty()" of select_intermediate_vertex,          *)
(* "m_intermediate_index < m_path.size()" of intermediate_vertex_id):      *)
(* update_path meets only states of the path's type, and continues only    *)
(* paths that exist, whatever the second thread left behind.               *)
StateFitsType ==
    \A m \in spawned : ~man[m].wait =>
        \A r \in Checked(Restarted(man[m])) :
            /\ r.state \in Cases[r.type]
            /\ r.type # "none" /\ r.state \in {ContinueLevelPath, BuildDetailPath} => r.level
            /\ r.type # "none" /\ r.state = BuildDetailPath => r.indexed
            /\ r.type = "game" /\ r.state = BuildLevelPath => r.chosen

(* Who waits for a path gets an answer.                                    *)
WaitEnds == \A m \in Managers : man[m].wait ~> ~man[m].wait
=============================================================================
