------------------------- MODULE PathBuildingProofs --------------------------
(* Proofs about PathBuilding for every set of managers and every length of   *)
(* the list of jobs: what is in the list when the second thread runs it is   *)
(* of objects that exist and fits the paths they have by then; update_path   *)
(* meets only states that its switches know; and who waits has a job to come. *)
EXTENDS PathBuilding, FiniteSetTheorems, TLAPS

-----------------------------------------------------------------------------
(* The strengthening.                                                        *)

(* The states from which a call of update_path that may leave work to the    *)
(* second thread does not come to a detail path.                             *)
Low == {Dummy, SelectGameVertex, BuildGamePath, ContinueGamePath,
        SelectPatrolPoint, BuildLevelPath, PathCompleted, Teleport}

(* What every function leaves true of a manager, whether it waits or not.    *)
Good(r) ==
    /\ r.state = BuildDetailPath => r.indexed
    /\ r.actual /\ r.type # "none" => r.state \in Cases[r.type]

AllGood == \A m \in Managers : Good(man[m])

(* Only monsters want a path at once (build_special).                        *)
StalkersCanWait == \A m \in Managers \ Monsters : ~man[m].atOnce

(* Only clear_path forgets a job, and only a stalker's: what is forgotten is *)
(* a level job, and its manager does not come to a detail path before it has *)
(* run, unless it builds all its paths itself because it is doomed.          *)
Forgotten ==
    next = 0 =>
        \A k \in DOMAIN jobs :
            LET m == jobs[k].man IN
            IF m \in Monsters THEN man[m].wait
            ELSE jobs[k].kind = "level" => man[m].doomed \/ man[m].state \in Low

(* Whose detail path is to be built waits for it, and for nothing else.      *)
DetailAlone ==
    \A k \in DOMAIN jobs :
        Waiting(k) /\ jobs[k].kind = "detail" =>
            /\ man[jobs[k].man].wait
            /\ man[jobs[k].man].indexed
            /\ \A l \in DOMAIN jobs : Waiting(l) /\ jobs[l].man = jobs[k].man => l = k

(* The safe half of WaitEnds: who waits has a job that has not run yet.      *)
WaitersHaveAJob ==
    \A m \in Managers :
        man[m].wait => \E k \in DOMAIN jobs : Waiting(k) /\ jobs[k].man = m

IInv ==
    /\ TypeOK
    /\ AllGood
    /\ StalkersCanWait
    /\ Forgotten
    /\ DetailAlone
    /\ WaitersHaveAJob
    /\ JobsOfTheLiving

-----------------------------------------------------------------------------
(* What becomes of a manager.                                                *)

(* The values of EPathState.                                                 *)
LEMMA StateNumbers ==
  /\ Dummy = -1
  /\ SelectGameVertex = 0 /\ BuildGamePath = 1 /\ ContinueGamePath = 2
  /\ SelectPatrolPoint = 3 /\ BuildLevelPath = 4 /\ ContinueLevelPath = 5
  /\ BuildDetailPath = 6 /\ PathVerification = 7 /\ PathCompleted = 8
  /\ Teleport = 9
  BY DEF Dummy, SelectGameVertex, BuildGamePath, ContinueGamePath,
         SelectPatrolPoint, BuildLevelPath, ContinueLevelPath,
         BuildDetailPath, PathVerification, PathCompleted, Teleport

LEMMA StatesInRange ==
  \A s \in Low \cup {ContinueLevelPath, BuildDetailPath, PathVerification} : s \in -1 .. 9
  BY StateNumbers DEF Low

(* The states of each type, one type at a time and for all of them.          *)
LEMMA CasesOfTypes ==
  /\ Cases["none"] = -1 .. 9
  /\ Cases["game"] = {0, 1, 2, 4, 5, 6, 7, 8, 9}
  /\ Cases["level"] = 4 .. 8
  /\ Cases["patrol"] = 3 .. 8
  /\ \A t \in {"none", "game", "level", "patrol"} : {4, 5, 6, 7, 8} \subseteq Cases[t]
<1> USE StateNumbers
<1>1. Cases["none"] = -1 .. 9
  BY DEF Cases
<1>2. Cases["game"] = {0, 1, 2, 4, 5, 6, 7, 8, 9}
  BY DEF Cases
<1>3. Cases["level"] = 4 .. 8
  BY DEF Cases
<1>4. Cases["patrol"] = 3 .. 8
  BY DEF Cases
<1> QED BY <1>1, <1>2, <1>3, <1>4

(* c is what the checks before the switch make of r.                         *)
Survives(r, c) ==
    /\ c \in Manager
    /\ c.type = r.type
    /\ c.wait = r.wait
    /\ c.atOnce = r.atOnce
    /\ c.doomed = r.doomed
    /\ c.actual
    /\ Good(c)
    /\ r.state \in Low => c.state \in Low

(* What update_path relies on once the checks are done.                      *)
FitsSwitch(c) ==
    /\ c.state \in Cases[c.type]
    /\ c.type # "none" /\ c.state \in {ContinueLevelPath, BuildDetailPath} => c.level
    /\ c.type # "none" /\ c.state = BuildDetailPath => c.indexed
    /\ c.type = "game" /\ c.state = BuildLevelPath => c.chosen

(* A path that starts again begins with a state of its type.                 *)
LEMMA RestartedGood ==
  ASSUME NEW r \in Manager, Good(r)
  PROVE  Survives(r, Restarted(r))
<1> USE StateNumbers
<1>1. CASE r.actual
  BY <1>1 DEF Restarted, Survives, Manager
<1>2. CASE ~r.actual
  <2> DEFINE first == FirstState[r.type]
  <2>1. first \in Low /\ first \in Cases[r.type] /\ first # BuildDetailPath /\ first \in -1 .. 9
    BY CasesOfTypes DEF FirstState, Low, Manager
  <2>2. Restarted(r) = [r EXCEPT !.state = first, !.actual = TRUE]
    BY <1>2 DEF Restarted
  <2> HIDE DEF first
  <2> QED BY <2>1, <2>2 DEF Survives, Manager, Good
<1> QED BY <1>1, <1>2

(* The checks lead to states of the path's type only, and do not leave one   *)
(* that goes on with a path that does not exist.                             *)
LEMMA CheckedFits ==
  ASSUME NEW r \in Manager, Good(r), r.actual, NEW c \in Checked(r)
  PROVE  Survives(r, c) /\ FitsSwitch(c)
<1> USE StateNumbers
<1>1. CASE r.type = "none"
  BY <1>1, CasesOfTypes DEF Checked, Survives, FitsSwitch, Good, Manager
<1>2. CASE r.type = "level"
  BY <1>2, CasesOfTypes DEF Checked, OnLevel, FallsBack, Survives, FitsSwitch, Good, Manager, Low
<1>3. CASE r.type = "patrol"
  <2>1. PICK x \in OnLevel(r) : c \in FallsBack(x, SelectPatrolPoint, TRUE)
    BY <1>3 DEF Checked
  <2> QED BY <1>3, <2>1, CasesOfTypes DEF OnLevel, FallsBack, Survives, FitsSwitch, Good, Manager, Low
<1>4. CASE r.type = "game"
  <2>1. PICK x \in OnLevel(r) : c \in OnGame(x)
    BY <1>4 DEF Checked
  <2> QED BY <1>4, <2>1, CasesOfTypes DEF OnLevel, OnGame, FallsBack, Survives, FitsSwitch, Good, Manager, Low
<1> QED BY <1>1, <1>2, <1>3, <1>4 DEF Manager

(* x is what a function makes of the manager r, with the job it queues.      *)
Outcome(r, d, x) ==
    /\ x.man \in Manager
    /\ x.kind \in {"none", "level", "detail"}
    /\ x.man.type = r.type
    /\ x.man.atOnce = r.atOnce
    /\ x.man.doomed = r.doomed
    /\ x.man.actual = r.actual
    /\ Good(x.man)
    /\ x.kind = "none" => x.man.wait = r.wait
    /\ x.kind # "none" => d /\ x.man.wait
    /\ x.kind = "level" => x.man.state \in Low
    /\ x.kind = "detail" => x.man.indexed
    /\ d /\ r.state \in Low => x.kind # "detail" /\ x.man.state \in Low

(* A function that leaves no work to the second thread.                      *)
Moved(r, y) ==
    /\ y \in Manager
    /\ y.type = r.type
    /\ y.atOnce = r.atOnce
    /\ y.doomed = r.doomed
    /\ y.actual = r.actual
    /\ y.wait = r.wait

(* Updates of a manager and what they leave alone.                           *)
LEMMA NewState ==
  ASSUME NEW r \in Manager, NEW s \in -1 .. 9, NEW l \in BOOLEAN, NEW x \in BOOLEAN
  PROVE  /\ Moved(r, [r EXCEPT !.level = l, !.indexed = x, !.state = s])
         /\ [r EXCEPT !.level = l, !.indexed = x, !.state = s].state = s
         /\ Moved(r, [r EXCEPT !.chosen = l, !.state = s])
         /\ [r EXCEPT !.chosen = l, !.state = s].state = s
         /\ Moved(r, [r EXCEPT !.state = s])
         /\ [r EXCEPT !.state = s].state = s
<1> DEFINE a == [r EXCEPT !.level = l, !.indexed = x, !.state = s]
           b == [r EXCEPT !.chosen = l, !.state = s]
           c == [r EXCEPT !.state = s]
<1>1. a \in Manager /\ b \in Manager /\ c \in Manager
  BY DEF Manager
<1>2. a.state = s /\ b.state = s /\ c.state = s
  BY DEF Manager
<1>3. a.type = r.type /\ a.atOnce = r.atOnce /\ a.doomed = r.doomed
      /\ a.actual = r.actual /\ a.wait = r.wait
  BY DEF Manager
<1>4. b.type = r.type /\ b.atOnce = r.atOnce /\ b.doomed = r.doomed
      /\ b.actual = r.actual /\ b.wait = r.wait
  BY DEF Manager
<1>5. c.type = r.type /\ c.atOnce = r.atOnce /\ c.doomed = r.doomed
      /\ c.actual = r.actual /\ c.wait = r.wait
  BY DEF Manager
<1> QED BY <1>1, <1>2, <1>3, <1>4, <1>5 DEF Moved

LEMMA MovedOutcome ==
  ASSUME NEW r \in Manager, NEW d \in BOOLEAN, NEW x, x.kind = "none",
         Moved(r, x.man), x.man.state \in Cases[r.type], x.man.state # BuildDetailPath,
         d /\ r.state \in Low => x.man.state \in Low
  PROVE  Outcome(r, d, x)
  BY DEF Moved, Outcome, Good

(* What a path builder makes of its manager.                                 *)
LEMMA BuiltLevelMoves ==
  ASSUME NEW r \in Manager, NEW y \in BuiltLevel(r)
  PROVE  Moved(r, y) /\ y.state \in {BuildLevelPath, ContinueLevelPath}
<1> USE StateNumbers
<1> DEFINE a == [r EXCEPT !.level = TRUE, !.indexed = FALSE, !.state = ContinueLevelPath]
           b == [r EXCEPT !.level = FALSE, !.indexed = FALSE, !.state = BuildLevelPath]
<1>1. Moved(r, a) /\ a.state = ContinueLevelPath
  <2>1. ContinueLevelPath \in -1 .. 9
    BY StatesInRange DEF Low
  <2> QED BY <2>1, NewState
<1>2. Moved(r, b) /\ b.state = BuildLevelPath
  <2>1. BuildLevelPath \in -1 .. 9
    BY StatesInRange DEF Low
  <2> QED BY <2>1, NewState
<1>3. y = a \/ y = b
  BY DEF BuiltLevel
<1> HIDE DEF a, b
<1> QED BY <1>1, <1>2, <1>3

LEMMA BuiltDetailMoves ==
  ASSUME NEW r \in Manager, NEW y \in BuiltDetail(r)
  PROVE  Moved(r, y) /\ y.state \in {BuildLevelPath, PathVerification}
<1> USE StateNumbers
<1> QED BY DEF BuiltDetail, Moved, Manager

(* A level path, built or left to the second thread.                         *)
LEMMA LevelOutcome ==
  ASSUME NEW r \in Manager, NEW d \in BOOLEAN, Good(r), r.state = BuildLevelPath,
         NEW x \in Level(r, d)
  PROVE  Outcome(r, d, x)
<1> USE StateNumbers
<1>1. CASE d
  <2> DEFINE z == [r EXCEPT !.wait = TRUE]
  <2>1. x.man = z /\ x.kind = "level"
    BY <1>1 DEF Level, Step
  <2>2. z \in Manager /\ z.wait /\ z.type = r.type /\ z.atOnce = r.atOnce
        /\ z.doomed = r.doomed /\ z.actual = r.actual /\ z.state = r.state
        /\ z.indexed = r.indexed
    BY DEF Manager
  <2> HIDE DEF z
  <2> QED BY <1>1, <2>1, <2>2 DEF Outcome, Good, Low
<1>2. CASE ~d
  <2>1. x.man \in BuiltLevel(r) /\ x.kind = "none"
    BY <1>2 DEF Level, Direct, Step
  <2>2. Moved(r, x.man) /\ x.man.state \in {4, 5}
    BY <2>1, BuiltLevelMoves
  <2>3. x.man.state \in Cases[r.type]
    BY <2>2, CasesOfTypes DEF Manager
  <2> QED BY <1>2, <2>1, <2>2, <2>3, MovedOutcome
<1> QED BY <1>1, <1>2

(* A detail path, built or left to the second thread.                        *)
LEMMA DetailOutcome ==
  ASSUME NEW r \in Manager, NEW d \in BOOLEAN, Good(r), r.state = BuildDetailPath,
         NEW x \in Detail(r, d)
  PROVE  Outcome(r, d, x)
<1> USE StateNumbers
<1>1. CASE d
  <2> DEFINE z == [r EXCEPT !.wait = TRUE]
  <2>1. x.man = z /\ x.kind = "detail"
    BY <1>1 DEF Detail, Step
  <2>2. z \in Manager /\ z.wait /\ z.type = r.type /\ z.atOnce = r.atOnce
        /\ z.doomed = r.doomed /\ z.actual = r.actual /\ z.state = r.state
        /\ z.indexed = r.indexed
    BY DEF Manager
  <2> HIDE DEF z
  <2> QED BY <1>1, <2>1, <2>2 DEF Outcome, Good, Low
<1>2. CASE ~d
  <2>1. x.man \in BuiltDetail(r) /\ x.kind = "none"
    BY <1>2 DEF Detail, Direct, Step
  <2>2. Moved(r, x.man) /\ x.man.state \in {4, 7}
    BY <2>1, BuiltDetailMoves
  <2>3. x.man.state \in Cases[r.type]
    BY <2>2, CasesOfTypes DEF Manager
  <2> QED BY <1>2, <2>1, <2>2, <2>3, MovedOutcome
<1> QED BY <1>1, <1>2

(* The next index of a level path, and the detail path to it.                *)
LEMMA ContinueLevelOutcome ==
  ASSUME NEW r \in Manager, NEW d \in BOOLEAN, Good(r), r.state = ContinueLevelPath,
         NEW x \in ContinueLevel(r, d)
  PROVE  Outcome(r, d, x)
<1> USE StateNumbers
<1> DEFINE c == [r EXCEPT !.indexed = TRUE, !.state = BuildDetailPath]
<1>1. c \in Manager /\ Good(c) /\ c.state = BuildDetailPath
  BY CasesOfTypes DEF Manager, Good
<1>2. x \in Detail(c, d)
  BY DEF ContinueLevel
<1>3. Outcome(c, d, x)
  BY <1>1, <1>2, DetailOutcome
<1>4. /\ c.type = r.type
      /\ c.atOnce = r.atOnce
      /\ c.doomed = r.doomed
      /\ c.actual = r.actual
      /\ c.wait = r.wait
      /\ r.state \notin Low
  BY DEF Manager, Low
<1> HIDE DEF c
<1> QED BY <1>3, <1>4 DEF Outcome

(* A monster's level path that is wanted at once, with the detail path.      *)
LEMMA LevelThenDetailOutcome ==
  ASSUME NEW r \in Manager, NEW d \in BOOLEAN, Good(r), r.state = BuildLevelPath,
         NEW x \in LevelThenDetail(r, d)
  PROVE  Outcome(r, d, x)
<1>1. PICK y \in Level(r, d) :
         x \in IF y.man.state = ContinueLevelPath /\ ~d /\ r.atOnce
               THEN ContinueLevel(y.man, FALSE) ELSE {y}
  BY DEF LevelThenDetail
<1>2. Outcome(r, d, y)
  BY LevelOutcome
<1>3. CASE y.man.state = ContinueLevelPath /\ ~d /\ r.atOnce
  <2>1. Outcome(y.man, FALSE, x)
    BY <1>1, <1>2, <1>3, ContinueLevelOutcome DEF Outcome
  <2>2. y.kind = "none"
    BY <1>2, <1>3 DEF Outcome
  <2> QED BY <1>2, <1>3, <2>1, <2>2 DEF Outcome
<1>4. CASE ~(y.man.state = ContinueLevelPath /\ ~d /\ r.atOnce)
  BY <1>1, <1>2, <1>4
<1> QED BY <1>3, <1>4

(* The game path to an intermediate vertex, a level path to it, or both.     *)
LEMMA GameOutcome ==
  ASSUME NEW r \in Manager, NEW d \in BOOLEAN, r.type = "game",
         r.state \in {SelectGameVertex, BuildGamePath, ContinueGamePath},
         NEW x \in SelectGame(r, d)
  PROVE  Outcome(r, d, x)
<1> USE StateNumbers
<1> DEFINE c == [r EXCEPT !.chosen = TRUE, !.state = BuildLevelPath]
<1>0. Moved(r, c) /\ c.state = BuildLevelPath
  <2>1. BuildLevelPath \in -1 .. 9
    BY StatesInRange DEF Low
  <2> QED BY <2>1, NewState
<1>1. c \in Manager /\ Good(c) /\ c.state = BuildLevelPath
  <2> HIDE DEF c
  <2> QED BY <1>0, CasesOfTypes DEF Moved, Good
<1>2. c.type = r.type /\ c.atOnce = r.atOnce /\ c.doomed = r.doomed
      /\ c.actual = r.actual /\ c.wait = r.wait /\ c.state \in Low
  <2> HIDE DEF c
  <2> QED BY <1>0 DEF Moved, Low
<1>3. c = [[r EXCEPT !.chosen = TRUE] EXCEPT !.state = BuildLevelPath]
  BY DEF Manager
<1>4. CASE x \in Level(c, d)
  <2>1. Outcome(c, d, x)
    BY <1>1, <1>4, LevelOutcome
  <2> HIDE DEF c
  <2> QED BY <1>2, <2>1 DEF Outcome
<1>5. CASE x \notin Level(c, d)
  <2> DEFINE a == [r EXCEPT !.chosen = FALSE, !.state = BuildGamePath]
             b == [[r EXCEPT !.chosen = TRUE] EXCEPT !.state = Teleport]
  <2>1. x \in {Step(r, "none"), Step(a, "none"), Step(b, "none")}
    <3> HIDE DEF c
    <3> QED BY <1>3, <1>5 DEF SelectGame, BuildGame, ContinueGame
  <2>4. Moved(r, a) /\ a.state = BuildGamePath
    <3>1. BuildGamePath \in -1 .. 9
      BY StatesInRange DEF Low
    <3> QED BY <3>1, NewState
  <2>5. Moved(r, b) /\ b.state = Teleport
    <3>1. Teleport \in -1 .. 9
      BY StatesInRange DEF Low
    <3> QED BY <3>1, NewState
  <2>6. Moved(r, r)
    BY DEF Moved
  <2> HIDE DEF a, b
  <2>2. x.kind = "none" /\ Moved(r, x.man)
    BY <2>1, <2>4, <2>5, <2>6 DEF Step
  <2>3. x.man.state \in {0, 1, 2, 9}
    BY <2>1, <2>4, <2>5 DEF Step
  <2> QED BY <2>2, <2>3, CasesOfTypes, MovedOutcome DEF Low
<1> QED BY <1>4, <1>5

(* A patrol point and the level path to it.                                  *)
LEMMA PatrolOutcome ==
  ASSUME NEW r \in Manager, NEW d \in BOOLEAN, r.type = "patrol",
         r.state = SelectPatrolPoint, NEW x \in SelectPatrol(r, d)
  PROVE  Outcome(r, d, x)
<1> USE StateNumbers
<1> DEFINE c == [r EXCEPT !.state = BuildLevelPath]
<1>1. c \in Manager /\ Good(c) /\ c.state = BuildLevelPath
  BY CasesOfTypes DEF Manager, Good
<1>2. c.type = r.type /\ c.atOnce = r.atOnce /\ c.doomed = r.doomed
      /\ c.actual = r.actual /\ c.wait = r.wait /\ c.state \in Low
  BY DEF Manager, Low
<1>4. CASE x \in Level(c, d)
  <2>1. Outcome(c, d, x)
    BY <1>1, <1>4, LevelOutcome
  <2> HIDE DEF c
  <2> QED BY <1>2, <2>1 DEF Outcome
<1>5. CASE x \notin Level(c, d)
  <2>1. x \in {Step(r, "none"), Step([r EXCEPT !.state = PathCompleted], "none")}
    BY <1>5 DEF SelectPatrol
  <2>2. x.kind = "none" /\ Moved(r, x.man)
    BY <2>1 DEF Step, Moved, Manager
  <2>3. x.man.state \in {3, 8}
    BY <2>1 DEF Step, Manager
  <2> QED BY <2>2, <2>3, CasesOfTypes, MovedOutcome DEF Low
<1> QED BY <1>4, <1>5

(* A state that a verification or a completion leads to.                     *)
LEMMA StateOutcome ==
  ASSUME NEW r \in Manager, NEW d \in BOOLEAN, r.type # "none", Good(r),
         r.state \in {PathVerification, PathCompleted},
         NEW s \in IF r.state = PathVerification THEN Verified(r) ELSE Completed(r)
  PROVE  Outcome(r, d, Step([r EXCEPT !.state = s], "none"))
<1> USE StateNumbers
<1>1. CASE r.state = PathVerification
  BY <1>1, CasesOfTypes DEF Verified, Step, Outcome, Good, Low, Manager
<1>2. CASE r.state = PathCompleted
  BY <1>2, CasesOfTypes DEF Completed, Step, Outcome, Good, Low, Manager
<1> QED BY <1>1, <1>2

(* The switch of process_game_path, process_level_path, process_patrol_path. *)
LEMMA ProcessOutcome ==
  ASSUME NEW r \in Manager, NEW d \in BOOLEAN, r.type # "none", Good(r), FitsSwitch(r),
         NEW x \in Process(r, d)
  PROVE  Outcome(r, d, x)
<1> USE StateNumbers
<1>0. r.state \in 0 .. 9
  BY CasesOfTypes DEF FitsSwitch, Manager
<1>1. CASE r.state \in {SelectGameVertex, BuildGamePath, ContinueGamePath}
  <2>1. r.type = "game"
    BY <1>1, CasesOfTypes DEF FitsSwitch, Manager
  <2>2. x \in SelectGame(r, d)
    <3>1. x \in SelectGame(r, d) \cup BuildGame(r, d) \cup ContinueGame(r, d)
      BY <1>1 DEF Process
    <3> QED BY <3>1 DEF SelectGame, BuildGame
  <2> QED BY <1>1, <2>1, <2>2, GameOutcome
<1>2. CASE r.state = SelectPatrolPoint
  <2>1. r.type = "patrol"
    BY <1>2, CasesOfTypes DEF FitsSwitch, Manager
  <2>2. x \in SelectPatrol(r, d)
    BY <1>2 DEF Process
  <2> QED BY <1>2, <2>1, <2>2, PatrolOutcome
<1>3. CASE r.state = BuildLevelPath
  <2>1. x \in Level(r, d) \/ x \in LevelThenDetail(r, d)
    BY <1>3 DEF Process
  <2> QED BY <1>3, <2>1, LevelOutcome, LevelThenDetailOutcome
<1>4. CASE r.state = ContinueLevelPath
  <2>1. x \in ContinueLevel(r, d)
    BY <1>4 DEF Process
  <2> QED BY <1>4, <2>1, ContinueLevelOutcome
<1>5. CASE r.state = BuildDetailPath
  <2>1. x \in Detail(r, d)
    BY <1>5 DEF Process
  <2> QED BY <1>5, <2>1, DetailOutcome
<1>6. CASE r.state = PathVerification
  <2>1. PICK s \in Verified(r) : x = Step([r EXCEPT !.state = s], "none")
    BY <1>6 DEF Process, Direct
  <2> QED BY <1>6, <2>1, StateOutcome
<1>7. CASE r.state = PathCompleted
  <2>1. PICK s \in Completed(r) : x = Step([r EXCEPT !.state = s], "none")
    BY <1>7 DEF Process, Direct
  <2> QED BY <1>7, <2>1, StateOutcome
<1>8. CASE r.state = Teleport
  <2>1. x = Step(r, "none")
    BY <1>8 DEF Process
  <2>2. x.man = r /\ x.kind = "none"
    BY <2>1 DEF Step
  <2> QED BY <1>8, <2>2, MovedOutcome DEF Moved, FitsSwitch
<1> QED BY <1>0, <1>1, <1>2, <1>3, <1>4, <1>5, <1>6, <1>7, <1>8

(* update_path as a whole: what it makes of a good manager.                  *)
LEMMA UpdatedOutcome ==
  ASSUME NEW r \in Manager, NEW d \in BOOLEAN, Good(r), NEW x \in Updated(r, d)
  PROVE  /\ x.man \in Manager
         /\ x.kind \in {"none", "level", "detail"}
         /\ ~x.man.atOnce
         /\ x.man.doomed = r.doomed
         /\ Good(x.man)
         /\ x.kind = "none" => x.man.wait = r.wait
         /\ x.kind # "none" => d /\ x.man.wait
         /\ x.kind = "level" => x.man.state \in Low
         /\ x.kind = "detail" => x.man.indexed
         /\ d /\ r.state \in Low => x.kind # "detail" /\ x.man.state \in Low
<1>1. PICK c \in Checked(Restarted(r)) :
        \E y \in IF c.type = "none" THEN {Step(c, "none")} ELSE Process(c, d) :
            x = Step([y.man EXCEPT !.atOnce = FALSE], y.kind)
  BY DEF Updated
<1>2. PICK y \in IF c.type = "none" THEN {Step(c, "none")} ELSE Process(c, d) :
        x = Step([y.man EXCEPT !.atOnce = FALSE], y.kind)
  BY <1>1
<1>3. Survives(r, Restarted(r))
  BY RestartedGood
<1>4. Survives(Restarted(r), c) /\ FitsSwitch(c)
  BY <1>3, CheckedFits DEF Survives
<1>5. c \in Manager /\ Good(c) /\ c.doomed = r.doomed /\ c.wait = r.wait
      /\ (r.state \in Low => c.state \in Low)
  BY <1>3, <1>4 DEF Survives
<1>6. Outcome(c, d, y)
  <2>1. CASE c.type = "none"
    <3>1. y.man = c /\ y.kind = "none"
      BY <2>1, <1>2 DEF Step
    <3> QED BY <3>1, <1>5, <1>4, MovedOutcome DEF Moved, Outcome
  <2>2. CASE c.type # "none"
    BY <2>2, <1>2, <1>4, <1>5, ProcessOutcome
  <2> QED BY <2>1, <2>2
<1> DEFINE z == [y.man EXCEPT !.atOnce = FALSE]
<1>7. x.man = z /\ x.kind = y.kind
  BY <1>2 DEF Step
<1>8. z \in Manager /\ ~z.atOnce /\ z.doomed = y.man.doomed /\ z.wait = y.man.wait
      /\ z.state = y.man.state /\ z.indexed = y.man.indexed
      /\ z.actual = y.man.actual /\ z.type = y.man.type
  BY <1>6 DEF Outcome, Manager
<1> HIDE DEF z
<1> QED BY <1>5, <1>6, <1>7, <1>8 DEF Outcome, Good

-----------------------------------------------------------------------------
(* The list of jobs.                                                         *)

(* What is left of a sequence are elements of it, each once, and all those   *)
(* that were not to be removed.                                              *)
LEMMA RemainderIs ==
  ASSUME NEW S, NEW seq \in Seq(S), NEW I \in SUBSET DOMAIN seq,
         NEW W \in Remainders(seq, I)
  PROVE  /\ W \in Seq(S)
         /\ \E h \in [DOMAIN W -> I] :
               /\ \A k \in DOMAIN W : W[k] = seq[h[k]]
               /\ \A j, k \in DOMAIN W : h[j] = h[k] => j = k
               /\ \A n \in I : \E k \in DOMAIN W : h[k] = n
<1>1. DOMAIN seq = 1 .. Len(seq) /\ Len(seq) \in Nat
  OBVIOUS
<1>2. \A n \in I : n \in Nat /\ seq[n] \in S
  BY <1>1
<1>3. PICK h \in Enumerations(I) : W = [k \in DOMAIN h |-> seq[h[k]]]
  BY DEF Remainders
<1>4. Cardinality(I) \in Nat
  <2>1. IsFiniteSet(1 .. Len(seq))
    BY <1>1, FS_Interval
  <2>2. IsFiniteSet(I)
    BY <1>1, <2>1, FS_Subset
  <2> QED BY <2>2, FS_CardinalityType
<1> DEFINE c == Cardinality(I)
<1>5. /\ h \in [1 .. c -> I]
      /\ \A n \in I : \E k \in 1 .. c : h[k] = n
      /\ \A j, k \in 1 .. c : j < k => h[j] < h[k]
  BY <1>3 DEF Enumerations
<1>6. c \in Nat
  BY <1>4
<1> HIDE DEF c
<1>7. DOMAIN h = 1 .. c /\ \A k \in 1 .. c : h[k] \in I
  BY <1>5
<1>8. DOMAIN W = 1 .. c /\ \A k \in 1 .. c : W[k] = seq[h[k]]
  BY ONLY <1>3, <1>7
<1>9. W \in Seq(S)
  <2>1. \A k \in 1 .. c : W[k] \in S
    BY ONLY <1>2, <1>7, <1>8
  <2>2. W = [k \in 1 .. c |-> W[k]]
    BY <1>3, <1>7
  <2> QED BY ONLY <2>1, <2>2, <1>6
<1>10. \A j, k \in 1 .. c : h[j] = h[k] => j = k
  <2> SUFFICES ASSUME NEW j \in 1 .. c, NEW k \in 1 .. c, h[j] = h[k] PROVE j = k
    OBVIOUS
  <2>1. h[j] \in Nat /\ h[k] \in Nat
    BY ONLY <1>2, <1>7
  <2>2. ~(j < k) /\ ~(k < j)
    BY <1>5, <2>1
  <2> QED BY <1>6, <2>2
<1>11. h \in [DOMAIN W -> I]
  BY ONLY <1>5, <1>8
<1>12. /\ \A k \in DOMAIN W : W[k] = seq[h[k]]
       /\ \A j, k \in DOMAIN W : h[j] = h[k] => j = k
       /\ \A n \in I : \E k \in DOMAIN W : h[k] = n
  BY ONLY <1>5, <1>8, <1>10
<1> QED BY <1>9, <1>11, <1>12

(* What is left of the list of jobs.                                         *)
LEMMA WithoutJobs ==
  ASSUME jobs \in Seq(Job), NEW m, NEW kinds, NEW W \in Without(m, kinds)
  PROVE  /\ W \in Seq(Job)
         /\ \E h \in [DOMAIN W -> DOMAIN jobs \ JobsOf(m, kinds)] :
               /\ \A k \in DOMAIN W : W[k] = jobs[h[k]]
               /\ \A j, k \in DOMAIN W : h[j] = h[k] => j = k
               /\ \A n \in DOMAIN jobs \ JobsOf(m, kinds) : \E k \in DOMAIN W : h[k] = n
<1> DEFINE I == DOMAIN jobs \ JobsOf(m, kinds)
<1>1. I \in SUBSET DOMAIN jobs
  OBVIOUS
<1>2. W \in Remainders(jobs, I)
  BY DEF Without
<1> HIDE DEF I
<1>3. /\ W \in Seq(Job)
      /\ \E h \in [DOMAIN W -> I] :
            /\ \A k \in DOMAIN W : W[k] = jobs[h[k]]
            /\ \A j, k \in DOMAIN W : h[j] = h[k] => j = k
            /\ \A n \in I : \E k \in DOMAIN W : h[k] = n
  BY <1>1, <1>2, RemainderIs
<1> QED BY <1>3 DEF I

(* A job more at the end of the list, or none.                               *)
LEMMA QueuedJob ==
  ASSUME NEW s \in Seq(Job), NEW t, NEW j, NEW more \in BOOLEAN, more => j \in Job,
         IF more THEN t = Append(s, j) ELSE t = s
  PROVE  /\ Len(s) \in Nat /\ DOMAIN s = 1 .. Len(s)
         /\ t \in Seq(Job)
         /\ \A k \in DOMAIN s : k \in DOMAIN t /\ t[k] = s[k]
         /\ \A k \in DOMAIN t :
               k \in DOMAIN s \/ (more /\ k = Len(s) + 1 /\ t[k] = j)
         /\ more => Len(s) + 1 \in DOMAIN t /\ t[Len(s) + 1] = j
<1>1. Len(s) \in Nat /\ DOMAIN s = 1 .. Len(s)
  OBVIOUS
<1>2. CASE ~more
  <2>1. t = s
    BY <1>2
  <2> QED BY <1>1, <1>2, <2>1
<1>3. CASE more
  <2>1. t = Append(s, j) /\ j \in Job
    BY <1>3
  <2>2. t \in Seq(Job) /\ Len(t) = Len(s) + 1 /\ DOMAIN t = 1 .. Len(s) + 1
    BY <2>1
  <2>3. t[Len(s) + 1] = j /\ \A k \in 1 .. Len(s) : t[k] = s[k]
    BY <2>1
  <2>4. \A k \in DOMAIN s : k \in DOMAIN t /\ t[k] = s[k]
    BY <1>1, <2>2, <2>3
  <2>5. \A k \in DOMAIN t : k \in DOMAIN s \/ (k = Len(s) + 1 /\ t[k] = j)
    BY <1>1, <2>2, <2>3
  <2>6. Len(s) + 1 \in DOMAIN t
    BY <1>1, <2>2
  <2> HIDE DEF Job
  <2> QED BY <1>1, <1>3, <2>2, <2>3, <2>4, <2>5, <2>6
<1> QED BY <1>2, <1>3

-----------------------------------------------------------------------------
(* How the invariant survives the kinds of steps there are.                  *)

(* A step that changes nothing of a manager that a job or a wait depends on. *)
LEMMA PlainStep ==
  ASSUME IInv, NEW m \in Managers, NEW r \in Manager, Good(r),
         man' = [man EXCEPT ![m] = r], UNCHANGED <<spawned, jobs, next>>,
         r.wait = man[m].wait, r.indexed = man[m].indexed, r.state = man[m].state,
         man[m].doomed => r.doomed, m \notin Monsters => ~r.atOnce
  PROVE  IInv'
<1>1. TypeOK' /\ AllGood' /\ StalkersCanWait'
  BY DEF IInv, TypeOK, AllGood, StalkersCanWait
<1>2. JobsOfTheLiving'
  BY DEF IInv, JobsOfTheLiving
<1>3. \A n \in Managers : /\ man'[n].wait = man[n].wait
                          /\ man'[n].indexed = man[n].indexed
                          /\ man'[n].state = man[n].state
                          /\ man[n].doomed => man'[n].doomed
  BY DEF IInv, TypeOK
<1>4. \A k \in DOMAIN jobs : jobs[k].man \in Managers
  <2> SUFFICES ASSUME NEW k \in DOMAIN jobs PROVE jobs[k].man \in Managers
    OBVIOUS
  <2>1. jobs[k] \in Job
    BY DEF IInv, TypeOK
  <2> QED BY <2>1 DEF Job
<1>5. Forgotten'
  BY <1>3, <1>4 DEF IInv, Forgotten
<1>6. DetailAlone'
  BY <1>3, <1>4 DEF IInv, DetailAlone, Waiting
<1>7. WaitersHaveAJob'
  BY <1>3 DEF IInv, WaitersHaveAJob, Waiting
<1> QED BY <1>1, <1>2, <1>5, <1>6, <1>7 DEF IInv

(* A step that removes detail jobs of a manager, or all its jobs, and ends   *)
(* its wait.                                                                 *)
LEMMA RemovingStep ==
  ASSUME IInv, next = 0, next' = next, NEW m \in Managers, NEW r \in Manager, Good(r), ~r.wait,
         man' = [man EXCEPT ![m] = r], m \notin Monsters => ~r.atOnce,
         NEW kinds, "detail" \in kinds, jobs' \in Without(m, kinds),
         spawned' \subseteq spawned, spawned \ {m} \subseteq spawned',
         \/ {"level", "detail"} \subseteq kinds
         \/ /\ m \notin Monsters /\ spawned' = spawned
            /\ r.state = man[m].state /\ r.doomed = man[m].doomed
  PROVE  IInv'
<1>1. /\ jobs' \in Seq(Job)
      /\ \E h \in [DOMAIN jobs' -> DOMAIN jobs \ JobsOf(m, kinds)] :
            /\ \A k \in DOMAIN jobs' : jobs'[k] = jobs[h[k]]
            /\ \A j, k \in DOMAIN jobs' : h[j] = h[k] => j = k
            /\ \A n \in DOMAIN jobs \ JobsOf(m, kinds) : \E k \in DOMAIN jobs' : h[k] = n
  BY WithoutJobs DEF IInv, TypeOK
<1>2. PICK h \in [DOMAIN jobs' -> DOMAIN jobs \ JobsOf(m, kinds)] :
            /\ \A k \in DOMAIN jobs' : jobs'[k] = jobs[h[k]]
            /\ \A j, k \in DOMAIN jobs' : h[j] = h[k] => j = k
            /\ \A n \in DOMAIN jobs \ JobsOf(m, kinds) : \E k \in DOMAIN jobs' : h[k] = n
  BY <1>1
<1>3. \A k \in DOMAIN jobs' : /\ h[k] \in DOMAIN jobs
                              /\ jobs'[k] = jobs[h[k]]
                              /\ jobs[h[k]] \in Job
                              /\ ~(jobs[h[k]].man = m /\ jobs[h[k]].kind \in kinds)
  BY <1>2 DEF JobsOf, IInv, TypeOK
<1>4. \A n \in Managers \ {m} : man'[n] = man[n]
  BY DEF IInv, TypeOK
<1>5. man'[m] = r
  BY DEF IInv, TypeOK
<1>6. TypeOK' /\ AllGood' /\ StalkersCanWait'
  <2>1. man' \in [Managers -> Manager]
    BY DEF IInv, TypeOK
  <2>2. next' \in 0 .. Len(jobs') + 1
    <3>1. Len(jobs') \in Nat
      BY <1>1
    <3> QED BY <3>1
  <2>3. spawned' \subseteq Managers
    BY DEF IInv, TypeOK
  <2>4. AllGood' /\ StalkersCanWait'
    BY <1>4, <1>5 DEF IInv, AllGood, StalkersCanWait
  <2> QED BY <1>1, <2>1, <2>2, <2>3, <2>4 DEF TypeOK
<1>7. \A k \in DOMAIN jobs' :
        jobs'[k].man = m => /\ jobs'[k].kind = "level"
                            /\ m \notin Monsters /\ spawned' = spawned
                            /\ r.state = man[m].state /\ r.doomed = man[m].doomed
  <2> SUFFICES ASSUME NEW k \in DOMAIN jobs', jobs'[k].man = m
               PROVE  /\ jobs'[k].kind = "level"
                      /\ m \notin Monsters /\ spawned' = spawned
                      /\ r.state = man[m].state /\ r.doomed = man[m].doomed
    OBVIOUS
  <2>1. jobs'[k].kind \in {"level", "detail"} /\ jobs'[k].kind \notin kinds
    BY <1>3 DEF Job
  <2> QED BY <2>1
<1>8. JobsOfTheLiving'
  BY <1>3, <1>7 DEF IInv, JobsOfTheLiving
<1>9. Forgotten'
  <2> SUFFICES ASSUME NEW k \in DOMAIN jobs'
               PROVE  IF jobs'[k].man \in Monsters THEN man'[jobs'[k].man].wait
                      ELSE jobs'[k].kind = "level" =>
                             man'[jobs'[k].man].doomed \/ man'[jobs'[k].man].state \in Low
    BY DEF Forgotten
  <2>1. IF jobs'[k].man \in Monsters THEN man[jobs'[k].man].wait
        ELSE jobs'[k].kind = "level" =>
               man[jobs'[k].man].doomed \/ man[jobs'[k].man].state \in Low
    BY <1>3 DEF IInv, Forgotten
  <2>2. jobs'[k].man \in Managers
    BY <1>3 DEF Job
  <2>3. CASE jobs'[k].man = m
    BY <2>1, <2>3, <1>5, <1>7
  <2>4. CASE jobs'[k].man # m
    BY <2>1, <2>2, <2>4, <1>4
  <2> QED BY <2>3, <2>4
<1>10. DetailAlone'
  <2> SUFFICES ASSUME NEW k \in DOMAIN jobs', jobs'[k].kind = "detail"
               PROVE  /\ man'[jobs'[k].man].wait
                      /\ man'[jobs'[k].man].indexed
                      /\ \A l \in DOMAIN jobs' : jobs'[l].man = jobs'[k].man => l = k
    BY DEF DetailAlone, Waiting
  <2>1. jobs'[k].man \in Managers \ {m}
    BY <1>3, <1>7 DEF Job
  <2>2. Waiting(h[k]) /\ \A l \in DOMAIN jobs' : Waiting(h[l])
    BY <1>3 DEF Waiting, IInv, TypeOK
  <2>3. /\ man[jobs'[k].man].wait
        /\ man[jobs'[k].man].indexed
        /\ \A l \in DOMAIN jobs' : jobs'[l].man = jobs'[k].man => h[l] = h[k]
    BY <1>3, <2>2 DEF IInv, DetailAlone
  <2> QED BY <1>2, <1>4, <2>1, <2>3
<1>11. WaitersHaveAJob'
  <2> SUFFICES ASSUME NEW n \in Managers, man'[n].wait
               PROVE  \E k \in DOMAIN jobs' : next' <= k /\ jobs'[k].man = n
    BY DEF WaitersHaveAJob, Waiting
  <2>1. n # m /\ man[n].wait
    BY <1>4, <1>5
  <2>2. PICK l \in DOMAIN jobs : jobs[l].man = n
    BY <2>1 DEF IInv, WaitersHaveAJob
  <2>3. l \in DOMAIN jobs \ JobsOf(m, kinds)
    BY <2>1, <2>2 DEF JobsOf
  <2>4. PICK k \in DOMAIN jobs' : h[k] = l
    BY <1>2, <2>3
  <2>5. jobs'[k].man = n /\ next' <= k
    BY <1>1, <1>3, <2>2, <2>4
  <2> QED BY <2>5
<1> QED BY <1>6, <1>8, <1>9, <1>10, <1>11 DEF IInv

(* A call of update_path of a manager that does not wait.                    *)
LEMMA UpdateStep ==
  ASSUME IInv, next = 0, UNCHANGED <<spawned, next>>, NEW m \in Managers, m \in spawned,
         ~man[m].wait, NEW r \in Manager, Good(r), ~r.wait, r.state = man[m].state,
         r.doomed = man[m].doomed, m \notin Monsters => ~r.atOnce, Update(m, r)
  PROVE  IInv'
<1>1. PICK d \in CanDistribute(m, r) : \E x \in Updated(r, d) :
         Become(m, x.man) /\ Queue(m, x.kind)
  BY DEF Update
<1>2. PICK x \in Updated(r, d) : Become(m, x.man) /\ Queue(m, x.kind)
  BY <1>1
<1>3. d \in BOOLEAN
  BY DEF CanDistribute, Manager
<1>4. m \notin Monsters /\ ~r.doomed => d
  BY DEF CanDistribute
<1>5. m \notin Monsters /\ r.doomed => ~d
  BY DEF CanDistribute
<1> DEFINE y == x.man
           j == [man |-> m, kind |-> x.kind]
<1>6. /\ y \in Manager
      /\ x.kind \in {"none", "level", "detail"}
      /\ ~y.atOnce
      /\ y.doomed = r.doomed
      /\ Good(y)
      /\ x.kind = "none" => ~y.wait
      /\ x.kind # "none" => d /\ y.wait
      /\ x.kind = "level" => y.state \in Low
      /\ x.kind = "detail" => y.indexed
      /\ d /\ r.state \in Low => x.kind # "detail" /\ y.state \in Low
  BY <1>3, UpdatedOutcome
<1>7. man' = [man EXCEPT ![m] = y]
  BY <1>2 DEF Become
<1>8. IF x.kind = "none" THEN jobs' = jobs ELSE jobs' = Append(jobs, j)
  BY <1>2 DEF Queue
<1>9. j.man = m /\ j.kind = x.kind /\ (x.kind # "none" => j \in Job)
  BY <1>6 DEF Job
<1> HIDE DEF y, j
<1>10. man'[m] = y /\ \A n \in Managers \ {m} : man'[n] = man[n]
  BY <1>7 DEF IInv, TypeOK
<1>11. \A k \in DOMAIN jobs : jobs[k] \in Job /\ jobs[k].man \in Managers
  <2> SUFFICES ASSUME NEW k \in DOMAIN jobs PROVE jobs[k] \in Job /\ jobs[k].man \in Managers
    OBVIOUS
  <2>1. jobs[k] \in Job
    BY DEF IInv, TypeOK
  <2> QED BY <2>1 DEF Job
<1>12. /\ Len(jobs) \in Nat /\ DOMAIN jobs = 1 .. Len(jobs)
       /\ jobs' \in Seq(Job)
       /\ \A k \in DOMAIN jobs : k \in DOMAIN jobs' /\ jobs'[k] = jobs[k]
       /\ \A k \in DOMAIN jobs' :
             k \in DOMAIN jobs \/ (x.kind # "none" /\ k = Len(jobs) + 1 /\ jobs'[k] = j)
       /\ x.kind # "none" => Len(jobs) + 1 \in DOMAIN jobs' /\ jobs'[Len(jobs) + 1] = j
  <2>1. jobs \in Seq(Job)
    BY DEF IInv, TypeOK
  <2> DEFINE more == x.kind # "none"
  <2>2. more \in BOOLEAN /\ (more => j \in Job)
        /\ IF more THEN jobs' = Append(jobs, j) ELSE jobs' = jobs
    BY <1>8, <1>9
  <2> QED BY <2>1, <2>2, QueuedJob
<1>13. next' = 0 /\ spawned' = spawned
  OBVIOUS
(* What is said of the jobs of m before the step.                            *)
<1>14. \A k \in DOMAIN jobs :
         jobs[k].man = m => /\ m \notin Monsters
                            /\ jobs[k].kind = "level"
                            /\ r.doomed \/ r.state \in Low
  <2> SUFFICES ASSUME NEW k \in DOMAIN jobs, jobs[k].man = m
               PROVE  /\ m \notin Monsters
                      /\ jobs[k].kind = "level"
                      /\ r.doomed \/ r.state \in Low
    OBVIOUS
  <2>1. m \notin Monsters
    BY DEF IInv, Forgotten
  <2>2. 0 <= k
    BY <1>12
  <2>3. jobs[k].kind # "detail"
    BY <2>2 DEF IInv, DetailAlone, Waiting
  <2>4. jobs[k].kind = "level"
    BY <1>11, <2>3 DEF Job
  <2> QED BY <2>1, <2>4 DEF IInv, Forgotten
<1>15. TypeOK' /\ AllGood' /\ StalkersCanWait'
  <2>1. man' \in [Managers -> Manager]
    BY <1>6, <1>7 DEF IInv, TypeOK
  <2>2. next' \in 0 .. Len(jobs') + 1
    <3>1. Len(jobs') \in Nat
      BY <1>12
    <3> QED BY <3>1
  <2>3. AllGood' /\ StalkersCanWait'
    BY <1>6, <1>10 DEF IInv, AllGood, StalkersCanWait
  <2> QED BY <1>12, <2>1, <2>2, <2>3 DEF IInv, TypeOK
<1>16. JobsOfTheLiving'
  BY <1>9, <1>12 DEF IInv, JobsOfTheLiving
<1>17. Forgotten'
  <2> SUFFICES ASSUME NEW k \in DOMAIN jobs'
               PROVE  IF jobs'[k].man \in Monsters THEN man'[jobs'[k].man].wait
                      ELSE jobs'[k].kind = "level" =>
                             man'[jobs'[k].man].doomed \/ man'[jobs'[k].man].state \in Low
    BY DEF Forgotten
  <2>1. CASE k \in DOMAIN jobs /\ jobs[k].man = m
    <3>1. jobs'[k].man = m /\ m \notin Monsters /\ man'[m] = y
      BY <1>10, <1>12, <1>14, <2>1
    <3>2. CASE r.doomed
      BY <1>6, <3>1, <3>2
    <3>3. CASE ~r.doomed
      <4>1. d /\ r.state \in Low
        BY <1>4, <1>14, <2>1, <3>1, <3>3
      <4> QED BY <1>6, <3>1, <4>1
    <3> QED BY <3>2, <3>3
  <2>2. CASE k \in DOMAIN jobs /\ jobs[k].man # m
    BY <1>10, <1>11, <1>12, <2>2 DEF IInv, Forgotten
  <2>3. CASE k \notin DOMAIN jobs
    <3>1. x.kind # "none" /\ jobs'[k] = j
      BY <1>12, <2>3
    <3>2. jobs'[k].man = m /\ jobs'[k].kind = x.kind /\ man'[m] = y
      BY <1>9, <1>10, <3>1
    <3>3. y.wait
      BY <1>6, <3>1
    <3>4. jobs'[k].kind = "level" => y.state \in Low
      BY <1>6, <3>2
    <3> QED BY <3>2, <3>3, <3>4
  <2> QED BY <2>1, <2>2, <2>3
<1>18. DetailAlone'
  <2> SUFFICES ASSUME NEW k \in DOMAIN jobs', jobs'[k].kind = "detail"
               PROVE  /\ man'[jobs'[k].man].wait
                      /\ man'[jobs'[k].man].indexed
                      /\ \A l \in DOMAIN jobs' : jobs'[l].man = jobs'[k].man => l = k
    BY DEF DetailAlone, Waiting
  <2>1. CASE k \in DOMAIN jobs
    <3>1. jobs'[k].man # m
      BY <1>12, <1>14, <2>1
    <3>2. Waiting(k) /\ \A l \in DOMAIN jobs : Waiting(l)
      BY <1>12, <2>1 DEF Waiting
    <3>3. /\ man[jobs[k].man].wait
          /\ man[jobs[k].man].indexed
          /\ \A l \in DOMAIN jobs : jobs[l].man = jobs[k].man => l = k
      BY <1>12, <2>1, <3>2 DEF IInv, DetailAlone
    <3> QED BY <1>9, <1>10, <1>11, <1>12, <2>1, <3>1, <3>3
  <2>2. CASE k \notin DOMAIN jobs
    <3>1. x.kind = "detail" /\ jobs'[k].man = m /\ k = Len(jobs) + 1
      BY <1>9, <1>12, <2>2
    <3>2. y.wait /\ y.indexed /\ d /\ r.state \notin Low
      BY <1>6, <3>1
    <3>3. \A l \in DOMAIN jobs : jobs[l].man # m
      BY <1>5, <1>14, <3>2
    <3> QED BY <1>10, <1>12, <3>1, <3>2, <3>3
  <2> QED BY <2>1, <2>2
<1>19. WaitersHaveAJob'
  <2> SUFFICES ASSUME NEW n \in Managers, man'[n].wait
               PROVE  \E k \in DOMAIN jobs' : 0 <= k /\ jobs'[k].man = n
    BY DEF WaitersHaveAJob, Waiting
  <2>1. CASE n = m
    <3>1. x.kind # "none"
      BY <1>6, <1>10, <2>1
    <3> QED BY <1>9, <1>12, <2>1, <3>1
  <2>2. CASE n # m
    <3>1. man[n].wait
      BY <1>10, <2>2
    <3>2. PICK k \in DOMAIN jobs : jobs[k].man = n
      BY <3>1 DEF IInv, WaitersHaveAJob
    <3> QED BY <1>12, <3>2
  <2> QED BY <2>1, <2>2
<1> QED BY <1>15, <1>16, <1>17, <1>18, <1>19 DEF IInv

(* A new object: nothing in the list is of the one that had its place.       *)
LEMMA SpawnStep ==
  ASSUME IInv, NEW m \in Managers, NetSpawn(m)
  PROVE  IInv'
<1> USE DEF NetSpawn, Become
<1>1. Reinit \in Manager /\ Good(Reinit) /\ ~Reinit.wait /\ ~Reinit.atOnce
  BY StateNumbers DEF Reinit, Manager, Good
<1> DEFINE r == Reinit
<1>2. man'[m] = r /\ \A n \in Managers \ {m} : man'[n] = man[n]
  BY DEF IInv, TypeOK
<1> HIDE DEF r
<1>3. \A k \in DOMAIN jobs : jobs[k].man \in Managers \ {m}
  BY DEF IInv, TypeOK, JobsOfTheLiving
<1>4. man' \in [Managers -> Manager]
  BY <1>1 DEF IInv, TypeOK
<1>5. TypeOK' /\ AllGood' /\ StalkersCanWait' /\ JobsOfTheLiving'
  BY <1>1, <1>2, <1>4 DEF IInv, TypeOK, AllGood, StalkersCanWait, JobsOfTheLiving, r
<1>6. Forgotten'
  BY <1>2, <1>3 DEF IInv, Forgotten
<1>7. DetailAlone'
  BY <1>2, <1>3 DEF IInv, DetailAlone, Waiting
<1>8. WaitersHaveAJob'
  BY <1>1, <1>2 DEF IInv, WaitersHaveAJob, Waiting, r
<1> QED BY <1>5, <1>6, <1>7, <1>8 DEF IInv

(* The next job runs.                                                        *)
LEMMA JobStep ==
  ASSUME IInv, RunJob
  PROVE  IInv'
<1> USE DEF RunJob, Become
<1> DEFINE j == jobs[next]
           m == j.man
           r == [man[m] EXCEPT !.wait = FALSE]
<1>1. jobs \in Seq(Job) /\ next \in DOMAIN jobs /\ DOMAIN jobs = 1 .. Len(jobs)
      /\ Len(jobs) \in Nat /\ next \in 1 .. Len(jobs)
  BY DEF IInv, TypeOK
<1>2. j \in Job /\ m \in Managers /\ j.kind \in {"level", "detail"}
  <2>1. j \in Job
    BY <1>1
  <2> HIDE DEF j
  <2> QED BY <2>1 DEF Job
<1>3. r \in Manager /\ ~r.wait /\ r.type = man[m].type /\ r.atOnce = man[m].atOnce
  <2> HIDE DEF j, m
  <2>1. man[m] \in Manager
    BY <1>2 DEF IInv, TypeOK
  <2> QED BY <2>1 DEF Manager
<1>4. PICK y \in IF j.kind = "level" THEN BuiltLevel(r) ELSE BuiltDetail(r) :
         man' = [man EXCEPT ![m] = y]
  OBVIOUS
<1> HIDE DEF j, m, r
<1>5. Moved(r, y) /\ y.state \in {BuildLevelPath, ContinueLevelPath, PathVerification}
  BY <1>2, <1>3, <1>4, BuiltLevelMoves, BuiltDetailMoves
<1>6. y \in Manager /\ Good(y) /\ ~y.wait /\ y.atOnce = man[m].atOnce
  <2>1. y.type \in {"none", "game", "level", "patrol"}
    BY <1>5 DEF Moved, Manager
  <2>2. y.state \in Cases[y.type]
    BY <1>5, <2>1, CasesOfTypes, StateNumbers
  <2> QED BY <1>3, <1>5, <2>2, StateNumbers DEF Moved, Good
<1>7. man'[m] = y /\ \A n \in Managers \ {m} : man'[n] = man[n]
  BY <1>2, <1>4 DEF IInv, TypeOK
<1>8. man' \in [Managers -> Manager]
  BY <1>4, <1>6 DEF IInv, TypeOK
<1>9. TypeOK' /\ AllGood' /\ StalkersCanWait' /\ JobsOfTheLiving'
  <2>1. next' \in 0 .. Len(jobs') + 1
    BY <1>1
  <2> QED BY <1>6, <1>7, <1>8, <2>1 DEF IInv, TypeOK, AllGood, StalkersCanWait, JobsOfTheLiving
<1>10. Forgotten'
  BY <1>1 DEF Forgotten
<1>11. DetailAlone'
  <2> SUFFICES ASSUME NEW k \in DOMAIN jobs, next + 1 <= k, jobs[k].kind = "detail"
               PROVE  /\ man'[jobs[k].man].wait
                      /\ man'[jobs[k].man].indexed
                      /\ \A l \in DOMAIN jobs : next + 1 <= l /\ jobs[l].man = jobs[k].man => l = k
    BY DEF DetailAlone, Waiting
  <2>1. next <= k /\ next # k /\ next <= next
    BY <1>1
  <2>2. /\ man[jobs[k].man].wait
        /\ man[jobs[k].man].indexed
        /\ \A l \in DOMAIN jobs : next <= l /\ jobs[l].man = jobs[k].man => l = k
    BY <2>1 DEF IInv, DetailAlone, Waiting
  <2>3. jobs[k].man # m
    BY <1>1, <2>1, <2>2 DEF m, j
  <2>4. jobs[k].man \in Managers
    <3>1. jobs[k] \in Job
      BY <1>1
    <3> QED BY <3>1 DEF Job
  <2>5. \A l \in DOMAIN jobs : next + 1 <= l => next <= l
    BY <1>1
  <2> QED BY <1>7, <2>2, <2>3, <2>4, <2>5
<1>12. WaitersHaveAJob'
  <2> SUFFICES ASSUME NEW n \in Managers, man'[n].wait
               PROVE  \E k \in DOMAIN jobs : next + 1 <= k /\ jobs[k].man = n
    BY DEF WaitersHaveAJob, Waiting
  <2>1. n # m /\ man[n].wait
    BY <1>6, <1>7
  <2>2. PICK k \in DOMAIN jobs : next <= k /\ jobs[k].man = n
    BY <2>1 DEF IInv, WaitersHaveAJob, Waiting
  <2>3. next # k
    BY <2>1, <2>2 DEF m, j
  <2> QED BY <1>1, <2>2, <2>3
<1> QED BY <1>9, <1>10, <1>11, <1>12 DEF IInv

(* The handoff, and the end of the second thread's pass over the list.       *)
LEMMA HandoffStep ==
  ASSUME IInv, Handoff \/ FrameDone
  PROVE  IInv'
<1>1. CASE Handoff
  <2> USE <1>1 DEF Handoff
  <2>1. jobs \in Seq(Job) /\ Len(jobs) \in Nat /\ DOMAIN jobs = 1 .. Len(jobs)
    BY DEF IInv, TypeOK
  <2>2. TypeOK' /\ AllGood' /\ StalkersCanWait' /\ JobsOfTheLiving'
    <3>1. next' \in 0 .. Len(jobs') + 1
      BY <2>1
    <3> QED BY <3>1 DEF IInv, TypeOK, AllGood, StalkersCanWait, JobsOfTheLiving
  <2>3. Forgotten'
    BY DEF Forgotten
  <2>4. \A k \in DOMAIN jobs : Waiting(k) /\ Waiting(k)'
    BY <2>1 DEF Waiting
  <2>5. DetailAlone'
    BY <2>4 DEF IInv, DetailAlone
  <2>6. WaitersHaveAJob'
    BY <2>4 DEF IInv, WaitersHaveAJob
  <2> QED BY <2>2, <2>3, <2>5, <2>6 DEF IInv
<1>2. CASE FrameDone
  <2> USE <1>2 DEF FrameDone
  <2>1. jobs \in Seq(Job) /\ Len(jobs) \in Nat /\ DOMAIN jobs = 1 .. Len(jobs)
    BY DEF IInv, TypeOK
  <2>2. \A m \in Managers : ~man[m].wait
    BY <2>1 DEF IInv, WaitersHaveAJob, Waiting
  <2>3. DOMAIN jobs' = {} /\ jobs' \in Seq(Job) /\ next' \in 0 .. Len(jobs') + 1
    OBVIOUS
  <2>4. TypeOK' /\ AllGood' /\ StalkersCanWait' /\ JobsOfTheLiving'
    BY <2>3 DEF IInv, TypeOK, AllGood, StalkersCanWait, JobsOfTheLiving
  <2>5. Forgotten' /\ DetailAlone'
    BY <2>3 DEF Forgotten, DetailAlone
  <2>6. WaitersHaveAJob'
    BY <2>2 DEF WaitersHaveAJob
  <2> QED BY <2>4, <2>5, <2>6 DEF IInv
<1> QED BY <1>1, <1>2

-----------------------------------------------------------------------------
LEMMA Initially == Init => IInv
<1> SUFFICES ASSUME Init PROVE IInv
  OBVIOUS
<1> USE DEF Init
<1>1. Reinit \in Manager /\ Good(Reinit) /\ ~Reinit.wait /\ ~Reinit.atOnce
  BY StateNumbers DEF Reinit, Manager, Good
<1>2. \A m \in Managers : man[m] = Reinit
  OBVIOUS
<1>3. DOMAIN jobs = {} /\ jobs \in Seq(Job) /\ next \in 0 .. Len(jobs) + 1
  OBVIOUS
<1>4. TypeOK /\ AllGood /\ StalkersCanWait
  BY <1>1, <1>2, <1>3 DEF TypeOK, AllGood, StalkersCanWait
<1>5. Forgotten /\ DetailAlone /\ JobsOfTheLiving
  BY <1>3 DEF Forgotten, DetailAlone, JobsOfTheLiving
<1>6. WaitersHaveAJob
  BY <1>1, <1>2 DEF WaitersHaveAJob
<1> QED BY <1>4, <1>5, <1>6 DEF IInv

LEMMA Inductive == IInv /\ [Next]_vars => IInv'
<1> SUFFICES ASSUME IInv, [Next]_vars PROVE IInv'
  OBVIOUS
<1>1. ASSUME NEW m \in Managers, GameCode(m)
      PROVE  /\ man[m] \in Manager /\ Good(man[m]) /\ next = 0 /\ m \in spawned
             /\ m \notin Monsters => ~man[m].atOnce
  BY <1>1 DEF IInv, TypeOK, AllGood, StalkersCanWait, GameCode
<1>2. ASSUME NEW m \in Managers, UpdatePath(m) PROVE IInv'
  <2>1. GameCode(m) /\ ~man[m].wait /\ Update(m, man[m]) /\ UNCHANGED <<spawned, next>>
    BY <1>2 DEF UpdatePath
  <2> QED BY <1>1, <2>1, UpdateStep
<1>3. ASSUME NEW m \in Managers, BuildSpecial(m) PROVE IInv'
  <2> DEFINE q == [man[m] EXCEPT !.type = "level", !.atOnce = TRUE,
                                !.actual = @ /\ man[m].type = "level"]
  <2>1. GameCode(m) /\ m \in Monsters /\ UNCHANGED <<spawned, next>>
    BY <1>3 DEF BuildSpecial
  <2>2. PICK actual \in {q.actual, FALSE} :
           IF q.wait THEN Become(m, [q EXCEPT !.actual = actual]) /\ UNCHANGED jobs
           ELSE Update(m, [q EXCEPT !.actual = actual])
    BY <1>3 DEF BuildSpecial
  <2>3. man[m] \in Manager /\ Good(man[m]) /\ next = 0 /\ m \in spawned
    BY <1>1, <2>1
  <2>4. /\ q \in Manager /\ q.wait = man[m].wait /\ q.type = "level"
        /\ q.actual <=> man[m].actual /\ man[m].type = "level"
        /\ q.state = man[m].state /\ q.indexed = man[m].indexed
        /\ q.doomed = man[m].doomed
    BY <2>3 DEF Manager
  <2> HIDE DEF q
  <2> DEFINE r == [q EXCEPT !.actual = actual]
  <2>5. /\ r \in Manager /\ r.wait = man[m].wait /\ r.type = "level"
        /\ r.actual = actual
        /\ r.state = man[m].state /\ r.indexed = man[m].indexed
        /\ r.doomed = man[m].doomed
    BY <2>4 DEF Manager
  <2> HIDE DEF r
  <2>6. Good(r)
    BY <2>3, <2>4, <2>5 DEF Good
  <2>7. CASE q.wait
    <3>1. man' = [man EXCEPT ![m] = r] /\ UNCHANGED <<spawned, jobs, next>>
      BY <2>1, <2>2, <2>7 DEF Become, r
    <3> QED BY <2>1, <2>3, <2>5, <2>6, <3>1, PlainStep
  <2>8. CASE ~q.wait
    <3>1. Update(m, r) /\ ~man[m].wait /\ ~r.wait
      BY <2>2, <2>4, <2>5, <2>8 DEF r
    <3> QED BY <2>1, <2>3, <2>5, <2>6, <3>1, UpdateStep
  <2> QED BY <2>7, <2>8
<1>4. ASSUME NEW m \in Managers, NEW type \in Types[m] \cup {"none"}, SetPathType(m, type)
      PROVE  IInv'
  <2> DEFINE r == [man[m] EXCEPT !.type = type, !.actual = @ /\ type = man[m].type]
  <2>1. GameCode(m) /\ UNCHANGED <<spawned, jobs, next>> /\ man' = [man EXCEPT ![m] = r]
    BY <1>4 DEF SetPathType, Become
  <2>2. man[m] \in Manager /\ Good(man[m]) /\ (m \notin Monsters => ~man[m].atOnce)
    BY <1>1, <2>1
  <2>3. type \in {"none", "game", "level", "patrol"}
    BY PathAssumption
  <2>4. /\ r \in Manager /\ r.wait = man[m].wait /\ r.type = type
        /\ r.actual <=> man[m].actual /\ type = man[m].type
        /\ r.state = man[m].state /\ r.indexed = man[m].indexed
        /\ r.doomed = man[m].doomed /\ r.atOnce = man[m].atOnce
    BY <2>2, <2>3 DEF Manager
  <2> HIDE DEF r
  <2>5. Good(r)
    BY <2>2, <2>4 DEF Good
  <2> QED BY <2>1, <2>2, <2>4, <2>5, PlainStep
<1>5. ASSUME NEW m \in Managers, SetTarget(m) PROVE IInv'
  <2> DEFINE r == [man[m] EXCEPT !.actual = FALSE]
  <2>1. GameCode(m) /\ UNCHANGED <<spawned, jobs, next>> /\ man' = [man EXCEPT ![m] = r]
    BY <1>5 DEF SetTarget, Become
  <2>2. man[m] \in Manager /\ Good(man[m]) /\ (m \notin Monsters => ~man[m].atOnce)
    BY <1>1, <2>1
  <2>4. /\ r \in Manager /\ r.wait = man[m].wait /\ ~r.actual
        /\ r.state = man[m].state /\ r.indexed = man[m].indexed
        /\ r.doomed = man[m].doomed /\ r.atOnce = man[m].atOnce
    BY <2>2 DEF Manager
  <2> HIDE DEF r
  <2>5. Good(r)
    BY <2>2, <2>4 DEF Good
  <2> QED BY <2>1, <2>2, <2>4, <2>5, PlainStep
<1>6. ASSUME NEW m \in Managers, SetDestroy(m) PROVE IInv'
  <2> DEFINE r == [man[m] EXCEPT !.doomed = TRUE]
  <2>1. GameCode(m) /\ UNCHANGED <<spawned, jobs, next>> /\ man' = [man EXCEPT ![m] = r]
    BY <1>6 DEF SetDestroy, Become
  <2>2. man[m] \in Manager /\ Good(man[m]) /\ (m \notin Monsters => ~man[m].atOnce)
    BY <1>1, <2>1
  <2>4. /\ r \in Manager /\ r.wait = man[m].wait /\ r.actual = man[m].actual
        /\ r.state = man[m].state /\ r.indexed = man[m].indexed
        /\ r.type = man[m].type
        /\ r.doomed /\ r.atOnce = man[m].atOnce
    BY <2>2 DEF Manager
  <2> HIDE DEF r
  <2>5. Good(r)
    BY <2>2, <2>4 DEF Good
  <2> QED BY <2>1, <2>2, <2>4, <2>5, PlainStep
<1>7. ASSUME NEW m \in Managers, ClearPath(m) PROVE IInv'
  <2> DEFINE r == [man[m] EXCEPT !.wait = FALSE]
  <2>1. GameCode(m) /\ m \notin Monsters /\ UNCHANGED <<spawned, next>>
        /\ man' = [man EXCEPT ![m] = r] /\ jobs' \in Without(m, {"detail"})
    BY <1>7 DEF ClearPath, Become, Cleared
  <2>2. man[m] \in Manager /\ Good(man[m]) /\ ~man[m].atOnce /\ next = 0
    BY <1>1, <2>1
  <2>4. /\ r \in Manager /\ ~r.wait /\ r.actual = man[m].actual
        /\ r.state = man[m].state /\ r.indexed = man[m].indexed
        /\ r.type = man[m].type
        /\ r.doomed = man[m].doomed /\ r.atOnce = man[m].atOnce
    BY <2>2 DEF Manager
  <2> HIDE DEF r
  <2>5. Good(r)
    BY <2>2, <2>4 DEF Good
  <2>6. next' = next /\ spawned' = spawned
    BY <2>1
  <2> QED BY <2>1, <2>2, <2>4, <2>5, <2>6, RemovingStep
<1>8. ASSUME NEW m \in Managers, OnRestrictionsChange(m) PROVE IInv'
  <2> DEFINE r == [man[m] EXCEPT !.actual = FALSE, !.wait = FALSE]
  <2>1. GameCode(m) /\ UNCHANGED <<spawned, next>>
        /\ man' = [man EXCEPT ![m] = r] /\ jobs' \in Without(m, {"level", "detail"})
    BY <1>8 DEF OnRestrictionsChange, Become, Removed
  <2>2. man[m] \in Manager /\ Good(man[m]) /\ (m \notin Monsters => ~man[m].atOnce) /\ next = 0
    BY <1>1, <2>1
  <2>4. /\ r \in Manager /\ ~r.wait /\ ~r.actual
        /\ r.state = man[m].state /\ r.indexed = man[m].indexed
        /\ r.atOnce = man[m].atOnce
    BY <2>2 DEF Manager
  <2> HIDE DEF r
  <2>5. Good(r)
    BY <2>2, <2>4 DEF Good
  <2>6. next' = next /\ spawned' = spawned
    BY <2>1
  <2> QED BY <2>1, <2>2, <2>4, <2>5, <2>6, RemovingStep
<1>9. ASSUME NEW m \in Managers, NetDestroy(m) PROVE IInv'
  <2>1. GameCode(m) /\ next' = next /\ spawned' = spawned \ {m}
        /\ man' = [man EXCEPT ![m] = Reinit] /\ jobs' \in Without(m, {"level", "detail"})
    BY <1>9 DEF NetDestroy, Become, Removed
  <2>2. Reinit \in Manager /\ Good(Reinit) /\ ~Reinit.wait /\ ~Reinit.atOnce
    BY StateNumbers DEF Reinit, Manager, Good
  <2>3. next = 0
    BY <1>1, <2>1
  <2> QED BY <2>1, <2>2, <2>3, RemovingStep
<1>10. CASE UNCHANGED vars
  BY <1>10 DEF vars, IInv, TypeOK, AllGood, StalkersCanWait, Forgotten, DetailAlone,
               WaitersHaveAJob, JobsOfTheLiving, Waiting
<1> QED BY <1>2, <1>3, <1>4, <1>5, <1>6, <1>7, <1>8, <1>9, <1>10,
           SpawnStep, JobStep, HandoffStep DEF Next, Device, Objects
-----------------------------------------------------------------------------

LEMMA Invariant == Spec => []IInv
<1> QED BY Initially, Inductive, PTL DEF Spec

-----------------------------------------------------------------------------
(* Every variable keeps its type: in particular the second thread's place in *)
(* the list never passes the entry after its last one, and a manager is in   *)
(* one of the states of EPathState whatever the switches and the builders do.*)
THEOREM TypeCorrect == Spec => []TypeOK
<1>1. IInv => TypeOK
  BY DEF IInv
<1> QED BY <1>1, Invariant, PTL

(* The second thread never runs a job of an object that went through         *)
(* net_Destroy: what clear_path leaves in the list of seqParallel is taken   *)
(* out before its object is gone.                                            *)
THEOREM LivingJobs == Spec => []JobsOfTheLiving
<1>1. IInv => JobsOfTheLiving
  BY DEF IInv
<1> QED BY <1>1, Invariant, PTL

(* A waiting detail job finds its index within the level path of its         *)
(* manager, even beside a level job that clear_path forgot.                  *)
THEOREM DetailStillFits == Spec => []DetailFitsLevel
<1>1. IInv => DetailFitsLevel
  BY DEF IInv, DetailAlone, DetailFitsLevel
<1> QED BY <1>1, Invariant, PTL

(* The three switches of update_path never come to their NODEFAULT, and go   *)
(* on only with paths that exist, whatever jobs ran since the last call.     *)
THEOREM SwitchesFit == Spec => []StateFitsType
<1>1. IInv => StateFitsType
  <2> SUFFICES ASSUME IInv, NEW m \in spawned, NEW c \in Checked(Restarted(man[m]))
               PROVE  FitsSwitch(c)
    BY DEF StateFitsType, FitsSwitch
  <2>1. man[m] \in Manager /\ Good(man[m])
    BY DEF IInv, TypeOK, AllGood
  <2>2. Survives(man[m], Restarted(man[m]))
    BY <2>1, RestartedGood
  <2>3. Restarted(man[m]) \in Manager /\ Good(Restarted(man[m])) /\ Restarted(man[m]).actual
    BY <2>2 DEF Survives
  <2> QED BY <2>3, CheckedFits
<1> QED BY <1>1, Invariant, PTL

(* Who waits for a path has a job that has not run yet, which is what        *)
(* WaitEnds needs of every state: no wait is left behind by remove, by       *)
(* clear_path, by a restart or by the clearing of the list.                  *)
THEOREM WaitersServed == Spec => []WaitersHaveAJob
<1>1. IInv => WaitersHaveAJob
  BY DEF IInv
<1> QED BY <1>1, Invariant, PTL
=============================================================================
