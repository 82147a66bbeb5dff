SPECIFICATION FairSpec
CONSTANTS
    stalker = stalker
    monster = monster
    Managers <- MCManagers
    Monsters <- MCMonsters
    Types <- MCTypes
    MaxJobs = 3
INVARIANTS
    TypeOK
    JobsOfTheLiving
    DetailFitsLevel
    StateFitsType
PROPERTY WaitEnds
