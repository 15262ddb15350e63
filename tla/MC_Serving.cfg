SPECIFICATION FairSpec
CONSTANTS
    Tasks <- MCTasks
    Offers <- MCOffers
    Args <- MCArgs
    Tables <- MCTables
    NoRules <- Empty
    Subject <- MCSubject
    Anonymous = "anonymous"
    MaxPolicy <- MCMaxPolicy
CHECK_DEADLOCK FALSE
INVARIANTS HealthIsHonest EveryTargetWasGranted NothingStartsInDrain WritesAreAudited
 
