SPECIFICATION FairCatalogueSpec
CONSTANTS
    Partitions = {0, 1}
    CatalogueTopics <- AllTopics
    PartitionOf <- PathPartition
    PathIds <- AllPathIds
    Published <- AllPublished
    MaxLog = 2
    MaxExpired = 2
    MaxUpsets = 2
CHECK_DEADLOCK FALSE
INVARIANTS ReadyMeansReplayed SettledCacheIsLatest LookupsSeeTheLatest
PROPERTY BecomesReady
