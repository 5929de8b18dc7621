SPECIFICATION Spec
CONSTANTS
    Creators = {c1}
    CreateJobs <- MCCreateJobs
    EditNames <- MCEditNames
    Rewrites <- MCRewrites
    ReadJobs <- MCReadJobs
    Disks <- MCDisks
    Embedded <- MCEmbedded
INVARIANTS DependenciesFirst LayersWin ImportKeepsMeaning
