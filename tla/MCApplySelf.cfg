SPECIFICATION FairSpec
CONSTANTS
    Name <- MCName
    Virtual <- MCVirtual
    Pkg <- MCPkg
    Category = {"main", "dev", "test"}
    Main = "main"
    Own <- MCOwn
    Manager <- MCManager
    PipName <- MCPipName
    Underscored <- MCUnderscored
    Dashed <- MCDashed
    Plans <- SelfPlans
PROPERTY Termination
