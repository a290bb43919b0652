SPECIFICATION FairSpec
CONSTANTS
    UsedDhts = {"kaddemo", "openchord", "owdhtshell", "pastconsole"}
    MaxChildren = 3
INVARIANTS
    ProgramInvariant
    NobodySpins
PROPERTIES
    ProcessEnds
