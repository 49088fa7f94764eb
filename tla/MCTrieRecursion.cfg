SPECIFICATION Spec
CONSTANTS
    Clients = {c1, c2}
    Patterns <- MCPatterns
    Topics <- MCTopics
INVARIANTS
    TypeOK
    TrieShape
    FindFollowsReadme
    FindAgrees
    RemoveAgrees
PROPERTY
    ImplementsTable
SYMMETRY ClientSymmetry
