\* Two candidate .env files that come and go, every receiver, and defaults that
\* may lack the variable: a Load may fail half-way.
SPECIFICATION Spec
CONSTANTS
    NumPaths = 2
    Receivers = {"env", "prefixed env", "nil", "prefixed nil"}
    DefaultValues = {"v2", "unset"}
INVARIANTS
    OrIsAssociative
PROPERTIES
    HighestLayerWins
    CoalesceTakesTheFirst
