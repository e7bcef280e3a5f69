SPECIFICATION Spec
CONSTANTS
    a = a
    b = b
    Mems = {a, b}
    Ker = ker
    Seeds <- MCSeeds
    MaxFaults = 1
    MaxCrashes = 2
INVARIANT ExchangeExact
PROPERTY Converges
