SPECIFICATION FairSpec
CONSTANTS
    Writer = {w1, w2}
    Key = {k1, k2}
    Capacity = 1
    Ttls = {1}
    NegativeTtl = 3
    U32Modulus = 2
    MaxMixed = 2
    FirstKinds = {"answer"}
    MaxVersion = 1
INVARIANTS TypeOK ServedWithinLifetime ServedCodeIsTheAnswers
PROPERTIES KernelForgetsOldAnswers ImplementsLease
