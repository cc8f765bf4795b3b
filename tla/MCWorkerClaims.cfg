CONSTANTS
    Addrs = {a1}
    Provers = {p1, p2}
    Folders = {f1, f2}
    Leftovers = {h1}
    MaxReg = 2
SPECIFICATION FairSpec
INVARIANTS Counted OneClaim 
PROPERTY ClaimServed
