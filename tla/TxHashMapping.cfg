\* Every order of registrations and links of three hashes in the three tables.
SPECIFICATION Spec
CONSTANTS
    owner = owner rel = rel h1 = h1 h2 = h2 h3 = h3
    Owner = owner InitRelayer = rel
    Principals = {owner, rel}
    Hashes = {h1, h2, h3}
    Zero = Zero
SYMMETRY HashSymmetry
INVARIANTS IndexMatchesArray ArrayListsUnlinked ReverseIsLinked
PROPERTY LinksAreFinal
CHECK_DEADLOCK FALSE
