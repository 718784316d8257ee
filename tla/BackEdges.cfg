CONSTANT NumBlocks = 4
SPECIFICATION Spec
INVARIANTS TypeOK SearchInv KeptEdgesAcyclic StraightEdgesKept
PROPERTIES ImplementsAbs Returns
