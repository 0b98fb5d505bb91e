CONSTANT MaxHandles = 3
SPECIFICATION Spec
INVARIANT HandlesUnique
