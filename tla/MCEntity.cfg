CONSTANTS
  Thread = {t1, t2}
  Name = {a, b}
  Content = {x, y}
  MaxRows = 2
  MaxCalls = 5
  Null = Null
SPECIFICATION Spec
INVARIANTS TypeOK NeverAhead SetterReturnsCurrent 
SYMMETRY EntitySymmetry
CHECK_DEADLOCK FALSE
