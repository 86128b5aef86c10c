CONSTANTS
  a = a  b = b  c = c  p = p  q = q  r = r
  Elem = {a, b, c}
  Client = {p, q, r}
  SIZE = 2
  MaxTail = 4
  NoElem = NoElem
  ThisQueue = ThisQueue
  NoQueue = NoQueue
SYMMETRY Symmetric
SPECIFICATION Spec
INVARIANT NoDataRace
INVARIANT ExactlyOnce
PROPERTY ImplementsWeakQueue
