CONSTANTS
  a = a  b = b  c = c  p = p  q = q  r = r
  Elem = {a, b}
  Client = {p, q, r}
  Dummy = Dummy  Null = Null  NoElem = NoElem
SYMMETRY Symmetric
SPECIFICATION Spec
INVARIANT NoNullDereference
INVARIANT DeletedOnce
PROPERTY ImplementsFifo
