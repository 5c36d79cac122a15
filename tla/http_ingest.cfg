CONSTANTS
  Session = {s1, s2}
  MaxRequests = 3
  MaxBody = 3
  MaxPostDataSize = 3
  None = None
SPECIFICATION Spec
INVARIANTS TypeOK BodyWholeOrRefused BytesInOrderOnce
SYMMETRY SessionSymmetry
