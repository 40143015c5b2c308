SPECIFICATION Spec
CONSTANTS
  t1 = t1
  Callers <- OneCaller
  Families <- MCFamilies
  Args <- MCArgs
  Modulus = 32
  MaxTtl = 7
  DefaultTtl = 4
  Lengths = {2, 3}
  SegmentSizes = {2}
  MaxSegments = 4
INVARIANT FeaturesTakeEffect
