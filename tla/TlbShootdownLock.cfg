CONSTANTS
  c1 = c1 c2 = c2 c3 = c3
  CPUs = {c1, c2, c3}
  Droppers = {c1, c2}
  Region <- OneFrame
  Shared = {}
  Uses <- EachOther
  Sampled = {}
SPECIFICATION Spec
INVARIANT OneShootdown
