SPECIFICATION Spec
CONSTANTS
  Gen = {g1, g2, g3}
  Server = {s1, s2}
  Key = {k1}
  None = None
  SwapsDuringStartup = FALSE
SYMMETRY Symmetry
INVARIANTS
  AnswerFromOpenIndex
