\* One build, two commands at a time: up to four publications, two once a
\* client holds a plan, and one applied workspace.
CONSTANTS
  Builds = {b1}
  Ids = {r1, r2, r3, r4}
  Workspaces = {d1}
  Contents = {c1, c2}
  Inputs = {i1}
  Workers = {w1, w2}
  None = None
SPECIFICATION Spec
CONSTRAINT FewOncePlanned
SYMMETRY Permuted
INVARIANTS
  TypeOK
  HistoryReadable
  ReferencedComplete
  LegacyKept
  NoOpSound
  ApplyReplacesPlanned
PROPERTIES
  PublishedImmutable
  ImplementsHistory
