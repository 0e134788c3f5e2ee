\* Two threads access and recycle bytes of one first level page.
SPECIFICATION Spec
CONSTANTS
  Threads = {t1, t2}
  i1 = i1
  i2 = i2
  j1 = j1
  j2 = j2
  L1Indices = {i1}
  L2Indices = {j1, j2}
  Ranges <- ShortRanges
  L1Pages = {d1, d2, d3, d4, d5}
  ShadowPages = {p1, p2, p3, p4, p5, p6, p7, p8}
  Global = Global
  Nil = Nil
SYMMETRY Symmetry
INVARIANTS TypeOK PagesHaveOneHome SlotsAgree CacheEmptyWhenSaving
PROPERTY SlotsArePermanent
