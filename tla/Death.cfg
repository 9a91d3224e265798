SPECIFICATION DeathSpec
CONSTANTS
    m = m  l = l  h1 = h1  h2 = h2  c1 = c1  c2 = c2  d1 = d1  d2 = d2  d3 = d3
    Handle = {h1, h2}
    Thread = {m, l}
    Loopers = {l}
    Cookie = {c1, c2}
    Death = {d1, d2, d3}
    Exits = {l}
    NULL = NULL
SYMMETRY Symmetry
INVARIANTS OneOwner ToldOnce
CHECK_DEADLOCK FALSE
