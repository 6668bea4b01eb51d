CONSTANTS
  a1 = a1
  a2 = a2
  d1 = d1
  c1 = c1
  c2 = c2
  n1 = n1
  k1 = k1
  q1 = q1
  w1 = w1
  w2 = w2
  x1 = x1
  x2 = x2
  i1 = i1
  i2 = i2
  p1 = p1
  p2 = p2
  s1 = s1
  e1 = e1
  e2 = e2
  e3 = e3
  r1 = r1
  nobody = nobody
  nokey = nokey
  noworker = noworker
SPECIFICATION MCSpec
INVARIANTS TypesOK ConsentIsOfTheBinding WakesAreKept 
PROPERTIES BindingEpochs RevocationIsFinal PushesFollowAccount
