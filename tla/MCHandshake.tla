----------------------------- MODULE MCHandshake -----------------------------
EXTENDS Handshake

CONSTANTS alice, bob

MCParty == {alice, bob}
MCExposed == {alice}

\* p1, p2 and a third point, with multiplicity, are the zeros of the curve's
\* equation on the line through p1 of slope m.
Collinear(p1, p2, p3, m) ==
  LET OnLine(x) == Add(p1[2], Mul(m, Sub(x, p1[1])))
  IN  /\ p2[2] = OnLine(p2[1]) /\ p3[2] = OnLine(p3[1])
      /\ \A x \in Field :
           Sub(Cubic(x), Sqr(OnLine(x))) =
             Mul(Mul(Sub(x, p1[1]), Sub(x, p2[1])), Sub(x, p3[1]))

\* ec_add and ec_double are the group law of the curve: opposite points cancel,
\* and the sum of others is the reflection of the third point of their line.
ASSUME GroupLaw ==
  \A p1, p2 \in Curve \ {Infinity} :
    LET sum == EcAdd(p1, p2)
    IN  IF p1[1] = p2[1] /\ Add(p1[2], p2[2]) = 0 THEN sum = Infinity
        ELSE \E m \in Field : Collinear(p1, p2, <<sum[1], Neg(sum[2])>>, m)
==============================================================================
