-------------------------- MODULE ProductRegistry --------------------------
(***************************************************************************)
(* The tables of product_registry.hpp: the fan connectors of every product *)
(* and the speeds by which a fan module is recognised. Names, zones and    *)
(* limits of connectors are left out.                                      *)
(***************************************************************************)
EXTENDS Naturals, Sequences

\* A connector; tachIndexB is 0 where the table names none.
Con(type, index, a, b, pwm) ==
  [type |-> type, fanIndex |-> index, tachIndexA |-> a, tachIndexB |-> b, pwmIndex |-> pwm]

FanConnectorsN110 ==
  [c \in 1 .. 6 |-> IF c = 6 THEN Con("CPU", 0, 5, 0, 5)
                             ELSE Con("SYSTEM", c, c - 1, <<6, 8, 9, 10, 11>>[c], c - 1)]

FanConnectorsS220 ==
  [c \in 1 .. 7 |-> IF c > 5 THEN Con("CPU", c - 6, c - 1, 0, c - 1)
                             ELSE Con("SYSTEM", c, c - 1, 0, c - 1)]

FanConnectorsS320 ==
  [c \in 1 .. 7 |-> IF c > 5 THEN Con("CPU", c - 6, c - 1, 0, c - 1)
                             ELSE Con(IF c > 3 THEN "NONE" ELSE "SYSTEM", c, c - 1, 0, c - 1)]

FanConnectorsR120 ==
  [c \in 1 .. 7 |-> LET tach == <<1, 2, 0, 4, 5, 3, 6>>[c]
                    IN Con("SYSTEM", c - 1, tach, tach + 7, tach)]

FanConnectorsR120G2 == [c \in 1 .. 7 |-> Con("SYSTEM", c - 1, c - 1, c + 6, c - 1)]

FanConnectorsR220G2 ==
  [c \in 1 .. 7 |-> IF c % 2 = 1 THEN Con("SYSTEM", (c - 1) \div 2, c - 1, 0, c - 1)
                                 ELSE Con("NONE", (c - 2) \div 2, c - 1, 0, c - 1)]

FanConnectorsNicoleX86 == [c \in {1} |-> Con("SYSTEM", 5, 5, 0, 5)]

\* productRegistry, by product name: no name is matched by two of its patterns.
productRegistry ==
  [N110 |-> FanConnectorsN110, S220 |-> FanConnectorsS220, S320 |-> FanConnectorsS320,
   R120 |-> FanConnectorsR120, R120G2 |-> FanConnectorsR120G2,
   R220G2 |-> FanConnectorsR220G2, ArchiveXS |-> FanConnectorsS220,
   ArchiveS |-> FanConnectorsS320, UnifiedGen2 |-> FanConnectorsNicoleX86]

\* The fans of a product are driven and measured apart, and fans of one type
\* have different names.
ASSUME ConnectorsApart ==
  \A p \in DOMAIN productRegistry : \A c, d \in DOMAIN productRegistry[p] :
    LET x == productRegistry[p][c]
        y == productRegistry[p][d]
    IN c # d => /\ x.pwmIndex # y.pwmIndex /\ x.tachIndexA # y.tachIndexA
                /\ x.tachIndexB # 0 => x.tachIndexB \notin {y.tachIndexA, y.tachIndexB}
                /\ x.type = y.type => x.fanIndex # y.fanIndex

-----------------------------------------------------------------------------
(* Recognition by speed *)

VegmanRx20DetectionFanTable ==
  <<[type |-> "STANDARD", inlet |-> 19000 .. 24000, outlet |-> 16200 .. 19800],
    [type |-> "HIGH", inlet |-> 26550 .. 34000, outlet |-> 22950 .. 30800]>>

\* getFanInfoByRPM(): the first row that matches; the faster tachometer is taken
\* for the inlet's, if both turn.
FanInfoByRPM(a, b) ==
  LET swap == a # 0 /\ b # 0 /\ a < b
      in == IF swap THEN b ELSE a
      out == IF swap THEN a ELSE b
      Matches(i) == /\ in \in VegmanRx20DetectionFanTable[i].inlet
                    /\ out \in VegmanRx20DetectionFanTable[i].outlet
  IN IF Matches(1) THEN "STANDARD" ELSE IF Matches(2) THEN "HIGH" ELSE "UNKNOWN"

\* Speeds about the bounds of the table.
Rpm == {0, 1, 16199, 16200, 18999, 19000, 19799, 19800, 19801, 22949, 22950, 24000, 24001,
        26549, 26550, 30800, 30801, 34000, 34001}

\* A fan is recognised whichever tachometer is which, by one row only, and never
\* with one that does not turn.
ASSUME RecognisedEitherWay ==
  \A a, b \in Rpm :
    /\ FanInfoByRPM(a, b) = FanInfoByRPM(b, a)
    /\ 0 \in {a, b} => FanInfoByRPM(a, b) = "UNKNOWN"
    /\ LET rows == {i \in 1 .. 2 : \E p \in {<<a, b>>, <<b, a>>} :
                      /\ p[1] >= p[2] /\ p[1] \in VegmanRx20DetectionFanTable[i].inlet
                      /\ p[2] \in VegmanRx20DetectionFanTable[i].outlet}
       IN FanInfoByRPM(a, b) = IF rows = {} THEN "UNKNOWN"
                               ELSE VegmanRx20DetectionFanTable[CHOOSE i \in rows : rows = {i}].type
=============================================================================
