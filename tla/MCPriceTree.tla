---------------------------- MODULE MCPriceTree -----------------------------
(* PriceTree for TLC: the tree of the constructor, in cents, and a smaller *)
(* one of the same kind.                                                   *)
EXTENDS PriceTree, TLC

CONSTANTS o1, o2, o3

\* btree.h: 12.3, and four, two, six, one, three, five and seven tenths away
Ctor == <<1270, 1250, 1290, 1240, 1260, 1280, 1300,
          1190, 1210, 1170, 1220, 1200, 1180, 1160>>

\* Its upper part without the outermost levels, and one level below the root.
Small == <<1250, 1240, 1260, 1220>>

\* Prices in and around the bounds: ticks, between ticks, and 0.09 from one.
ManyPrices == {1140, 1151, 1152, 1155, 1158, 1160, 1165, 1169, 1170, 1195, 1199,
               1200, 1205, 1211, 1215, 1219, 1221, 1222, 1225, 1228, 1230, 1231,
               1235, 1238, 1239, 1240, 1245, 1250, 1251, 1261, 1270, 1291, 1295,
               1299, 1300, 1305, 1308, 1309, 1310}

\* fabs(p - l) < 0.09 in double precision, for the pairs 0.09 apart: it holds
\* for all but these.
NotNear == {<<1151, 1160>>, <<1161, 1170>>, <<1201, 1210>>, <<1211, 1220>>, <<1251, 1260>>, <<1261, 1270>>}
RoundedPairs == {x \in Prices \X Levels : Distance(x[1], x[2]) = 9} \ NotNear

\* Both trees are as OrdersFindTheirLevel of PriceScanProofs takes them to be.
ASSUME ConstructorTicks == Ticks
=============================================================================
