----------------------------- MODULE MCBackends -----------------------------
(* A small instance of Backends for TLC: an Update that counts up to Top   *)
(* and then refuses.                                                       *)
EXTENDS Backends

CONSTANT Top

McData == 0..Top
CountUp == [d \in McData \cup {Absent} |->
    IF d = Absent THEN 0 ELSE IF d = Top THEN Refused ELSE d + 1]
McFns == {CountUp}
=============================================================================
