---- MODULE MCOperator ----
(* Instances of Operator for TLC. *)
EXTENDS Operator

Served == [image |-> "i1", rollback |-> "", runtime |-> "gvisor", mode |-> "mode_a",
           host |-> "a.example", egress |-> {}, warm |-> 1]
Sandboxed == [Served EXCEPT !.image = "i2", !.rollback = "i1", !.mode = "mode_b", !.host = "",
                            !.egress = {"net"}, !.warm = 2]
TwoSpecs == {Served, Sandboxed}
====
