------------------------------ MODULE MCDataSync ------------------------------
(* Instances of DataSync. *)
EXTENDS DataSync
SqlAndMongo == {"mysql", "postgres", "mongodb"}
MongoOnly == {"mongodb"}
PostgresOnly == {"postgres"}
SqlOversized == [e \in Engines |-> IF e = "mongodb" THEN {} ELSE {MaxId}]
LastOversized == [e \in MongoOnly |-> {MaxId}]
NoneOversized == [e \in Engines |-> {}]
OneType == [i \in 1 .. MaxId |-> "int"]
\* MySQL's last table has TIME keys, PostgreSQL's an enum.
LastIsSpecial ==
  [e \in Engines |-> [o \in Objects |->
     IF o < NObjects \/ e = "mongodb" THEN "exact" ELSE IF e = "mysql" THEN "rounded" ELSE "text"]]
AllText == [e \in Engines |-> [o \in Objects |-> "text"]]
AllExact == [e \in Engines |-> [o \in Objects |-> "exact"]]
Backwards == [i \in Ids |-> MaxId - i]
LastRounded == [i \in Ids |-> IF i = MaxId /\ i > 1 THEN i - 1 ELSE i]
=============================================================================
