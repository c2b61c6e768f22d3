--------------------------- MODULE MCDatabasePool ---------------------------
(* Instances of DatabasePool for TLC: a transaction of two statements, a   *)
(* single statement, a query holder with two queries, an empty transaction *)
(* and a ping.                                                             *)
EXTENDS DatabasePool, TLC

CONSTANTS save, stmt, load, empty, ping

MCKind ==
    [o \in Ops |-> CASE o \in {save, empty} -> "trans"
                     [] o = stmt -> "exec"
                     [] o = load -> "holder"
                     [] o = ping -> "ping"]

MCSize == [o \in Ops |-> CASE o \in {save, load} -> 2
                           [] o \in {stmt, ping} -> 1
                           [] o = empty -> 0]
=============================================================================
