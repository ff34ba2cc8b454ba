-------------------------------- MODULE Values --------------------------------
(***************************************************************************)
(* What an expression yields on a row.  A value carries its type: INVALID  *)
(* is NULL, and CRASH stands for a null pointer followed or a              *)
(* GOODS_DB_ASSERT that aborts.  NoExpr is the null pointer in place of an *)
(* expression.                                                             *)
(***************************************************************************)
EXTENDS Integers

Null == [type |-> "INVALID", v |-> 0]
Number(n) == [type |-> "BIGINT", v |-> n]
Bool(b) == [type |-> "BOOLEAN", v |-> IF b THEN 1 ELSE 0]
Crash == [type |-> "CRASH", v |-> 0]

IsTrue(val) == val = Bool(TRUE)

NoExpr == [kind |-> "none"]
=============================================================================
