SPECIFICATION Spec
CONSTANTS
    Request = {r1, r2, r3}
    Email = {e1, e2}
    Fault = {"insertuser", "findorg", "createorg", "createkey"}
INVARIANT OneUserPerEmail
CHECK_DEADLOCK FALSE
