---- MODULE Endpoints ----
(***************************************************************************)
(* The senders of ABC: a connection uses the module tcp_abc, whose window  *)
(* follows the marks alone, or tcp_abccubic, for the life of the connection. *)
(***************************************************************************)
EXTENDS AbcCubic

CONSTANT Modules   \* of "abc" and "abccubic"

VARIABLE module

EndpointsInit == module \in Modules /\ Init /\ CubicInit

EndpointsNext ==
  /\ UNCHANGED module
  /\ \/ module = "abc" /\ Next /\ UNCHANGED cubicVars
     \/ module = "abccubic" /\ CubicNext /\ UNCHANGED vars

EndpointsSpec == EndpointsInit /\ [][EndpointsNext]_<<module, vars, cubicVars>>
----
\* cubic_root() finds the integer cube root, or one more, wherever its table
\* and its one step of approximation lead it: evaluated over a sample of its
\* arguments on every run.
ASSUME CubicRootIsClose ==
  \A a \in 0..500 \cup {509 * n : n \in 1..4000} : LET x == CubicRoot(a) IN
    /\ x = 0 \/ (x - 1) * (x - 1) * (x - 1) <= a
    /\ (x + 1) * (x + 1) * (x + 1) > a
====
