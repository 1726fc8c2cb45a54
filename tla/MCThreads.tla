------------------------------- MODULE MCThreads -------------------------------
(* Model-checking threads, subs given to JavaScript, and exceptions: one is *)
(* used, the others rest.                                                   *)
EXTENDS Ithreads, CodeTable, Exceptions

VARIABLE used

Symmetry == Permutations(Subs) \cup Permutations(Addrs)

MCInit ==
  /\ used \in {"threads", "subs", "exceptions"}
  /\ Init /\ CodeInit /\ ExceptionInit

MCNext ==
  \/ used = "threads" /\ Next /\ UNCHANGED <<used, code_vars, exception_vars>>
  \/ used = "subs" /\ CodeNext /\ UNCHANGED <<used, vars, exception_vars>>
  \/ used = "exceptions" /\ ExceptionNext /\ UNCHANGED <<used, vars, code_vars>>

MCSpec == MCInit /\ [][MCNext]_<<used, vars, code_vars, exception_vars>>

\* The variables of all three keep their types.
TypesOK == TypeOK /\ CodeTypeOK /\ ExceptionTypeOK

=============================================================================
